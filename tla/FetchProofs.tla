---------------------------- MODULE FetchProofs ----------------------------
(***************************************************************************)
(* Theorems about internal/fetch.                                          *)
(*                                                                         *)
(* For any number of callers, one at a time discovers a repository.  The   *)
(* argument: a caller that has entered the gate and not dropped its        *)
(* reference keeps the entry in the map, so all such callers refer to the  *)
(* same entry, and its semaphore admits one.                               *)
(*                                                                         *)
(* For any number of targets, pages and pushes, a branch reconciliation    *)
(* that is marked complete has covered its targets.  The argument: an      *)
(* execution that has not failed covers the targets it leaves behind, for  *)
(* its fence turns away only those a newer signal is on its way for, so a  *)
(* page that completes is covered, and the branch is done with the last    *)
(* page.                                                                   *)
(*                                                                         *)
(* For any callers and batches, a refresh of a pull request fails only for *)
(* a reason of its own and succeeds only by its own commit.  The argument: *)
(* a caller is a member of one batch until it is answered; the version of  *)
(* a pull request that nobody else is after moves only with its caller's   *)
(* commit, so its observation is current when its turn comes; and every    *)
(* attempt at the repository met another commit of the repository, so a    *)
(* repository that fails has seen more commits than there are attempts.    *)
(***************************************************************************)
EXTENDS DiscoveryGate, BranchPages, FetchCoordinator, TLAPS

Gated == {"wait", "recheck", "fetch", "release", "drop"}
Owning == {"recheck", "fetch", "release"}

GateTypeOK ==
    /\ at \in [Discoverers -> {"read", "enter", "done"} \cup Gated]
    /\ held \in [Discoverers -> 0 .. MaxEntries]
    /\ table \in 0 .. MaxEntries /\ made \in 0 .. MaxEntries
    /\ refs \in [Entries -> SUBSET Discoverers]
    /\ owner \in [Entries -> SUBSET Discoverers]

GateInv ==
    /\ GateTypeOK
    /\ table <= made
    /\ \A c \in Discoverers : at[c] \in Gated => table # 0 /\ held[c] = table
    /\ table # 0 => \E c \in Discoverers : at[c] \in Gated
    /\ \A e \in Entries, c \in Discoverers :
         /\ c \in refs[e] <=> e = table /\ at[c] \in Gated
         /\ c \in owner[e] <=> held[c] = e /\ at[c] \in Owning
    /\ \A c, d \in Discoverers : at[c] \in Owning /\ at[d] \in Owning => c = d

\* The initial state satisfies the invariant: nobody is in the gate.
LEMMA InitGate == Init => GateInv
  BY MaxEntriesIsNat, SMTT(60) DEF Init, GateInv, GateTypeOK, Gated, Owning, Entries

\* Every step of a caller preserves it.
LEMMA StepGate == GateInv /\ [Next]_gateVars => GateInv'
<1> SUFFICES ASSUME GateInv, [Next]_gateVars PROVE GateInv'
  BY Zenon
<1> USE MaxEntriesIsNat DEF GateInv, GateTypeOK, Gated, Owning, Entries
<1>1. ASSUME NEW c \in Discoverers, Read(c) PROVE GateInv'
  BY <1>1, SMTT(60) DEF Read
<1>2. ASSUME NEW c \in Discoverers, Enter(c) PROVE GateInv'
  <2>1. CASE table = 0
    <3>1. /\ made + 1 \in Entries /\ table' = made + 1 /\ made' = made + 1
          /\ refs' = [refs EXCEPT ![made + 1] = @ \cup {c}]
          /\ held' = [held EXCEPT ![c] = made + 1]
          /\ at' = [at EXCEPT ![c] = "wait"] /\ owner' = owner
      BY <1>2, <2>1 DEF Enter
    <3>2. \A d \in Discoverers : at[d] \notin Gated
      BY Zenon, <2>1
    <3> QED BY <1>2, <3>1, <3>2, <2>1, SMTT(60) DEF Enter
  <2>2. CASE table # 0
    <3>1. /\ table' = table /\ made' = made /\ table \in Entries
          /\ refs' = [refs EXCEPT ![table] = @ \cup {c}]
          /\ held' = [held EXCEPT ![c] = table]
          /\ at' = [at EXCEPT ![c] = "wait"] /\ owner' = owner
      BY <1>2, <2>2 DEF Enter
    <3> QED BY <1>2, <3>1, SMTT(60) DEF Enter
  <2> QED BY Zenon, <2>1, <2>2
<1>3. ASSUME NEW c \in Discoverers, Acquire(c) PROVE GateInv'
  BY <1>3, SMTT(60) DEF Acquire
<1>4. ASSUME NEW c \in Discoverers, Cancel(c) PROVE GateInv'
  BY <1>4, SMTT(60) DEF Cancel
<1>5. ASSUME NEW c \in Discoverers, Recheck(c) PROVE GateInv'
  BY <1>5, SMTT(60) DEF Recheck
<1>6. ASSUME NEW c \in Discoverers, Discover(c) PROVE GateInv'
  BY <1>6, SMTT(60) DEF Discover
<1>7. ASSUME NEW c \in Discoverers, Release(c) PROVE GateInv'
  BY <1>7, SMTT(60) DEF Release
<1>8. ASSUME NEW c \in Discoverers, ReleaseReference(c) PROVE GateInv'
  BY <1>8, SMTT(60) DEF ReleaseReference, LastReference
<1>9. ASSUME NEW c \in Discoverers, Again(c) PROVE GateInv'
  BY <1>9, SMTT(60) DEF Again
<1>10. CASE UNCHANGED gateVars
  BY Zenon, <1>10 DEF gateVars
<1> QED BY Zenon, <1>1, <1>2, <1>3, <1>4, <1>5, <1>6, <1>7, <1>8, <1>9, <1>10 DEF Next

(* One caller at a time is between the second read of the cache and the    *)
(* release of the semaphore in ensureRepository, for any number of callers *)
(* and of entries made and dropped.                                        *)
THEOREM DiscoveryIsExclusive == Spec => []OneDiscovery
<1>1. GateInv => OneDiscovery
  BY Zenon DEF GateInv, OneDiscovery, Inside, Owning
<1> QED BY <1>1, InitGate, StepGate, PTL DEF Spec

(* The gate's map holds an entry only while a caller refers to it.         *)
THEOREM EntriesAreDropped == Spec => []EntryIsReferenced
<1>1. GateInv => EntryIsReferenced
  BY MaxEntriesIsNat DEF GateInv, GateTypeOK, EntryIsReferenced, Entries
<1> QED BY <1>1, InitGate, StepGate, PTL DEF Spec

-----------------------------------------------------------------------------
(* Branch reconciliation                                                   *)

JobStates == {"none", "queued", "running", "finished"}
Executions == [pc : {"idle", "running"}, todo : SUBSET Targets, failed : BOOLEAN,
               cancelled : BOOLEAN]
PageRows == [status : {"pending", "completed", "superseded"}, targets : SUBSET Targets,
             claims : [Targets -> Nat]]

BranchTypeOK ==
    /\ branch \in [generation : 0 .. MaxPushes, pages : Nat, done : BOOLEAN]
    /\ DOMAIN manifest = Generations
    /\ \A g \in Generations : \A k \in DOMAIN manifest[g] : manifest[g][k] \in PageRows
    /\ intents \in [Targets -> Nat] /\ observed \in [Targets -> Nat]
    /\ direct \subseteq Targets
    /\ pageJobs \in [Slots -> JobStates]
    /\ executions \in [Slots \X Workers -> Executions]

\* A target the latest push reached, or whose newest signal will.
Covered(t) == observed[t] = branch.generation \/ t \in direct

\* A page of the latest push has not lapsed, and its fence turns away only
\* the refresh of a target that was signalled since.
PagesHold ==
    \A g \in Generations : g = branch.generation =>
      \A k \in DOMAIN manifest[g] :
        /\ manifest[g][k].status # "superseded"
        /\ \A t \in manifest[g][k].targets :
             intents[t] = manifest[g][k].claims[t] \/ Covered(t)

\* A completed page has covered its targets.
CompletedIsCovered ==
    \A g \in Generations : g = branch.generation =>
      \A k \in DOMAIN manifest[g] : manifest[g][k].status = "completed" =>
        \A t \in manifest[g][k].targets : Covered(t)

\* An execution that has not failed has covered the targets behind it.
ProgressIsCovered ==
    \A s \in Slots, w \in Workers :
      /\ s[1] = branch.generation /\ executions[<<s, w>>].pc = "running"
      /\ ~executions[<<s, w>>].failed /\ ~executions[<<s, w>>].cancelled
      => \A t \in manifest[s[1]][s[2]].targets \ executions[<<s, w>>].todo : Covered(t)

\* Jobs and executions are of pages that were recorded.
JobsHavePages ==
    \A s \in Slots :
      pageJobs[s] # "none" \/ (\E w \in Workers : executions[<<s, w>>].pc = "running") =>
        s[1] <= branch.generation /\ s[2] \in DOMAIN manifest[s[1]]

\* A reconciliation is done when its pages are.
DoneIsCompleted ==
    branch.done => \A g \in Generations : g = branch.generation =>
                     \A k \in DOMAIN manifest[g] : manifest[g][k].status # "pending"

BranchInv ==
    /\ BranchTypeOK /\ PagesHold /\ CompletedIsCovered /\ ProgressIsCovered
    /\ JobsHavePages /\ DoneIsCompleted

\* Nothing has been pushed: there is no page and no execution.
LEMMA InitBranch == BranchInit => BranchInv
<1> SUFFICES ASSUME BranchInit PROVE BranchInv
  BY Zenon
<1>1. branch.generation = 0 /\ branch \in [generation : 0 .. MaxPushes, pages : Nat, done : BOOLEAN]
  BY BranchConstants DEF BranchInit
<1>2. \A s \in Slots, w \in Workers : executions[<<s, w>>] = NoExecution
  BY Zenon DEF BranchInit
<1>3. NoExecution \in Executions /\ NoExecution.pc = "idle"
  BY Zenon DEF NoExecution, Executions
<1>4. executions \in [Slots \X Workers -> Executions]
  BY Zenon, <1>3 DEF BranchInit
<1>5. \A g \in Generations : manifest[g] = <<>> /\ DOMAIN manifest[g] = {}
  BY DEF BranchInit
<1>6. BranchTypeOK
  BY Zenon, <1>1, <1>4, <1>5 DEF BranchInit, BranchTypeOK, JobStates
<1>7. \A g \in Generations : g # branch.generation
  BY <1>1 DEF Generations
<1>8. PagesHold /\ CompletedIsCovered /\ DoneIsCompleted
  BY Zenon, <1>7 DEF PagesHold, CompletedIsCovered, DoneIsCompleted
<1>9. ProgressIsCovered
  BY Zenon, <1>2, <1>3 DEF ProgressIsCovered
<1>10. JobsHavePages
  BY Zenon, <1>2, <1>3 DEF JobsHavePages, BranchInit
<1> QED BY Zenon, <1>6, <1>8, <1>9, <1>10 DEF BranchInv

\* A direct signal makes its target covered, for a refresh is on its way.
LEMMA SignalBranch == ASSUME BranchInv, NEW t \in Targets, Signal(t) PROVE BranchInv'
<1> USE DEF BranchInv
<1>1. /\ UNCHANGED <<branch, manifest, observed, pageJobs, executions>>
      /\ intents' = [intents EXCEPT ![t] = @ + 1] /\ direct' = direct \cup {t}
  BY Zenon DEF Signal
<1>2. BranchTypeOK'
  BY <1>1 DEF BranchTypeOK
<1>3. \A u : Covered(u) => Covered(u)'
  BY Zenon, <1>1 DEF Covered
<1>4. \A u \in Targets : intents'[u] = intents[u] \/ Covered(u)'
  BY Zenon, <1>1 DEF Covered, BranchTypeOK
<1>5. \A g \in Generations : \A k \in DOMAIN manifest[g] : manifest[g][k].targets \subseteq Targets
  BY Zenon DEF BranchTypeOK, PageRows
<1>6. PagesHold'
  BY Zenon, <1>1, <1>3, <1>4, <1>5 DEF PagesHold
<1>7. CompletedIsCovered'
  BY Zenon, <1>1, <1>3 DEF CompletedIsCovered
<1>8. ProgressIsCovered'
  BY Zenon, <1>1, <1>3 DEF ProgressIsCovered
<1>9. JobsHavePages' /\ DoneIsCompleted'
  BY Zenon, <1>1 DEF JobsHavePages, DoneIsCompleted
<1> QED BY Zenon, <1>2, <1>6, <1>7, <1>8, <1>9

\* The direct refresh observes the branch as it is.
LEMMA DirectRefreshBranch ==
  ASSUME BranchInv, NEW t \in Targets, DirectRefresh(t) PROVE BranchInv'
<1> USE DEF BranchInv
<1>1. /\ UNCHANGED <<branch, manifest, intents, pageJobs, executions>>
      /\ observed' = [observed EXCEPT ![t] = branch.generation] /\ direct' = direct \ {t}
  BY Zenon DEF DirectRefresh
<1>2. BranchTypeOK'
  <2>1. branch.generation \in Nat
    BY BranchConstants DEF BranchTypeOK
  <2> QED BY Zenon, <1>1, <2>1 DEF BranchTypeOK
<1>3. \A u : Covered(u) => Covered(u)'
  BY <1>1 DEF Covered, BranchTypeOK
<1>4. PagesHold'
  BY Zenon, <1>1, <1>3 DEF PagesHold
<1>5. CompletedIsCovered'
  BY Zenon, <1>1, <1>3 DEF CompletedIsCovered
<1>6. ProgressIsCovered'
  BY Zenon, <1>1, <1>3 DEF ProgressIsCovered
<1>7. JobsHavePages' /\ DoneIsCompleted'
  BY Zenon, <1>1 DEF JobsHavePages, DoneIsCompleted
<1> QED BY Zenon, <1>2, <1>4, <1>5, <1>6, <1>7

\* A push starts a generation whose pages are all pending and whose claims
\* are the newest; what ran before is no longer of the branch's generation.
LEMMA PushBranch ==
  ASSUME BranchInv, NEW n \in {0, TargetCount}, Push(n) PROVE BranchInv'
<1> USE DEF BranchInv
<1> DEFINE g == branch.generation + 1
           claims == AdvanceTargetGenerations(ListBranchReconciliationGenerationKeys(n))
<1>1. g \in Generations /\ branch.generation \in Nat
  BY BranchConstants DEF Push, BranchTypeOK, Generations
<1>2. claims \in [Targets -> Nat]
  BY DEF BranchTypeOK, AdvanceTargetGenerations
<1>3. PageCount(n) \in Nat
  BY BranchConstants DEF PageCount
<1>4. branch' = [generation |-> g, pages |-> PageCount(n), done |-> (PageCount(n) = 0)]
  BY Zenon DEF Push, RecordBranchReconciliationPages
<1>5. branch'.generation = g /\ branch'.pages = PageCount(n)
  BY Zenon, <1>4
<1>6. branch'.done = (PageCount(n) = 0)
  BY Zenon, <1>4
<1>7. branch' \in [generation : 0 .. MaxPushes, pages : Nat, done : BOOLEAN]
  <2>1. (PageCount(n) = 0) \in BOOLEAN
    BY Zenon
  <2>2. g \in 0 .. MaxPushes
    BY <1>1 DEF Generations
  <2> QED BY Zenon, <1>3, <1>4, <2>1, <2>2
<1>8. /\ DOMAIN manifest' = Generations
      /\ manifest'[g] = PageRecords(n, claims)
      /\ \A h \in Generations \ {g} : manifest'[h] = BeginBranchReconciliation(manifest[h])
  BY Zenon, <1>1 DEF Push
<1>9. DOMAIN manifest'[g] = 1 .. PageCount(n)
  BY Zenon, <1>8 DEF PageRecords
<1>10. \A k \in DOMAIN manifest'[g] :
         manifest'[g][k] = [status |-> "pending", targets |-> PageTargets(n, k), claims |-> claims]
  BY Zenon, <1>8 DEF PageRecords
<1>11. \A k : PageTargets(n, k) \subseteq Targets
  BY BranchConstants DEF PageTargets, Targets
<1>12. \A k \in DOMAIN manifest'[g] : manifest'[g][k] \in PageRows
  <2> SUFFICES ASSUME NEW k \in DOMAIN manifest'[g] PROVE manifest'[g][k] \in PageRows
    BY Zenon
  <2> HIDE DEF g, claims
  <2>1. manifest'[g][k] = [status |-> "pending", targets |-> PageTargets(n, k), claims |-> claims]
    BY Zenon, <1>10
  <2>2. PageTargets(n, k) \in SUBSET Targets
    BY Zenon, <1>11
  <2> QED BY <1>2, <2>1, <2>2 DEF PageRows
<1>13. \A h \in Generations \ {g} : DOMAIN manifest'[h] = DOMAIN manifest[h]
  BY Zenon, <1>8 DEF BeginBranchReconciliation
<1>14. ASSUME NEW h \in Generations \ {g}, NEW k \in DOMAIN manifest[h]
       PROVE  manifest'[h][k] \in PageRows
  <2>1. manifest[h][k] \in PageRows
    BY Zenon DEF BranchTypeOK
  <2>2. [manifest[h][k] EXCEPT !.status = "superseded"] \in PageRows
    BY Zenon, <2>1 DEF PageRows
  <2>3. \/ manifest'[h][k] = manifest[h][k]
        \/ manifest'[h][k] = [manifest[h][k] EXCEPT !.status = "superseded"]
    BY Zenon, <1>8 DEF BeginBranchReconciliation
  <2> QED BY Zenon, <2>1, <2>2, <2>3
<1>15. /\ intents' = claims /\ observed' = observed /\ executions' = executions
       /\ direct' \subseteq direct
  BY Zenon DEF Push
<1>16. pageJobs' = [s \in Slots |-> IF s[1] = g /\ s[2] <= PageCount(n) THEN "queued"
                                    ELSE pageJobs[s]]
  BY Zenon DEF Push
<1>17. pageJobs' \in [Slots -> JobStates]
  BY Zenon, <1>16 DEF BranchTypeOK, JobStates
<1>18. BranchTypeOK'
  <2>1. \A h \in Generations : \A k \in DOMAIN manifest'[h] : manifest'[h][k] \in PageRows
    BY Zenon, <1>12, <1>13, <1>14
  <2> QED BY Zenon, <1>2, <1>7, <1>8, <1>15, <1>17, <2>1 DEF BranchTypeOK
<1>19. \A k \in DOMAIN manifest'[g] :
         manifest'[g][k].status = "pending" /\ manifest'[g][k].claims = intents'
  <2> SUFFICES ASSUME NEW k \in DOMAIN manifest'[g]
               PROVE  manifest'[g][k].status = "pending" /\ manifest'[g][k].claims = claims
    BY Zenon, <1>15
  <2> HIDE DEF g, claims
  <2>1. manifest'[g][k] = [status |-> "pending", targets |-> PageTargets(n, k), claims |-> claims]
    BY Zenon, <1>10
  <2> QED BY <2>1
<1>20. PagesHold'
  BY Zenon, <1>5, <1>19 DEF PagesHold
<1>21. CompletedIsCovered'
  BY Zenon, <1>5, <1>19 DEF CompletedIsCovered
<1>22. \A s \in Slots, w \in Workers : executions[<<s, w>>].pc = "running" => s[1] # g
  <2>1. \A s \in Slots, w \in Workers : executions[<<s, w>>].pc = "running" => s[1] <= branch.generation
    BY Zenon DEF JobsHavePages
  <2> QED BY <2>1, <1>1
<1>23. ProgressIsCovered'
  BY Zenon, <1>5, <1>15, <1>22 DEF ProgressIsCovered
<1>24. JobsHavePages'
  <2> SUFFICES ASSUME NEW s \in Slots,
                      pageJobs'[s] # "none" \/ (\E w \in Workers : executions[<<s, w>>].pc = "running")
               PROVE  s[1] <= g /\ s[2] \in DOMAIN manifest'[s[1]]
    BY Zenon, <1>5, <1>15 DEF JobsHavePages
  <2>1. s[1] \in Generations /\ s[2] \in 1 .. PageCount(TargetCount)
    BY Zenon DEF Slots
  <2>2. CASE s[1] = g /\ s[2] <= PageCount(n)
    <3>1. PageCount(TargetCount) \in Nat
      BY BranchConstants DEF PageCount
    <3> QED BY <2>1, <2>2, <3>1, <1>1, <1>3, <1>9
  <2>3. CASE ~(s[1] = g /\ s[2] <= PageCount(n))
    <3>1. pageJobs'[s] = pageJobs[s]
      BY Zenon, <2>3, <1>16
    <3>2. s[1] <= branch.generation /\ s[2] \in DOMAIN manifest[s[1]]
      BY Zenon, <3>1 DEF JobsHavePages
    <3>3. s[1] # g /\ s[1] <= g
      BY <3>2, <2>1, <1>1 DEF Generations
    <3> QED BY Zenon, <3>2, <3>3, <2>1, <1>13
  <2> QED BY Zenon, <2>2, <2>3
<1>25. DoneIsCompleted'
  <2>1. branch'.done => DOMAIN manifest'[g] = {}
    <3> HIDE DEF g
    <3>1. branch'.done => PageCount(n) = 0
      BY Zenon, <1>6
    <3>2. PageCount(n) = 0 => DOMAIN manifest'[g] = {}
      BY <1>9
    <3> QED BY Zenon, <3>1, <3>2
  <2> QED BY Zenon, <2>1, <1>5 DEF DoneIsCompleted
<1> QED BY Zenon, <1>18, <1>20, <1>21, <1>23, <1>24, <1>25

\* The row Finalized writes is the branch's, done with the last page only.
LEMMA FinalizedRow ==
  ASSUME BranchTypeOK, NEW s \in Slots, NEW pages
  PROVE  /\ Finalized(s, pages) \in [generation : 0 .. MaxPushes, pages : Nat, done : BOOLEAN]
         /\ Finalized(s, pages).generation = branch.generation
         /\ Finalized(s, pages).done =>
              \/ branch.done
              \/ s[1] = branch.generation /\ \A k \in DOMAIN pages : pages[k].status # "pending"
<1>1. branch \in [generation : 0 .. MaxPushes, pages : Nat, done : BOOLEAN]
  BY Zenon DEF BranchTypeOK
<1>2. CASE Finalized(s, pages) = branch
  BY Zenon, <1>1, <1>2
<1>3. CASE Finalized(s, pages) # branch
  <2>1. /\ Finalized(s, pages) = [branch EXCEPT !.done = TRUE]
        /\ s[1] = branch.generation /\ \A k \in DOMAIN pages : pages[k].status # "pending"
    BY Zenon, <1>3 DEF Finalized, Current
  <2>2. [branch EXCEPT !.done = TRUE] \in [generation : 0 .. MaxPushes, pages : Nat, done : BOOLEAN]
    BY Zenon, <1>1
  <2>3. [branch EXCEPT !.done = TRUE].generation = branch.generation
    BY Zenon, <1>1
  <2> QED BY Zenon, <2>1, <2>2, <2>3
<1> QED BY Zenon, <1>2, <1>3

\* Healing a completed page's branch keeps the row's generation, and marks
\* it done when no page is pending.
LEMMA HealedRow ==
  ASSUME BranchTypeOK, DoneIsCompleted, NEW s \in Slots, Heal(s) \/ UNCHANGED branch,
         UNCHANGED manifest
  PROVE  /\ branch' \in [generation : 0 .. MaxPushes, pages : Nat, done : BOOLEAN]
         /\ branch'.generation = branch.generation
         /\ DoneIsCompleted'
<1>1. CASE UNCHANGED branch
  BY Zenon, <1>1 DEF BranchTypeOK, DoneIsCompleted
<1>2. CASE Heal(s)
  <2>1. branch' = Finalized(s, manifest[s[1]])
    BY Zenon, <1>2 DEF Heal
  <2>2. /\ branch' \in [generation : 0 .. MaxPushes, pages : Nat, done : BOOLEAN]
        /\ branch'.generation = branch.generation
        /\ branch'.done =>
              \/ branch.done
              \/ /\ s[1] = branch.generation
                 /\ \A k \in DOMAIN manifest[s[1]] : manifest[s[1]][k].status # "pending"
    BY Zenon, <2>1, FinalizedRow
  <2>3. DoneIsCompleted'
    BY Zenon, <2>2 DEF DoneIsCompleted
  <2> QED BY Zenon, <2>2, <2>3
<1> QED BY Zenon, <1>1, <1>2

\* A step of executions alone, which keeps the branch's generation: what is
\* left to show is that the executions that go on have covered their targets.
LEMMA ExecutionStep ==
  ASSUME BranchInv, UNCHANGED <<manifest, intents, direct>>,
         branch' \in [generation : 0 .. MaxPushes, pages : Nat, done : BOOLEAN],
         branch'.generation = branch.generation, DoneIsCompleted',
         observed' \in [Targets -> Nat], \A t \in Targets : Covered(t) => Covered(t)',
         executions' \in [Slots \X Workers -> Executions],
         pageJobs' \in [Slots -> JobStates],
         \A s \in Slots :
           pageJobs'[s] # "none" \/ (\E w \in Workers : executions'[<<s, w>>].pc = "running") =>
           pageJobs[s] # "none" \/ (\E w \in Workers : executions[<<s, w>>].pc = "running"),
         ProgressIsCovered'
  PROVE  BranchInv'
<1> USE DEF BranchInv
<1>1. BranchTypeOK'
  BY Zenon DEF BranchTypeOK
<1>2. \A g \in Generations : \A k \in DOMAIN manifest[g] : manifest[g][k].targets \subseteq Targets
  BY Zenon DEF BranchTypeOK, PageRows
<1>3. PagesHold'
  BY Zenon, <1>2 DEF PagesHold
<1>4. CompletedIsCovered'
  BY Zenon, <1>2 DEF CompletedIsCovered
<1>5. JobsHavePages'
  BY Zenon DEF JobsHavePages
<1> QED BY Zenon, <1>1, <1>3, <1>4, <1>5

\* An execution starts with all of its page's targets before it, or ends.
LEMMA BeginBranch ==
  ASSUME BranchInv, NEW s \in Slots, NEW w \in Workers, pageJobs[s] # "none", Begin(s, w)
  PROVE  BranchInv'
<1> USE DEF BranchInv
<1>1. UNCHANGED <<manifest, intents, observed, direct>>
  BY Zenon DEF Begin
<1>2. s[1] \in Generations /\ s[2] \in DOMAIN manifest[s[1]]
  BY Zenon DEF JobsHavePages, Slots
<1>3. Page(s) \in PageRows
  BY Zenon, <1>2 DEF Page, BranchTypeOK
<1>4. /\ executions \in [Slots \X Workers -> Executions] /\ <<s, w>> \in Slots \X Workers
      /\ pageJobs \in [Slots -> JobStates]
  BY Zenon DEF BranchTypeOK
<1>5. NoExecution \in Executions /\ NoExecution.pc = "idle"
  BY Zenon DEF NoExecution, Executions
<1>6. Heal(s) \/ UNCHANGED branch
  BY Zenon DEF Begin
<1>7. /\ branch' \in [generation : 0 .. MaxPushes, pages : Nat, done : BOOLEAN]
      /\ branch'.generation = branch.generation /\ DoneIsCompleted'
  BY Zenon, <1>1, <1>6, HealedRow
<1>8. \A t \in Targets : Covered(t) <=> Covered(t)'
  BY Zenon, <1>1, <1>7 DEF Covered
<1>9. PICK e \in Executions :
        /\ executions' = [executions EXCEPT ![<<s, w>>] = e]
        /\ e.pc = "running" => e.todo = Page(s).targets
  <2>1. CASE StartBranchReconciliationPage(s)
    <3> DEFINE e == [NoExecution EXCEPT !.pc = "running", !.todo = Page(s).targets]
    <3>1. Page(s).targets \in SUBSET Targets
      BY Zenon, <1>3 DEF PageRows
    <3>2. e \in Executions /\ e.todo = Page(s).targets
      BY Zenon, <1>5, <3>1 DEF Executions
    <3>3. executions' = [executions EXCEPT ![<<s, w>>] = e]
      BY Zenon, <2>1 DEF Begin
    <3> HIDE DEF e
    <3> QED BY Zenon, <3>2, <3>3
  <2>2. CASE ~StartBranchReconciliationPage(s)
    BY Zenon, <2>2, <1>5 DEF Begin, Finish
  <2> QED BY Zenon, <2>1, <2>2
<1>10. /\ executions' \in [Slots \X Workers -> Executions]
       /\ executions'[<<s, w>>] = e
       /\ \A x \in Slots \X Workers : x # <<s, w>> => executions'[x] = executions[x]
  BY Zenon, <1>4, <1>9
<1>11. /\ pageJobs' \in [Slots -> JobStates]
       /\ \A r \in Slots : r # s => pageJobs'[r] = pageJobs[r]
  BY Zenon, <1>4 DEF Begin, Finish, JobStates
<1>12. ASSUME NEW r \in Slots,
              pageJobs'[r] # "none" \/ (\E v \in Workers : executions'[<<r, v>>].pc = "running")
       PROVE  pageJobs[r] # "none" \/ (\E v \in Workers : executions[<<r, v>>].pc = "running")
  <2>1. CASE r = s
    BY Zenon, <2>1
  <2>2. CASE r # s
    <3>1. \A v \in Workers : executions'[<<r, v>>] = executions[<<r, v>>]
      BY Zenon, <2>2, <1>10
    <3> QED BY Zenon, <1>12, <2>2, <3>1, <1>11
  <2> QED BY Zenon, <2>1, <2>2
<1>13. ProgressIsCovered'
  <2> SUFFICES ASSUME NEW r \in Slots, NEW v \in Workers, r[1] = branch.generation,
                      executions'[<<r, v>>].pc = "running", ~executions'[<<r, v>>].failed,
                      ~executions'[<<r, v>>].cancelled,
                      NEW t \in manifest[r[1]][r[2]].targets \ executions'[<<r, v>>].todo
               PROVE  Covered(t)'
    BY Zenon, <1>1, <1>7 DEF ProgressIsCovered
  <2>1. CASE <<r, v>> = <<s, w>>
    BY Zenon, <2>1, <1>9, <1>10 DEF Page
  <2>2. CASE <<r, v>> # <<s, w>>
    <3>1. executions'[<<r, v>>] = executions[<<r, v>>]
      BY Zenon, <2>2, <1>10
    <3>2. Covered(t)
      BY Zenon, <3>1 DEF ProgressIsCovered
    <3>3. r[1] \in Generations /\ r[2] \in DOMAIN manifest[r[1]]
      BY Zenon, <3>1 DEF JobsHavePages, Slots
    <3>4. t \in Targets
      BY Zenon, <3>3 DEF BranchTypeOK, PageRows
    <3> QED BY Zenon, <3>2, <3>4, <1>8
  <2> QED BY Zenon, <2>1, <2>2
<1>14. observed' \in [Targets -> Nat]
  BY Zenon, <1>1 DEF BranchTypeOK
<1> QED BY Zenon, <1>1, <1>7, <1>8, <1>10, <1>11, <1>12, <1>13, <1>14, ExecutionStep

\* A refresh covers its target: it observes the branch, or its fence turned
\* it away because the target was signalled since the push.
LEMMA RefreshTargetBranch ==
  ASSUME BranchInv, NEW s \in Slots, NEW w \in Workers, NEW t \in Targets,
         RefreshTarget(s, w, t)
  PROVE  BranchInv'
<1> USE DEF BranchInv
<1>1. UNCHANGED <<branch, manifest, intents, direct, pageJobs>>
  BY Zenon DEF RefreshTarget
<1>2. /\ executions \in [Slots \X Workers -> Executions] /\ <<s, w>> \in Slots \X Workers
      /\ executions' = [executions EXCEPT ![<<s, w>>].todo = @ \ {t}]
  BY Zenon DEF BranchTypeOK, RefreshTarget
<1>3. /\ executions' \in [Slots \X Workers -> Executions]
      /\ executions'[<<s, w>>] = [executions[<<s, w>>] EXCEPT !.todo = @ \ {t}]
      /\ \A x \in Slots \X Workers : x # <<s, w>> => executions'[x] = executions[x]
  <2>1. PICK e \in Executions : e = executions[<<s, w>>]
    BY Zenon, <1>2
  <2>2. PICK f : f = [e EXCEPT !.todo = @ \ {t}]
    BY Zenon
  <2>3. f \in Executions
    BY Zenon, <2>2 DEF Executions
  <2>4. executions' = [executions EXCEPT ![<<s, w>>] = f]
    BY Zenon, <1>2, <2>1, <2>2
  <2>5. /\ executions' \in [Slots \X Workers -> Executions]
        /\ \A x \in Slots \X Workers : x # <<s, w>> => executions'[x] = executions[x]
    BY Zenon, <1>2, <2>3, <2>4
  <2>6. executions'[<<s, w>>] = f
    BY Zenon, <1>2, <2>4
  <2> QED
    BY Zenon, <2>1, <2>2, <2>5, <2>6
<1>4. /\ executions'[<<s, w>>].pc = executions[<<s, w>>].pc
      /\ executions'[<<s, w>>].failed = executions[<<s, w>>].failed
      /\ executions'[<<s, w>>].cancelled = executions[<<s, w>>].cancelled
      /\ executions'[<<s, w>>].todo = executions[<<s, w>>].todo \ {t}
  BY <1>2, <1>3 DEF Executions
<1>5. branch.generation \in Nat /\ observed \in [Targets -> Nat]
  BY BranchConstants DEF BranchTypeOK
<1>6. /\ observed' \in [Targets -> Nat]
      /\ \A u \in Targets : observed[u] = branch.generation => observed'[u] = branch.generation
  BY Zenon, <1>5 DEF RefreshTarget
<1>7. \A u \in Targets : Covered(u) => Covered(u)'
  BY Zenon, <1>1, <1>6 DEF Covered
<1>8. \A x \in Slots \X Workers : executions'[x].pc = executions[x].pc
  BY Zenon, <1>3, <1>4
<1>9. \A r \in Slots :
        pageJobs'[r] # "none" \/ (\E v \in Workers : executions'[<<r, v>>].pc = "running") =>
        pageJobs[r] # "none" \/ (\E v \in Workers : executions[<<r, v>>].pc = "running")
  BY Zenon, <1>1, <1>8
<1>10. ProgressIsCovered'
  <2> SUFFICES ASSUME NEW r \in Slots, NEW v \in Workers, r[1] = branch.generation,
                      executions'[<<r, v>>].pc = "running", ~executions'[<<r, v>>].failed,
                      ~executions'[<<r, v>>].cancelled,
                      NEW u \in manifest[r[1]][r[2]].targets \ executions'[<<r, v>>].todo
               PROVE  Covered(u)'
    BY Zenon, <1>1 DEF ProgressIsCovered
  <2>1. r[1] \in Generations /\ r[2] \in DOMAIN manifest[r[1]]
    BY Zenon, <1>8 DEF JobsHavePages, Slots
  <2>2. u \in Targets
    BY Zenon, <2>1 DEF BranchTypeOK, PageRows
  <2>3. CASE <<r, v>> = <<s, w>> /\ u = t
    <3>1. CASE Fenced(s, t)
      BY Zenon, <3>1, <2>3, <1>1, <1>5 DEF RefreshTarget, Covered
    <3>2. CASE ~Fenced(s, t)
      <4>1. intents[t] # manifest[s[1]][s[2]].claims[t]
        BY Zenon, <3>2, <2>3 DEF Fenced, Current, Page
      <4>2. Covered(t)
        BY Zenon, <4>1, <2>1, <2>3 DEF PagesHold
      <4> QED BY Zenon, <4>2, <2>3, <1>7
    <3> QED BY Zenon, <3>1, <3>2
  <2>4. CASE <<r, v>> = <<s, w>> /\ u # t
    <3>1. u \notin executions[<<s, w>>].todo
      BY Zenon, <2>4, <1>4
    <3>2. Covered(u)
      BY Zenon, <3>1, <2>4, <1>4 DEF ProgressIsCovered
    <3> QED BY Zenon, <3>2, <2>2, <1>7
  <2>5. CASE <<r, v>> # <<s, w>>
    <3>1. executions'[<<r, v>>] = executions[<<r, v>>]
      BY Zenon, <2>5, <1>3
    <3>2. Covered(u)
      BY Zenon, <3>1 DEF ProgressIsCovered
    <3> QED BY Zenon, <3>2, <2>2, <1>7
  <2> QED BY Zenon, <2>3, <2>4, <2>5
<1>11. DoneIsCompleted'
  BY Zenon, <1>1 DEF DoneIsCompleted
<1>12. /\ branch' \in [generation : 0 .. MaxPushes, pages : Nat, done : BOOLEAN]
       /\ branch'.generation = branch.generation /\ pageJobs' \in [Slots -> JobStates]
  BY Zenon, <1>1 DEF BranchTypeOK
<1> QED BY Zenon, <1>1, <1>3, <1>6, <1>7, <1>9, <1>10, <1>11, <1>12, ExecutionStep

\* A failed target and a heartbeat that finds its page gone take the execution
\* out of the way of completion.
LEMMA SpoiledBranch ==
  ASSUME BranchInv, NEW s \in Slots, NEW w \in Workers,
         Heartbeat(s, w) \/ \E t \in Targets : TargetFails(s, w, t)
  PROVE  BranchInv'
<1> USE DEF BranchInv
<1>1. UNCHANGED <<branch, manifest, intents, observed, direct, pageJobs>>
  BY Zenon DEF Heartbeat, TargetFails
<1>2. executions \in [Slots \X Workers -> Executions] /\ <<s, w>> \in Slots \X Workers
  BY Zenon DEF BranchTypeOK
<1>3. PICK e \in Executions :
        /\ executions' = [executions EXCEPT ![<<s, w>>] = e]
        /\ e.pc = executions[<<s, w>>].pc /\ (e.failed \/ e.cancelled)
  <2>1. CASE Heartbeat(s, w)
    <3> DEFINE e == [executions[<<s, w>>] EXCEPT !.todo = {}, !.cancelled = TRUE]
    <3>1. e \in Executions /\ e.pc = executions[<<s, w>>].pc /\ e.cancelled
      BY ZenonT(120), <1>2 DEF Executions
    <3>2. executions' = [executions EXCEPT ![<<s, w>>] = e]
      BY Zenon, <2>1, <1>2 DEF Heartbeat
    <3> HIDE DEF e
    <3> QED BY Zenon, <3>1, <3>2
  <2>2. ASSUME NEW t \in Targets, TargetFails(s, w, t)
        PROVE  \E e \in Executions :
                 /\ executions' = [executions EXCEPT ![<<s, w>>] = e]
                 /\ e.pc = executions[<<s, w>>].pc /\ (e.failed \/ e.cancelled)
    <3> DEFINE e == [executions[<<s, w>>] EXCEPT !.todo = @ \ {t}, !.failed = TRUE]
    <3>1. e \in Executions /\ e.pc = executions[<<s, w>>].pc /\ e.failed
      BY ZenonT(120), <1>2 DEF Executions
    <3>2. executions' = [executions EXCEPT ![<<s, w>>] = e]
      BY Zenon, <2>2, <1>2 DEF TargetFails
    <3> HIDE DEF e
    <3> QED BY Zenon, <3>1, <3>2
  <2> QED BY Zenon, <2>1, <2>2
<1>4. /\ executions' \in [Slots \X Workers -> Executions] /\ executions'[<<s, w>>] = e
      /\ \A x \in Slots \X Workers : x # <<s, w>> => executions'[x] = executions[x]
  BY Zenon, <1>2, <1>3
<1>5. \A x \in Slots \X Workers : executions'[x].pc = executions[x].pc
  BY Zenon, <1>3, <1>4
<1>6. \A r \in Slots :
        pageJobs'[r] # "none" \/ (\E v \in Workers : executions'[<<r, v>>].pc = "running") =>
        pageJobs[r] # "none" \/ (\E v \in Workers : executions[<<r, v>>].pc = "running")
  BY Zenon, <1>1, <1>5
<1>7. \A t : Covered(t) <=> Covered(t)'
  BY Zenon, <1>1 DEF Covered
<1>8. ProgressIsCovered'
  <2> SUFFICES ASSUME NEW r \in Slots, NEW v \in Workers, r[1] = branch.generation,
                      executions'[<<r, v>>].pc = "running", ~executions'[<<r, v>>].failed,
                      ~executions'[<<r, v>>].cancelled,
                      NEW u \in manifest[r[1]][r[2]].targets \ executions'[<<r, v>>].todo
               PROVE  Covered(u)'
    BY Zenon, <1>1 DEF ProgressIsCovered
  <2>1. executions'[<<r, v>>] = executions[<<r, v>>]
    BY Zenon, <1>3, <1>4
  <2> QED BY Zenon, <2>1, <1>7 DEF ProgressIsCovered
<1>9. DoneIsCompleted'
  BY Zenon, <1>1 DEF DoneIsCompleted
<1>10. /\ branch' \in [generation : 0 .. MaxPushes, pages : Nat, done : BOOLEAN]
       /\ branch'.generation = branch.generation /\ pageJobs' \in [Slots -> JobStates]
       /\ observed' \in [Targets -> Nat]
  BY Zenon, <1>1 DEF BranchTypeOK
<1> QED BY Zenon, <1>1, <1>4, <1>6, <1>7, <1>8, <1>9, <1>10, ExecutionStep

\* What the end of an execution does to the jobs and executions.
LEMMA EndedExecution ==
  ASSUME BranchInv, NEW s \in Slots, NEW w \in Workers, CompletePage(s, w)
  PROVE  /\ executions' \in [Slots \X Workers -> Executions]
         /\ executions'[<<s, w>>].pc = "idle"
         /\ \A x \in Slots \X Workers : x # <<s, w>> => executions'[x] = executions[x]
         /\ pageJobs' \in [Slots -> JobStates]
         /\ \A r \in Slots :
              pageJobs'[r] # "none" \/ (\E v \in Workers : executions'[<<r, v>>].pc = "running") =>
              pageJobs[r] # "none" \/ (\E v \in Workers : executions[<<r, v>>].pc = "running")
<1>1. /\ executions \in [Slots \X Workers -> Executions] /\ <<s, w>> \in Slots \X Workers
      /\ pageJobs \in [Slots -> JobStates]
  BY Zenon DEF BranchInv, BranchTypeOK
<1>2. NoExecution \in Executions /\ NoExecution.pc = "idle"
  BY Zenon DEF NoExecution, Executions
<1>3. executions' = [executions EXCEPT ![<<s, w>>] = NoExecution]
  BY Zenon DEF CompletePage, Finish
<1>4. /\ executions' \in [Slots \X Workers -> Executions]
      /\ executions'[<<s, w>>].pc = "idle"
      /\ \A x \in Slots \X Workers : x # <<s, w>> => executions'[x] = executions[x]
  BY Zenon, <1>1, <1>2, <1>3
<1>5. \E j \in JobStates : pageJobs' = [pageJobs EXCEPT ![s] = j]
  <2>1. "finished" \in JobStates /\ "queued" \in JobStates /\ pageJobs[s] \in JobStates
    BY Zenon, <1>1 DEF JobStates
  <2> QED BY Zenon, <2>1 DEF CompletePage, Finish
<1>6. pageJobs' \in [Slots -> JobStates] /\ \A r \in Slots : r # s => pageJobs'[r] = pageJobs[r]
  BY Zenon, <1>1, <1>5
<1>7. ASSUME NEW r \in Slots,
             pageJobs'[r] # "none" \/ (\E v \in Workers : executions'[<<r, v>>].pc = "running")
      PROVE  pageJobs[r] # "none" \/ (\E v \in Workers : executions[<<r, v>>].pc = "running")
  <2>1. CASE r = s
    BY Zenon, <2>1 DEF CompletePage
  <2>2. CASE r # s
    <3>1. \A v \in Workers : executions'[<<r, v>>] = executions[<<r, v>>]
      BY Zenon, <2>2, <1>4
    <3> QED BY Zenon, <1>7, <2>2, <3>1, <1>6
  <2> QED BY Zenon, <2>1, <2>2
<1> QED BY Zenon, <1>4, <1>6, <1>7

\* The executions that go on have covered what they had covered.
LEMMA OthersProgress ==
  ASSUME BranchInv, NEW s \in Slots, NEW w \in Workers,
         executions'[<<s, w>>].pc = "idle",
         \A x \in Slots \X Workers : x # <<s, w>> => executions'[x] = executions[x],
         branch'.generation = branch.generation,
         \A g \in Generations : \A k \in DOMAIN manifest[g] :
           manifest'[g][k].targets = manifest[g][k].targets,
         UNCHANGED <<observed, direct>>
  PROVE  ProgressIsCovered'
<1> SUFFICES ASSUME NEW r \in Slots, NEW v \in Workers, r[1] = branch.generation,
                    executions'[<<r, v>>].pc = "running", ~executions'[<<r, v>>].failed,
                    ~executions'[<<r, v>>].cancelled,
                    NEW u \in manifest'[r[1]][r[2]].targets \ executions'[<<r, v>>].todo
             PROVE  Covered(u)'
  BY Zenon DEF ProgressIsCovered
<1>1. executions'[<<r, v>>] = executions[<<r, v>>]
  BY Zenon
<1>2. r[1] \in Generations /\ r[2] \in DOMAIN manifest[r[1]]
  BY ZenonT(120), <1>1 DEF BranchInv, JobsHavePages, Slots
<1>3. Covered(u)
  BY Zenon, <1>1, <1>2 DEF BranchInv, ProgressIsCovered
<1> QED BY Zenon, <1>3 DEF Covered

\* The execution whose page completes: it has covered all of the targets.
LEMMA CompletedBranch ==
  ASSUME BranchInv, NEW s \in Slots, NEW w \in Workers, CompletePage(s, w),
         ~executions[<<s, w>>].cancelled, ~executions[<<s, w>>].failed, Current(s)
  PROVE  BranchInv'
<1> USE DEF BranchInv
<1> DEFINE pages == CompleteBranchReconciliationPage(s)
<1>1. /\ manifest' = [manifest EXCEPT ![s[1]] = pages] /\ branch' = Finalized(s, pages)
      /\ UNCHANGED <<intents, observed, direct>>
      /\ executions[<<s, w>>].pc = "running" /\ executions[<<s, w>>].todo = {}
  BY Zenon DEF CompletePage
<1>2. s[1] \in Generations /\ s[2] \in DOMAIN manifest[s[1]] /\ s[1] = branch.generation
  BY Zenon, <1>1 DEF JobsHavePages, Slots, Current
<1>3. /\ branch' \in [generation : 0 .. MaxPushes, pages : Nat, done : BOOLEAN]
      /\ branch'.generation = branch.generation
      /\ branch'.done => branch.done \/ \A k \in DOMAIN pages : pages[k].status # "pending"
  BY Zenon, <1>1, FinalizedRow
<1>4. \A t : Covered(t) <=> Covered(t)'
  BY Zenon, <1>1, <1>3 DEF Covered
<1>5. /\ DOMAIN manifest = Generations
      /\ \A k \in DOMAIN manifest[s[1]] : manifest[s[1]][k] \in PageRows
  BY Zenon, <1>2 DEF BranchTypeOK
<1>6. /\ DOMAIN manifest' = Generations /\ manifest'[s[1]] = pages
      /\ \A g \in Generations \ {s[1]} : manifest'[g] = manifest[g]
  BY Zenon, <1>1, <1>2, <1>5
<1>7. /\ DOMAIN pages = DOMAIN manifest[s[1]]
      /\ \A k \in DOMAIN manifest[s[1]] \ {s[2]} : pages[k] = manifest[s[1]][k]
      /\ pages[s[2]] = [manifest[s[1]][s[2]] EXCEPT !.status = IF @ = "pending" THEN "completed" ELSE @]
  BY Zenon, <1>2 DEF CompleteBranchReconciliationPage
<1>8. /\ pages[s[2]] \in PageRows
      /\ pages[s[2]].targets = manifest[s[1]][s[2]].targets
      /\ pages[s[2]].claims = manifest[s[1]][s[2]].claims
      /\ pages[s[2]].status \in {"completed", manifest[s[1]][s[2]].status} \ {"pending"}
  <2>1. manifest[s[1]][s[2]] \in PageRows
    BY Zenon, <1>2, <1>5
  <2> HIDE DEF pages
  <2> QED BY Zenon, <1>7, <2>1 DEF PageRows
<1> HIDE DEF pages
<1>9. \A g \in Generations : \A k \in DOMAIN manifest'[g] :
        /\ k \in DOMAIN manifest[g] /\ manifest'[g][k] \in PageRows
        /\ manifest'[g][k].targets = manifest[g][k].targets
        /\ manifest'[g][k].claims = manifest[g][k].claims
  BY ZenonT(120), <1>6, <1>7, <1>8 DEF BranchTypeOK
<1>10. \A g \in Generations : DOMAIN manifest'[g] = DOMAIN manifest[g]
  BY Zenon, <1>6, <1>7
<1>11. \A t \in manifest[s[1]][s[2]].targets : Covered(t)
  BY Zenon, <1>1, <1>2 DEF ProgressIsCovered
<1>12. BranchTypeOK'
  BY Zenon, <1>1, <1>3, <1>6, <1>9, EndedExecution DEF BranchTypeOK
<1>13. PagesHold'
  <2>1. ASSUME NEW k \in DOMAIN pages
        PROVE  /\ pages[k].status # "superseded"
               /\ \A t \in pages[k].targets : intents[t] = pages[k].claims[t] \/ Covered(t)
    <3>1. /\ manifest[s[1]][k].status # "superseded"
          /\ \A t \in manifest[s[1]][k].targets :
               intents[t] = manifest[s[1]][k].claims[t] \/ Covered(t)
      BY Zenon, <1>2, <1>7 DEF PagesHold
    <3>2. CASE k = s[2]
      BY Zenon, <3>1, <3>2, <1>8
    <3>3. CASE k # s[2]
      <4>1. pages[k] = manifest[s[1]][k]
        BY Zenon, <3>3, <1>7
      <4> QED BY Zenon, <3>1, <4>1
    <3> QED BY Zenon, <3>2, <3>3
  <2> SUFFICES ASSUME NEW g \in Generations, g = branch'.generation, NEW k \in DOMAIN manifest'[g]
               PROVE  /\ manifest'[g][k].status # "superseded"
                      /\ \A t \in manifest'[g][k].targets :
                           intents'[t] = manifest'[g][k].claims[t] \/ Covered(t)'
    BY Zenon DEF PagesHold
  <2>2. manifest'[g] = pages
    BY Zenon, <1>2, <1>3, <1>6
  <2> QED BY Zenon, <2>1, <2>2, <1>1, <1>4
<1>14. CompletedIsCovered'
  <2>1. ASSUME NEW k \in DOMAIN pages, pages[k].status = "completed"
        PROVE  \A t \in pages[k].targets : Covered(t)
    <3>1. CASE k = s[2]
      BY Zenon, <3>1, <1>8, <1>11
    <3>2. CASE k # s[2]
      BY ZenonT(120), <3>2, <2>1, <1>2, <1>7 DEF CompletedIsCovered
    <3> QED BY Zenon, <3>1, <3>2
  <2> QED BY <2>1, <1>2, <1>3, <1>4, <1>6 DEF CompletedIsCovered
<1>15. ProgressIsCovered'
  <2>1. /\ executions'[<<s, w>>].pc = "idle"
        /\ \A x \in Slots \X Workers : x # <<s, w>> => executions'[x] = executions[x]
    BY Zenon, EndedExecution
  <2>2. \A g \in Generations : \A k \in DOMAIN manifest[g] :
          manifest'[g][k].targets = manifest[g][k].targets
    BY Zenon, <1>9, <1>10
  <2> QED BY Zenon, <1>1, <1>3, <2>1, <2>2, OthersProgress
<1>16. JobsHavePages'
  BY ZenonT(120), <1>3, <1>10, EndedExecution DEF JobsHavePages, Slots
<1>17. DoneIsCompleted'
  <2>1. branch.done => \A k \in DOMAIN pages : pages[k].status # "pending"
    <3> SUFFICES ASSUME branch.done, NEW k \in DOMAIN pages PROVE pages[k].status # "pending"
      BY Zenon
    <3>1. manifest[s[1]][k].status # "pending"
      BY Zenon, <1>2, <1>7 DEF DoneIsCompleted
    <3>2. CASE k = s[2]
      BY Zenon, <3>2, <1>8
    <3>3. CASE k # s[2]
      <4>1. pages[k] = manifest[s[1]][k]
        BY Zenon, <3>3, <1>7
      <4> QED BY Zenon, <3>1, <4>1
    <3> QED BY Zenon, <3>2, <3>3
  <2> QED BY <2>1, <1>2, <1>3, <1>6 DEF DoneIsCompleted
<1> QED BY Zenon, <1>12, <1>13, <1>14, <1>15, <1>16, <1>17

\* The end of an execution, whatever it found.
LEMMA CompletePageBranch ==
  ASSUME BranchInv, NEW s \in Slots, NEW w \in Workers, CompletePage(s, w) PROVE BranchInv'
<1>1. CASE ~executions[<<s, w>>].cancelled /\ ~executions[<<s, w>>].failed /\ Current(s)
  BY Zenon, <1>1, CompletedBranch
<1>2. CASE ~(~executions[<<s, w>>].cancelled /\ ~executions[<<s, w>>].failed /\ Current(s))
  <2>1. UNCHANGED <<manifest, intents, observed, direct>> /\ (Heal(s) \/ UNCHANGED branch)
    BY Zenon, <1>2 DEF CompletePage
  <2>2. /\ branch' \in [generation : 0 .. MaxPushes, pages : Nat, done : BOOLEAN]
        /\ branch'.generation = branch.generation /\ DoneIsCompleted'
    BY Zenon, <2>1, HealedRow DEF BranchInv
  <2>3. \A t : Covered(t) <=> Covered(t)'
    BY Zenon, <2>1, <2>2 DEF Covered
  <2>4. ProgressIsCovered'
    BY Zenon, <2>1, <2>2, EndedExecution, OthersProgress
  <2>5. observed' \in [Targets -> Nat]
    BY Zenon, <2>1 DEF BranchInv, BranchTypeOK
  <2> QED BY Zenon, <2>1, <2>2, <2>3, <2>4, <2>5, EndedExecution, ExecutionStep
<1> QED BY Zenon, <1>1, <1>2

\* Every step of a push, a signal, a page or its rescue preserves it.
LEMMA StepBranch == BranchInv /\ [BranchNext]_pageVars => BranchInv'
<1> SUFFICES ASSUME BranchInv, [BranchNext]_pageVars PROVE BranchInv'
  BY Zenon
<1>1. CASE UNCHANGED pageVars
  BY ZenonT(120), <1>1 DEF pageVars, BranchInv, BranchTypeOK, PagesHold, CompletedIsCovered, ProgressIsCovered,
       JobsHavePages, DoneIsCompleted, Covered
<1>2. ASSUME NEW s \in Slots, StartPage(s) \/ RescuePage(s) PROVE BranchInv'
  <2>1. \E w \in Workers : Begin(s, w)
    BY <1>2 DEF StartPage, RescuePage, Workers
  <2>2. pageJobs[s] # "none"
    BY Zenon, <1>2 DEF StartPage, RescuePage
  <2> QED BY Zenon, <2>1, <2>2, BeginBranch
<1>3. ASSUME NEW t \in Signalled, Signal(t) \/ DirectRefresh(t) PROVE BranchInv'
  BY Zenon, <1>3, BranchConstants, SignalBranch, DirectRefreshBranch DEF Targets
<1>4. ASSUME NEW s \in Slots, NEW w \in Workers, Working(s, w) PROVE BranchInv'
  BY Zenon, <1>4, RefreshTargetBranch, CompletePageBranch DEF Working
<1> QED BY Zenon, <1>1, <1>2, <1>3, <1>4, PushBranch, SpoiledBranch DEF BranchNext, Reconciling

(* A branch reconciliation marked complete has observed every target of its *)
(* push, or a direct refresh of it is on its way, for any number of targets, *)
(* page size and pushes: no failed, lapsed or duplicated execution of        *)
(* ReconcileBranchPage completes a page whose targets it did not refresh.    *)
THEOREM CompletedMeansCovered == BranchSpec => []CompletionCoversTargets
<1>1. BranchInv => CompletionCoversTargets
  <2> SUFFICES ASSUME BranchInv, branch.generation > 0, branch.done, NEW t \in OnBranch
               PROVE  Covered(t)
    BY Zenon DEF CompletionCoversTargets, Covered
  <2>1. branch.generation \in Generations
    BY BranchConstants DEF BranchInv, BranchTypeOK, Generations
  <2>2. PICK k \in DOMAIN manifest[branch.generation] :
          t \in manifest[branch.generation][k].targets
    BY Zenon DEF OnBranch
  <2>3. manifest[branch.generation][k].status = "completed"
    BY <2>1 DEF BranchInv, BranchTypeOK, PageRows, PagesHold, DoneIsCompleted
  <2> QED BY Zenon, <2>1, <2>2, <2>3 DEF BranchInv, CompletedIsCovered
<1> QED BY <1>1, InitBranch, StepBranch, PTL DEF BranchSpec

-----------------------------------------------------------------------------
(* The coordinator of pull-request batches                                 *)

Outcomes == [items : SUBSET Callers, ok : BOOLEAN]
Ranks == UNION {[S -> Nat] : S \in SUBSET Callers}
BatchRows ==
    [pc : {"open", "observe", "repository", "reobserve", "apply", "done"},
     timer : {"armed", "fired", "off"}, members : SUBSET Callers, todo : SUBSET Callers,
     rank : Ranks, tries : Nat, repo : {"none", "superseded", "applied", "failed"},
     outcome : [PullRequests -> Outcomes]]
ItemRows == [obs : Nat, repoObs : Nat, committed : BOOLEAN]

CoordinatorTypeOK ==
    /\ stale \subseteq Skips
    /\ caller \in [Callers -> {"new", "waiting", "left"}]
    /\ channel \in [Callers -> Seq({"ok", "error"})]
    /\ batches \in Seq(BatchRows) /\ current \in 0 .. Len(batches)
    /\ items \in [Callers -> ItemRows]
    /\ version \in [PullRequests -> Nat \ {0}] /\ repoVersion \in Nat \ {0}
    /\ rivals \in Seq(Contended)

\* A batch before it is executed, while it is, and after.
BatchShape(b) ==
    /\ batches[b].todo \subseteq batches[b].members
    /\ batches[b].pc \in {"open", "observe"} => batches[b].tries = 0
    /\ batches[b].pc \in {"repository", "reobserve"} =>
         batches[b].todo = {i \in batches[b].members : ~FetchFails(i)}
    /\ batches[b].pc = "done" => batches[b].members = {}
    /\ batches[b].pc # "apply" =>
         /\ batches[b].repo = "none"
         /\ \A p \in PullRequests : batches[b].outcome[p].items = {}
    /\ batches[b].pc \notin {"open", "done"} =>
         /\ batches[b].rank \in [batches[b].members -> Nat]
         /\ \A i, j \in batches[b].members : batches[b].rank[i] = batches[b].rank[j] => i = j

\* Its members wait for their answers, have observations once the fetch
\* begins, and commit when their turn comes and not before.
MembersWait(b) ==
    \A i \in batches[b].members :
      /\ caller[i] # "new" /\ channel[i] = <<>>
      /\ \/ batches[b].pc = "open"
         \/ batches[b].pc = "observe" /\ i \in batches[b].todo
         \/ items[i].obs > 0 /\ items[i].repoObs > 0
      /\ batches[b].pc # "apply" \/ i \in batches[b].todo => ~items[i].committed

\* Each attempt at the repository has met another commit of it.
AttemptsMeetCommits(b) ==
    /\ batches[b].pc = "repository" =>
         \A i \in Candidates(batches[b]) : items[i].repoObs > batches[b].tries
    /\ batches[b].pc = "reobserve" => repoVersion > batches[b].tries
    /\ batches[b].repo = "failed" => repoVersion > Attempts

\* A successful outcome is that of the caller it is kept for.
OutcomesAreOwn(b) ==
    \A p \in PullRequests : \A i \in batches[b].outcome[p].items :
      /\ i \in batches[b].members /\ i \notin batches[b].todo
      /\ batches[b].outcome[p].ok => items[i].committed

\* Others write, or refresh, the pull request of a caller.
Rivalled(i) ==
    \/ \E k \in 1 .. Len(rivals) : rivals[k] = PullRequest[i]
    \/ \E j \in Callers \ {i} : caller[j] # "new" /\ PullRequest[j] = PullRequest[i]

\* Without them, and without a failure of its own or of the repository, a
\* caller whose turn was has committed.
HealthyCommits(b) ==
    \A i \in batches[b].members \ batches[b].todo :
      /\ batches[b].pc = "apply" /\ ~FetchFails(i) /\ ~RepositoryFailed(batches[b], i)
      /\ i \notin stale /\ ~Rivalled(i)
      => i \in batches[b].outcome[PullRequest[i]].items /\ batches[b].outcome[PullRequest[i]].ok

BatchOK(b) ==
    /\ BatchShape(b) /\ MembersWait(b) /\ AttemptsMeetCommits(b) /\ OutcomesAreOwn(b)
    /\ HealthyCommits(b)

MembersAreDisjoint ==
    \A b, c \in BatchIds : b # c => batches[b].members \cap batches[c].members = {}

CurrentIsOpen == current # 0 => batches[current].pc = "open"

\* Observations are of the present or the past, and the version of a pull
\* request nobody else is after moves only when its caller commits.
CallerOK(i) ==
    /\ caller[i] = "new" => channel[i] = <<>> /\ ~items[i].committed
    /\ items[i].obs <= version[PullRequest[i]] /\ items[i].repoObs <= repoVersion
    /\ ~Rivalled(i) /\ ~items[i].committed => version[PullRequest[i]] = 1

CoordinatorInv ==
    /\ CoordinatorTypeOK /\ MembersAreDisjoint /\ CurrentIsOpen
    /\ \A b \in BatchIds : BatchOK(b)
    /\ \A i \in Callers : CallerOK(i)
    /\ BlameIsLocal /\ SuccessIsOwn

\* Facts about numbers that the observations need.
LEMMA NatOrder ==
  /\ \A n \in Nat \ {0} : n \in Nat /\ n > 0
  /\ \A n \in Nat : n <= n /\ n >= n
  /\ \A a, b, c \in Nat : a <= b /\ c >= b => a <= c
  /\ \A a, b, c \in Nat : a > b /\ c >= a => c > b
OBVIOUS

\* The rows of the batches have their type.
LEMMA BatchTyped ==
  ASSUME CoordinatorTypeOK, NEW b \in BatchIds
  PROVE  batches[b] \in BatchRows
<1>1. batches \in Seq(BatchRows)
  BY Zenon DEF CoordinatorTypeOK
<1> QED BY <1>1 DEF BatchIds

\* The rows NewBatch and NoItem are of their types.
LEMMA NewRows ==
  /\ NewBatch \in BatchRows /\ NoItem \in ItemRows /\ NoOutcome \in Outcomes
  /\ NewBatch.pc = "open" /\ NewBatch.members = {} /\ NewBatch.todo = {}
  /\ NewBatch.tries = 0 /\ NewBatch.repo = "none"
  /\ \A p \in PullRequests : NewBatch.outcome[p].items = {}
  /\ NoItem.obs = 0 /\ NoItem.repoObs = 0 /\ ~NoItem.committed
<1>1. NoOutcome \in Outcomes /\ NoOutcome.items = {}
  BY Zenon DEF NoOutcome, Outcomes
<1>2. NoItem \in ItemRows /\ NoItem.obs = 0 /\ NoItem.repoObs = 0 /\ ~NoItem.committed
  BY Zenon DEF NoItem, ItemRows
<1>3. [i \in {} |-> 0] \in Ranks
  <2>1. [i \in {} |-> 0] \in [{} -> Nat]
    BY Zenon
  <2>2. {} \in SUBSET Callers
    BY Zenon
  <2> QED BY Zenon, <2>1, <2>2 DEF Ranks
<1>4. [p \in PullRequests |-> NoOutcome] \in [PullRequests -> Outcomes]
  BY Zenon, <1>1
<1>5. NewBatch \in BatchRows
  BY Zenon, <1>3, <1>4 DEF NewBatch, BatchRows
<1>6. NewBatch.outcome = [p \in PullRequests |-> NoOutcome]
  BY Zenon DEF NewBatch
<1>7. /\ NewBatch.pc = "open" /\ NewBatch.members = {} /\ NewBatch.todo = {}
      /\ NewBatch.tries = 0 /\ NewBatch.repo = "none"
  BY Zenon DEF NewBatch
<1> QED BY Zenon, <1>1, <1>2, <1>5, <1>6, <1>7

\* Nobody has submitted yet.
LEMMA InitCoordinator == CoordinatorInit => CoordinatorInv
<1> SUFFICES ASSUME CoordinatorInit PROVE CoordinatorInv
  BY Zenon
<1> USE DEF CoordinatorInit
<1>1. batches = <<>> /\ Len(batches) = 0 /\ BatchIds = {}
  BY DEF BatchIds
<1>2. \A i \in Callers : items[i] = NoItem /\ version[PullRequest[i]] = 1
  BY Zenon DEF PullRequests
<1>3. CoordinatorTypeOK
  <2>1. channel \in [Callers -> Seq({"ok", "error"})]
    OBVIOUS
  <2>2. batches \in Seq(BatchRows) /\ rivals \in Seq(Contended)
    OBVIOUS
  <2> QED BY <1>1, <2>1, <2>2, NewRows DEF CoordinatorTypeOK
<1>4. MembersAreDisjoint /\ CurrentIsOpen /\ \A b \in BatchIds : BatchOK(b)
  BY Zenon, <1>1 DEF MembersAreDisjoint, CurrentIsOpen
<1>5. \A i \in Callers : CallerOK(i)
  BY <1>2, NewRows DEF CallerOK
<1>6. \A i \in Callers : channel[i] # <<"error">> /\ channel[i] # <<"ok">>
  BY Zenon
<1>7. BlameIsLocal /\ SuccessIsOwn
  BY Zenon, <1>6 DEF BlameIsLocal, SuccessIsOwn
<1> QED BY Zenon, <1>3, <1>4, <1>5, <1>7 DEF CoordinatorInv

\* What the row of one batch becomes, and that the others stay.
LEMMA StepFrame ==
  ASSUME CoordinatorTypeOK, NEW b \in BatchIds, NEW row \in BatchRows,
         batches' = [batches EXCEPT ![b] = row]
  PROVE  /\ batches' \in Seq(BatchRows) /\ Len(batches') = Len(batches)
         /\ BatchIds' = BatchIds /\ batches'[b] = row
         /\ \A c \in BatchIds : c # b => batches'[c] = batches[c]
  BY DEF CoordinatorTypeOK, BatchIds

\* The same when a batch is added.
LEMMA AppendFrame ==
  ASSUME CoordinatorTypeOK, NEW row \in BatchRows, batches' = Append(batches, row),
         NEW b, b = Len(batches) + 1
  PROVE  /\ batches' \in Seq(BatchRows) /\ Len(batches') = b /\ batches'[b] = row
         /\ \A c \in BatchIds : batches'[c] = batches[c]
         /\ BatchIds' = BatchIds \cup {b} /\ b \notin BatchIds
<1>1. batches \in Seq(BatchRows)
  BY Zenon DEF CoordinatorTypeOK
<1>2. /\ batches' \in Seq(BatchRows) /\ Len(batches') = b /\ batches'[b] = row
      /\ \A c \in 1 .. Len(batches) : batches'[c] = batches[c]
  BY <1>1
<1>3. Len(batches) \in Nat
  BY <1>1
<1>4. 1 .. Len(batches') = (1 .. Len(batches)) \cup {b} /\ b \notin 1 .. Len(batches)
  BY <1>2, <1>3
<1> QED BY Zenon, <1>2, <1>4 DEF BatchIds

\* A batch that a step does not touch keeps its invariant.
LEMMA OtherBatch ==
  ASSUME CoordinatorInv, NEW c \in BatchIds, batches'[c] = batches[c], stale' = stale,
         repoVersion' \in Nat, repoVersion' >= repoVersion,
         \A i \in Callers : Rivalled(i) => Rivalled(i)',
         \A i \in batches[c].members :
           items'[i] = items[i] /\ caller'[i] # "new" /\ channel'[i] = channel[i]
  PROVE  BatchOK(c)'
<1>1. BatchOK(c) /\ batches[c] \in BatchRows /\ repoVersion \in Nat
  BY Zenon, BatchTyped DEF CoordinatorInv, CoordinatorTypeOK
<1>2. /\ batches[c].members \subseteq Callers /\ batches[c].todo \subseteq Callers
      /\ batches[c].tries \in Nat
  BY Zenon, <1>1 DEF BatchRows
<1>3. BatchShape(c)'
  BY Zenon, <1>1 DEF BatchOK, BatchShape, FetchFails
<1>4. MembersWait(c)'
  BY Zenon, <1>1 DEF BatchOK, MembersWait
<1>5. Candidates(batches[c]) \subseteq batches[c].members
  BY ZenonT(120), <1>1 DEF BatchOK, BatchShape, Candidates, First
<1>6. AttemptsMeetCommits(c)'
  <2>1. /\ batches[c].pc = "repository" =>
             \A i \in Candidates(batches[c]) : items[i].repoObs > batches[c].tries
        /\ batches[c].pc = "reobserve" => repoVersion > batches[c].tries
        /\ batches[c].repo = "failed" => repoVersion > Attempts
    BY Zenon, <1>1 DEF BatchOK, AttemptsMeetCommits
  <2>2. Attempts \in Nat
    BY Zenon, CoordinatorConstants
  <2>3. /\ batches[c].pc = "reobserve" => repoVersion' > batches[c].tries
        /\ batches[c].repo = "failed" => repoVersion' > Attempts
    BY Zenon, <1>1, <1>2, <2>1, <2>2, NatOrder
  <2>4. \A i \in Candidates(batches[c]) : items'[i] = items[i]
    BY Zenon, <1>5
  <2> QED BY Zenon, <2>1, <2>3, <2>4 DEF AttemptsMeetCommits, Candidates, First
<1>7. OutcomesAreOwn(c)'
  BY Zenon, <1>1 DEF BatchOK, OutcomesAreOwn
<1>8. HealthyCommits(c)'
  BY Zenon, <1>1, <1>2 DEF BatchOK, HealthyCommits, FetchFails, RepositoryFailed
<1> QED BY Zenon, <1>3, <1>4, <1>6, <1>7, <1>8 DEF BatchOK

\* A step that touches one batch and its members only.
LEMMA BatchStep ==
  ASSUME CoordinatorInv, NEW b \in BatchIds, BatchIds' = BatchIds, BatchOK(b)',
         batches'[b].members \subseteq batches[b].members,
         \A c \in BatchIds : c # b => batches'[c] = batches[c],
         UNCHANGED <<stale, caller, rivals>>, repoVersion' \in Nat, repoVersion' >= repoVersion,
         \A i \in Callers : i \notin batches[b].members =>
                              items'[i] = items[i] /\ channel'[i] = channel[i]
  PROVE  MembersAreDisjoint' /\ (\A c \in BatchIds : BatchOK(c))'
<1>1. \A i \in Callers : Rivalled(i) => Rivalled(i)'
  BY Zenon DEF Rivalled
<1>2. MembersAreDisjoint'
  BY DEF CoordinatorInv, MembersAreDisjoint
<1>3. ASSUME NEW c \in BatchIds, c # b PROVE BatchOK(c)'
  <2>1. batches[c] \in BatchRows
    BY Zenon, BatchTyped DEF CoordinatorInv
  <2>2. batches[c].members \subseteq Callers /\ batches[c].members \cap batches[b].members = {}
    BY Zenon, <1>3, <2>1 DEF BatchRows, CoordinatorInv, MembersAreDisjoint
  <2>3. \A i \in batches[c].members : caller[i] # "new"
    BY Zenon DEF CoordinatorInv, BatchOK, MembersWait
  <2> QED BY Zenon, <1>1, <1>3, <2>2, <2>3, OtherBatch
<1> QED BY Zenon, <1>2, <1>3

\* Steps that change no caller, item or version keep what is said of callers.
LEMMA CallersKept ==
  ASSUME CoordinatorInv, UNCHANGED <<stale, caller, channel, items, version, repoVersion, rivals>>
  PROVE  (\A i \in Callers : CallerOK(i))' /\ BlameIsLocal' /\ SuccessIsOwn'
<1>1. \A i \in Callers : Rivalled(i)' <=> Rivalled(i)
  BY Zenon DEF Rivalled
<1>2. (\A i \in Callers : CallerOK(i))'
  BY Zenon, <1>1 DEF CoordinatorInv, CallerOK
<1>3. BlameIsLocal' /\ SuccessIsOwn'
  BY Zenon DEF CoordinatorInv, BlameIsLocal, SuccessIsOwn
<1> QED BY Zenon, <1>2, <1>3

\* execute's sort: the row of a closed batch.
LEMMA ClosedRow ==
  ASSUME NEW batch \in BatchRows, NEW closed \in Closed(batch)
  PROVE  /\ closed \in BatchRows /\ closed.pc = "observe"
         /\ closed.members = batch.members /\ closed.todo = batch.members
         /\ closed.timer = batch.timer /\ closed.tries = batch.tries
         /\ closed.repo = batch.repo /\ closed.outcome = batch.outcome
         /\ closed.rank \in [closed.members -> Nat]
         /\ \A i, j \in closed.members : closed.rank[i] = closed.rank[j] => i = j
<1>1. PICK rank \in ByEntity(batch.members) :
        closed = [batch EXCEPT !.pc = "observe", !.rank = rank, !.todo = batch.members]
  BY Zenon DEF Closed
<1>2. batch.members \in SUBSET Callers
  BY Zenon DEF BatchRows
<1>3. /\ rank \in [batch.members -> 1 .. Cardinality(batch.members)]
      /\ \A i, j \in batch.members : i # j => rank[i] # rank[j]
  BY Zenon DEF ByEntity
<1>4. rank \in [batch.members -> Nat]
  BY <1>3
<1>5. rank \in Ranks
  BY Zenon, <1>2, <1>4 DEF Ranks
<1>6. closed \in BatchRows
  BY Zenon, <1>1, <1>2, <1>5 DEF BatchRows
<1>7. /\ closed.pc = "observe" /\ closed.rank = rank
      /\ closed.members = batch.members /\ closed.todo = batch.members
      /\ closed.timer = batch.timer /\ closed.tries = batch.tries
      /\ closed.repo = batch.repo /\ closed.outcome = batch.outcome
  BY Zenon, <1>1 DEF BatchRows
<1> QED BY Zenon, <1>3, <1>4, <1>6, <1>7

\* A batch whose timer alone changes keeps its invariant.
LEMMA TimerOnly ==
  ASSUME CoordinatorInv, NEW b \in BatchIds,
         UNCHANGED <<stale, caller, channel, items, version, repoVersion, rivals>>,
         /\ batches'[b].pc = batches[b].pc /\ batches'[b].members = batches[b].members
         /\ batches'[b].todo = batches[b].todo /\ batches'[b].rank = batches[b].rank
         /\ batches'[b].tries = batches[b].tries /\ batches'[b].repo = batches[b].repo
         /\ batches'[b].outcome = batches[b].outcome
  PROVE  BatchOK(b)'
<1>1. BatchOK(b)
  BY Zenon DEF CoordinatorInv
<1>2. \A i \in Callers : Rivalled(i)' <=> Rivalled(i)
  BY Zenon DEF Rivalled
<1>3. batches[b].members \subseteq Callers
  <2>1. batches[b] \in BatchRows
    BY SMTT(60) DEF CoordinatorInv, CoordinatorTypeOK, BatchIds
  <2> QED BY Zenon, <2>1 DEF BatchRows
<1>4. BatchShape(b)'
  BY Zenon, <1>1 DEF BatchOK, BatchShape, FetchFails
<1>5. MembersWait(b)'
  BY Zenon, <1>1 DEF BatchOK, MembersWait
<1>6. AttemptsMeetCommits(b)'
  BY Zenon, <1>1 DEF BatchOK, AttemptsMeetCommits, Candidates, First
<1>7. OutcomesAreOwn(b)'
  BY Zenon, <1>1 DEF BatchOK, OutcomesAreOwn
<1>8. HealthyCommits(b)'
  BY Zenon, <1>1, <1>2, <1>3 DEF BatchOK, HealthyCommits, FetchFails, RepositoryFailed
<1> QED BY Zenon, <1>4, <1>5, <1>6, <1>7, <1>8 DEF BatchOK

\* The timer fires.
LEMMA TimerFiresCoordinator ==
  ASSUME CoordinatorInv, NEW b \in BatchIds, TimerFires(b) PROVE CoordinatorInv'
<1>1. UNCHANGED <<stale, caller, channel, items, version, repoVersion, rivals, current>>
  BY Zenon DEF TimerFires, callVars, entityVars
<1>2. batches[b] \in BatchRows /\ CoordinatorTypeOK
  BY Zenon, BatchTyped DEF CoordinatorInv
<1> DEFINE row == [batches[b] EXCEPT !.timer = "fired"]
<1>3. row \in BatchRows
  BY Zenon, <1>2 DEF BatchRows
<1>4. batches' = [batches EXCEPT ![b] = row]
  BY Zenon, <1>2 DEF TimerFires
<1>5. /\ row.pc = batches[b].pc /\ row.members = batches[b].members
      /\ row.todo = batches[b].todo /\ row.rank = batches[b].rank
      /\ row.tries = batches[b].tries /\ row.repo = batches[b].repo
      /\ row.outcome = batches[b].outcome
  BY Zenon, <1>2 DEF BatchRows
<1> HIDE DEF row
<1>6. /\ batches' \in Seq(BatchRows) /\ Len(batches') = Len(batches)
      /\ BatchIds' = BatchIds /\ batches'[b] = row
      /\ \A c \in BatchIds : c # b => batches'[c] = batches[c]
  BY Zenon, <1>2, <1>3, <1>4, StepFrame
<1>7. BatchOK(b)'
  BY Zenon, <1>1, <1>5, <1>6, TimerOnly
<1>8. MembersAreDisjoint' /\ (\A c \in BatchIds : BatchOK(c))'
  <2>1. repoVersion' \in Nat /\ repoVersion' >= repoVersion
    BY Zenon, <1>1, <1>2, NatOrder DEF CoordinatorTypeOK
  <2> QED BY Zenon, <1>1, <1>5, <1>6, <1>7, <2>1, BatchStep
<1>9. CoordinatorTypeOK'
  BY Zenon, <1>1, <1>2, <1>6 DEF CoordinatorTypeOK
<1>10. CurrentIsOpen'
  <2>1. current # 0 => current \in BatchIds
    BY <1>2 DEF CoordinatorTypeOK, BatchIds
  <2> QED BY Zenon, <2>1, <1>1, <1>5, <1>6 DEF CoordinatorInv, CurrentIsOpen
<1> QED BY Zenon, <1>1, <1>8, <1>9, <1>10, CallersKept DEF CoordinatorInv

\* A closed batch satisfies the invariant when it was open.
LEMMA ClosedOK ==
  ASSUME CoordinatorInv, NEW b \in BatchIds, batches[b].pc = "open",
         UNCHANGED <<stale, caller, channel, items, version, repoVersion, rivals>>,
         /\ batches'[b].pc = "observe" /\ batches'[b].members = batches[b].members
         /\ batches'[b].todo = batches[b].members
         /\ batches'[b].tries = batches[b].tries /\ batches'[b].repo = batches[b].repo
         /\ batches'[b].outcome = batches[b].outcome
         /\ batches'[b].rank \in [batches'[b].members -> Nat]
         /\ \A i, j \in batches'[b].members : batches'[b].rank[i] = batches'[b].rank[j] => i = j
  PROVE  BatchOK(b)'
<1>1. BatchOK(b)
  BY Zenon DEF CoordinatorInv
<1>2. BatchShape(b)'
  BY Zenon, <1>1 DEF BatchOK, BatchShape
<1>3. MembersWait(b)'
  BY Zenon, <1>1 DEF BatchOK, MembersWait
<1>4. AttemptsMeetCommits(b)'
  BY Zenon, <1>1 DEF BatchOK, BatchShape, AttemptsMeetCommits
<1>5. OutcomesAreOwn(b)'
  BY Zenon, <1>1 DEF BatchOK, BatchShape, OutcomesAreOwn
<1>6. HealthyCommits(b)'
  BY Zenon, <1>1 DEF HealthyCommits
<1> QED BY Zenon, <1>2, <1>3, <1>4, <1>5, <1>6 DEF BatchOK

\* flush closes the batch, or finds it closed.
LEMMA FlushCoordinator ==
  ASSUME CoordinatorInv, NEW b \in BatchIds, Flush(b) PROVE CoordinatorInv'
<1>1. UNCHANGED <<stale, caller, channel, items, version, repoVersion, rivals>>
  BY Zenon DEF Flush, callVars, entityVars
<1>2. batches[b] \in BatchRows /\ CoordinatorTypeOK
  BY Zenon, BatchTyped DEF CoordinatorInv
<1> DEFINE row == [batches[b] EXCEPT !.timer = "off"]
<1>3. row \in BatchRows
  BY Zenon, <1>2 DEF BatchRows
<1>4. /\ row.pc = batches[b].pc /\ row.members = batches[b].members
      /\ row.todo = batches[b].todo /\ row.rank = batches[b].rank
      /\ row.tries = batches[b].tries /\ row.repo = batches[b].repo
      /\ row.outcome = batches[b].outcome
  BY Zenon, <1>2 DEF BatchRows
<1>5. CASE StillOpen(b)
  <2>1. PICK closed \in Closed(row) : batches' = [batches EXCEPT ![b] = closed]
    BY Zenon, <1>5 DEF Flush
  <2>2. current' = 0
    BY Zenon, <1>5 DEF Flush
  <2> HIDE DEF row
  <2>3. /\ closed \in BatchRows /\ closed.pc = "observe"
        /\ closed.members = row.members /\ closed.todo = row.members
        /\ closed.timer = row.timer /\ closed.tries = row.tries
        /\ closed.repo = row.repo /\ closed.outcome = row.outcome
        /\ closed.rank \in [closed.members -> Nat]
        /\ \A i, j \in closed.members : closed.rank[i] = closed.rank[j] => i = j
    BY Zenon, <1>3, ClosedRow
  <2>4. /\ batches' \in Seq(BatchRows) /\ Len(batches') = Len(batches)
        /\ BatchIds' = BatchIds /\ batches'[b] = closed
        /\ \A c \in BatchIds : c # b => batches'[c] = batches[c]
    BY ZenonT(120), <1>2, <2>1, <2>3, StepFrame
  <2>5. BatchOK(b)'
    BY ZenonT(120), <1>1, <1>4, <1>5, <2>3, <2>4, ClosedOK DEF StillOpen
  <2>6. MembersAreDisjoint' /\ (\A c \in BatchIds : BatchOK(c))'
    <3>1. repoVersion' \in Nat /\ repoVersion' >= repoVersion
      BY Zenon, <1>1, <1>2, NatOrder DEF CoordinatorTypeOK
    <3> QED BY Zenon, <1>1, <1>4, <2>3, <2>4, <2>5, <3>1, BatchStep
  <2>7. CoordinatorTypeOK'
    <3>1. current' \in 0 .. Len(batches')
      BY <2>2, <2>4
    <3> QED BY Zenon, <1>1, <1>2, <2>4, <3>1 DEF CoordinatorTypeOK
  <2> QED BY Zenon, <1>1, <2>2, <2>6, <2>7, CallersKept DEF CoordinatorInv, CurrentIsOpen
<1>6. CASE ~StillOpen(b)
  <2>1. batches' = [batches EXCEPT ![b] = row] /\ current' = current
    BY Zenon, <1>2, <1>6 DEF Flush
  <2> HIDE DEF row
  <2>2. /\ batches' \in Seq(BatchRows) /\ Len(batches') = Len(batches)
        /\ BatchIds' = BatchIds /\ batches'[b] = row
        /\ \A c \in BatchIds : c # b => batches'[c] = batches[c]
    BY Zenon, <1>2, <1>3, <2>1, StepFrame
  <2>3. BatchOK(b)'
    BY Zenon, <1>1, <1>4, <2>2, TimerOnly
  <2>4. MembersAreDisjoint' /\ (\A c \in BatchIds : BatchOK(c))'
    <3>1. repoVersion' \in Nat /\ repoVersion' >= repoVersion
      BY Zenon, <1>1, <1>2, NatOrder DEF CoordinatorTypeOK
    <3> QED BY Zenon, <1>1, <1>4, <2>2, <2>3, <3>1, BatchStep
  <2>5. CoordinatorTypeOK'
    BY Zenon, <1>1, <1>2, <2>1, <2>2 DEF CoordinatorTypeOK
  <2>6. CurrentIsOpen'
    <3>1. current # 0 => current \in BatchIds
      BY <1>2 DEF CoordinatorTypeOK, BatchIds
    <3> QED BY Zenon, <3>1, <1>4, <2>1, <2>2 DEF CoordinatorInv, CurrentIsOpen
  <2> QED BY Zenon, <1>1, <2>4, <2>5, <2>6, CallersKept DEF CoordinatorInv
<1> QED BY Zenon, <1>5, <1>6

\* A step of an execution: its batch is not the one callers join.
LEMMA ExecutingFrame ==
  ASSUME CoordinatorInv, NEW b \in BatchIds, NEW row \in BatchRows, batches[b].pc # "open",
         Step(b, row)
  PROVE  /\ UNCHANGED <<stale, caller, channel, current>>
         /\ batches' \in Seq(BatchRows) /\ Len(batches') = Len(batches)
         /\ BatchIds' = BatchIds /\ batches'[b] = row
         /\ \A c \in BatchIds : c # b => batches'[c] = batches[c]
         /\ CurrentIsOpen' /\ current' \in 0 .. Len(batches')
<1>1. batches' = [batches EXCEPT ![b] = row] /\ UNCHANGED <<stale, caller, channel, current>>
  BY Zenon DEF Step, callVars
<1>2. CoordinatorTypeOK
  BY Zenon DEF CoordinatorInv
<1>3. /\ batches' \in Seq(BatchRows) /\ Len(batches') = Len(batches)
      /\ BatchIds' = BatchIds /\ batches'[b] = row
      /\ \A c \in BatchIds : c # b => batches'[c] = batches[c]
  BY Zenon, <1>1, <1>2, StepFrame
<1>4. current # 0 => current \in BatchIds
  BY <1>2 DEF CoordinatorTypeOK, BatchIds
<1>5. CurrentIsOpen'
  BY Zenon, <1>1, <1>3, <1>4 DEF CoordinatorInv, CurrentIsOpen
<1> QED BY Zenon, <1>1, <1>2, <1>3, <1>5 DEF CoordinatorTypeOK

\* Observations that are not of the future, and repository commits, keep
\* what is said of callers.
LEMMA CallersObserve ==
  ASSUME CoordinatorInv, UNCHANGED <<stale, caller, channel, version, rivals>>,
         repoVersion' \in Nat, repoVersion' >= repoVersion,
         \A i \in Callers : /\ items'[i].committed = items[i].committed
                            /\ items'[i].obs <= version[PullRequest[i]]
                            /\ items'[i].repoObs <= repoVersion'
  PROVE  (\A i \in Callers : CallerOK(i))' /\ BlameIsLocal' /\ SuccessIsOwn'
<1>1. \A i \in Callers : Rivalled(i)' <=> Rivalled(i)
  BY Zenon DEF Rivalled
<1>2. (\A i \in Callers : CallerOK(i))'
  BY Zenon, <1>1 DEF CoordinatorInv, CallerOK
<1>3. SuccessIsOwn'
  BY Zenon DEF CoordinatorInv, SuccessIsOwn
<1>4. repoVersion > Attempts => repoVersion' > Attempts
  BY SMTT(60), CoordinatorConstants DEF CoordinatorInv, CoordinatorTypeOK
<1>5. BlameIsLocal'
  BY Zenon, <1>4 DEF CoordinatorInv, BlameIsLocal
<1> QED BY Zenon, <1>2, <1>3, <1>5

\* BeginObservation of a member.
LEMMA ObserveCoordinator ==
  ASSUME CoordinatorInv, NEW b \in BatchIds, NEW i \in Callers, Observe(b, i)
  PROVE  CoordinatorInv'
<1>1. batches[b] \in BatchRows /\ CoordinatorTypeOK /\ BatchOK(b)
  BY Zenon, BatchTyped DEF CoordinatorInv
<1>2. batches[b].pc = "observe" /\ i \in batches[b].todo /\ i \in batches[b].members
  BY Zenon, <1>1 DEF Observe, First, BatchOK, BatchShape
<1> DEFINE row == [batches[b] EXCEPT !.todo = @ \ {i}]
<1>3. row \in BatchRows
  BY Zenon, <1>1 DEF BatchRows
<1>4. /\ row.pc = "observe" /\ row.members = batches[b].members
      /\ row.todo = batches[b].todo \ {i} /\ row.rank = batches[b].rank
      /\ row.tries = batches[b].tries /\ row.repo = batches[b].repo
      /\ row.outcome = batches[b].outcome
  BY Zenon, <1>1, <1>2 DEF BatchRows
<1>5. Step(b, row) /\ UNCHANGED <<version, repoVersion, rivals>>
  BY Zenon DEF Observe, entityVars
<1> HIDE DEF row
<1>6. /\ UNCHANGED <<stale, caller, channel, current>>
      /\ batches' \in Seq(BatchRows) /\ Len(batches') = Len(batches)
      /\ BatchIds' = BatchIds /\ batches'[b] = row
      /\ \A c \in BatchIds : c # b => batches'[c] = batches[c]
      /\ CurrentIsOpen' /\ current' \in 0 .. Len(batches')
  BY Zenon, <1>2, <1>3, <1>5, ExecutingFrame
<1>7. /\ items \in [Callers -> ItemRows] /\ version[PullRequest[i]] \in Nat \ {0}
      /\ repoVersion \in Nat \ {0}
  BY Zenon, <1>1 DEF CoordinatorTypeOK, PullRequests
<1> DEFINE item == [items[i] EXCEPT !.obs = version[PullRequest[i]], !.repoObs = repoVersion]
<1>8. item \in ItemRows
  BY Zenon, <1>7 DEF ItemRows
<1>9. /\ item.obs = version[PullRequest[i]] /\ item.repoObs = repoVersion
      /\ item.committed = items[i].committed
  BY Zenon, <1>7 DEF ItemRows
<1>10. items' = [items EXCEPT ![i] = item]
  BY Zenon, <1>7 DEF Observe
<1> HIDE DEF item
<1>11. /\ items' \in [Callers -> ItemRows] /\ items'[i] = item
       /\ \A j \in Callers : j # i => items'[j] = items[j]
  BY Zenon, <1>7, <1>8, <1>10
<1>12. CoordinatorTypeOK'
  BY Zenon, <1>1, <1>5, <1>6, <1>11 DEF CoordinatorTypeOK
<1>13. BatchOK(b)'
  <2>1. BatchShape(b)'
    BY ZenonT(120), <1>1, <1>2, <1>4, <1>6 DEF BatchOK, BatchShape
  <2>2. MembersWait(b)'
    <3> SUFFICES ASSUME NEW j \in batches[b].members
                 PROVE  /\ caller[j] # "new" /\ channel[j] = <<>> /\ ~items'[j].committed
                        /\ j \in row.todo \/ (items'[j].obs > 0 /\ items'[j].repoObs > 0)
      BY Zenon, <1>4, <1>6 DEF MembersWait
    <3>1. /\ caller[j] # "new" /\ channel[j] = <<>> /\ ~items[j].committed
          /\ j \in batches[b].todo \/ (items[j].obs > 0 /\ items[j].repoObs > 0)
      <4>1. MembersWait(b) /\ batches[b].pc = "observe"
        BY Zenon, <1>1, <1>2 DEF BatchOK
      <4>2. caller[j] # "new" /\ channel[j] = <<>>
        BY Zenon, <4>1 DEF MembersWait
      <4>3. ~items[j].committed
        BY Zenon, <4>1 DEF MembersWait
      <4>4. j \in batches[b].todo \/ (items[j].obs > 0 /\ items[j].repoObs > 0)
        BY ZenonT(120), <4>1 DEF MembersWait
      <4> QED BY Zenon, <4>2, <4>3, <4>4
    <3>2. CASE j = i
      <4>1. item.obs > 0 /\ item.repoObs > 0
        BY Zenon, <1>7, <1>9, NatOrder
      <4> QED BY Zenon, <3>1, <3>2, <4>1, <1>9, <1>11
    <3>3. CASE j # i
      BY Zenon, <3>1, <3>3, <1>1, <1>4, <1>11 DEF BatchRows
    <3> QED BY Zenon, <3>2, <3>3
  <2>3. AttemptsMeetCommits(b)'
    BY Zenon, <1>1, <1>2, <1>4, <1>6 DEF BatchOK, BatchShape, AttemptsMeetCommits
  <2>4. OutcomesAreOwn(b)'
    BY Zenon, <1>1, <1>2, <1>4, <1>6 DEF BatchOK, BatchShape, OutcomesAreOwn
  <2>5. HealthyCommits(b)'
    BY ZenonT(120), <1>4, <1>6 DEF HealthyCommits
  <2> QED BY ZenonT(120), <2>1, <2>2, <2>3, <2>4, <2>5 DEF BatchOK
<1>14. MembersAreDisjoint' /\ (\A c \in BatchIds : BatchOK(c))'
  <2>1. repoVersion' \in Nat /\ repoVersion' >= repoVersion
    BY <1>5, <1>7
  <2> QED BY Zenon, <1>2, <1>4, <1>5, <1>6, <1>11, <1>13, <2>1, BatchStep
<1>15. \A j \in Callers : /\ items'[j].committed = items[j].committed
                          /\ items'[j].obs <= version[PullRequest[j]]
                          /\ items'[j].repoObs <= repoVersion
  <2>1. item.obs <= version[PullRequest[i]] /\ item.repoObs <= repoVersion
    BY Zenon, <1>7, <1>9, NatOrder
  <2>2. \A j \in Callers : /\ items[j].obs <= version[PullRequest[j]]
                           /\ items[j].repoObs <= repoVersion
    BY Zenon DEF CoordinatorInv, CallerOK
  <2> QED BY Zenon, <1>9, <1>11, <2>1, <2>2
<1>16. (\A j \in Callers : CallerOK(j))' /\ BlameIsLocal' /\ SuccessIsOwn'
  <2>1. repoVersion' \in Nat /\ repoVersion' >= repoVersion
    BY Zenon, <1>5, <1>7, NatOrder
  <2> QED BY Zenon, <1>5, <1>6, <1>15, <2>1, CallersObserve
<1> QED BY Zenon, <1>6, <1>12, <1>14, <1>16 DEF CoordinatorInv

\* The fetch: what follows is for the members whose node did not fail.
LEMMA FetchCoordinated ==
  ASSUME CoordinatorInv, NEW b \in BatchIds, Fetch(b) PROVE CoordinatorInv'
<1>1. batches[b] \in BatchRows /\ CoordinatorTypeOK /\ BatchOK(b)
  BY Zenon, BatchTyped DEF CoordinatorInv
<1>2. batches[b].pc = "observe" /\ batches[b].todo = {} /\ batches[b].members \subseteq Callers
  BY Zenon, <1>1 DEF Fetch, BatchRows
<1> DEFINE prepared == {i \in batches[b].members : ~FetchFails(i)}
           row == [batches[b] EXCEPT !.todo = prepared, !.pc = "repository"]
<1>3. prepared \in SUBSET Callers
  BY Zenon, <1>2
<1>4. Step(b, row) /\ UNCHANGED <<items, version, repoVersion, rivals>>
  BY Zenon DEF Fetch, entityVars
<1> HIDE DEF prepared
<1>5. row \in BatchRows
  BY Zenon, <1>1, <1>3 DEF BatchRows
<1>6. /\ row.pc = "repository" /\ row.members = batches[b].members
      /\ row.todo = prepared /\ row.rank = batches[b].rank
      /\ row.tries = batches[b].tries /\ row.repo = batches[b].repo
      /\ row.outcome = batches[b].outcome
  BY Zenon, <1>1, <1>2 DEF BatchRows
<1> HIDE DEF row
<1>7. /\ UNCHANGED <<stale, caller, channel, current>>
      /\ batches' \in Seq(BatchRows) /\ Len(batches') = Len(batches)
      /\ BatchIds' = BatchIds /\ batches'[b] = row
      /\ \A c \in BatchIds : c # b => batches'[c] = batches[c]
      /\ CurrentIsOpen' /\ current' \in 0 .. Len(batches')
  BY Zenon, <1>2, <1>4, <1>5, ExecutingFrame
<1>8. CoordinatorTypeOK'
  BY Zenon, <1>1, <1>4, <1>7 DEF CoordinatorTypeOK
<1>9. BatchOK(b)'
  <2>1. BatchShape(b)'
    <3>1. row.todo = {i \in batches[b].members : ~FetchFails(i)}
      BY Zenon, <1>6 DEF prepared
    <3> QED BY ZenonT(120), <3>1, <1>1, <1>2, <1>6, <1>7 DEF BatchOK, BatchShape, FetchFails
  <2>2. MembersWait(b)'
    BY Zenon, <1>1, <1>2, <1>4, <1>6, <1>7 DEF BatchOK, MembersWait
  <2>3. AttemptsMeetCommits(b)'
    <3>1. batches[b].tries = 0 /\ batches[b].repo = "none"
      BY Zenon, <1>1, <1>2 DEF BatchOK, BatchShape
    <3>2. \A i \in Candidates(row) : i \in batches[b].members
      BY Zenon, <1>6 DEF Candidates, First, prepared
    <3>3. \A i \in Candidates(row) : items[i].repoObs > 0
      BY Zenon, <1>1, <1>2, <3>2 DEF BatchOK, MembersWait
    <3> QED BY Zenon, <3>1, <3>3, <1>4, <1>6, <1>7 DEF AttemptsMeetCommits, Candidates, First
  <2>4. OutcomesAreOwn(b)'
    BY Zenon, <1>1, <1>2, <1>6, <1>7 DEF BatchOK, BatchShape, OutcomesAreOwn
  <2>5. HealthyCommits(b)'
    BY Zenon, <1>6, <1>7 DEF HealthyCommits
  <2> QED BY ZenonT(120), <2>1, <2>2, <2>3, <2>4, <2>5 DEF BatchOK
<1>10. repoVersion' \in Nat /\ repoVersion' >= repoVersion
  BY <1>1, <1>4 DEF CoordinatorTypeOK
<1>11. MembersAreDisjoint' /\ (\A c \in BatchIds : BatchOK(c))'
  BY Zenon, <1>4, <1>6, <1>7, <1>9, <1>10, BatchStep
<1> QED BY Zenon, <1>4, <1>7, <1>8, <1>11, CallersKept DEF CoordinatorInv

\* The members whose node failed are the ones that do not wait for their turn.
LEMMA AppliesOK ==
  ASSUME CoordinatorInv, NEW b \in BatchIds, batches[b].pc = "repository",
         UNCHANGED <<stale, caller, channel, items>>,
         /\ batches'[b].pc = "apply" /\ batches'[b].members = batches[b].members
         /\ batches'[b].todo = batches[b].todo /\ batches'[b].rank = batches[b].rank
         /\ batches'[b].outcome = batches[b].outcome
         /\ batches'[b].repo = "failed" => repoVersion' > Attempts
  PROVE  BatchOK(b)'
<1>1. BatchOK(b) /\ batches[b].todo = {i \in batches[b].members : ~FetchFails(i)}
  BY Zenon DEF CoordinatorInv, BatchOK, BatchShape
<1>2. BatchShape(b)'
  BY Zenon, <1>1 DEF BatchOK, BatchShape
<1>3. MembersWait(b)'
  BY Zenon, <1>1 DEF BatchOK, MembersWait
<1>4. AttemptsMeetCommits(b)'
  BY Zenon DEF AttemptsMeetCommits
<1>5. OutcomesAreOwn(b)'
  BY Zenon, <1>1 DEF BatchOK, BatchShape, OutcomesAreOwn
<1>6. HealthyCommits(b)'
  BY Zenon, <1>1 DEF HealthyCommits, FetchFails
<1> QED BY Zenon, <1>2, <1>3, <1>4, <1>5, <1>6 DEF BatchOK

\* A step from the repository to the pull requests.
LEMMA RepositoryApplied ==
  ASSUME CoordinatorInv, NEW b \in BatchIds, batches[b].pc = "repository",
         NEW row \in BatchRows, Step(b, row),
         row.pc = "apply", row.members = batches[b].members, row.todo = batches[b].todo,
         row.rank = batches[b].rank, row.outcome = batches[b].outcome,
         row.repo = "failed" => repoVersion' > Attempts,
         UNCHANGED <<items, version, rivals>>,
         repoVersion' \in Nat \ {0}, repoVersion' >= repoVersion
  PROVE  CoordinatorInv'
<1>1. batches[b] \in BatchRows /\ CoordinatorTypeOK
  BY Zenon, BatchTyped DEF CoordinatorInv
<1>2. /\ UNCHANGED <<stale, caller, channel, current>>
      /\ batches' \in Seq(BatchRows) /\ Len(batches') = Len(batches)
      /\ BatchIds' = BatchIds /\ batches'[b] = row
      /\ \A c \in BatchIds : c # b => batches'[c] = batches[c]
      /\ CurrentIsOpen' /\ current' \in 0 .. Len(batches')
  BY Zenon, ExecutingFrame
<1>3. CoordinatorTypeOK'
  BY Zenon, <1>1, <1>2 DEF CoordinatorTypeOK
<1>4. BatchOK(b)'
  BY Zenon, <1>2, AppliesOK
<1>5. MembersAreDisjoint' /\ (\A c \in BatchIds : BatchOK(c))'
  BY Zenon, <1>2, <1>4, BatchStep
<1>6. repoVersion \in Nat /\ repoVersion' \in Nat
  BY Zenon, <1>1 DEF CoordinatorTypeOK
<1>7. \A i \in Callers : /\ items'[i].committed = items[i].committed
                          /\ items'[i].obs <= version[PullRequest[i]]
                          /\ items'[i].repoObs <= repoVersion'
  <2>1. \A i \in Callers : items[i].repoObs \in Nat
    BY Zenon, <1>1 DEF CoordinatorTypeOK, ItemRows
  <2>2. \A i \in Callers : /\ items[i].obs <= version[PullRequest[i]]
                           /\ items[i].repoObs <= repoVersion
    BY Zenon DEF CoordinatorInv, CallerOK
  <2>3. ASSUME NEW i \in Callers PROVE items[i].repoObs <= repoVersion'
    BY <2>1, <2>2, <1>6
  <2> QED BY Zenon, <2>2, <2>3
<1>8. (\A i \in Callers : CallerOK(i))' /\ BlameIsLocal' /\ SuccessIsOwn'
  BY Zenon, <1>2, <1>6, <1>7, CallersObserve
<1> QED BY Zenon, <1>2, <1>3, <1>5, <1>8 DEF CoordinatorInv

\* A conflict with attempts left: another commit of the repository was met.
LEMMA RepositoryRetried ==
  ASSUME CoordinatorInv, NEW b \in BatchIds, batches[b].pc = "repository",
         repoVersion > batches[b].tries + 1,
         Step(b, [batches[b] EXCEPT !.pc = "reobserve", !.tries = @ + 1]),
         UNCHANGED <<items, version, repoVersion, rivals>>
  PROVE  CoordinatorInv'
<1>1. batches[b] \in BatchRows /\ CoordinatorTypeOK /\ BatchOK(b)
  BY Zenon, BatchTyped DEF CoordinatorInv
<1> DEFINE row == [batches[b] EXCEPT !.pc = "reobserve", !.tries = @ + 1]
<1>2. row \in BatchRows
  <2>1. batches[b].tries + 1 \in Nat
    BY <1>1 DEF BatchRows
  <2>2. row = [batches[b] EXCEPT !.pc = "reobserve", !.tries = batches[b].tries + 1]
    BY Zenon, <1>1 DEF BatchRows
  <2> QED BY Zenon, <1>1, <2>1, <2>2 DEF BatchRows
<1>3. /\ row.pc = "reobserve" /\ row.members = batches[b].members
      /\ row.todo = batches[b].todo /\ row.rank = batches[b].rank
      /\ row.tries = batches[b].tries + 1
      /\ row.repo = batches[b].repo /\ row.outcome = batches[b].outcome
  BY Zenon, <1>1 DEF BatchRows
<1>4. Step(b, row)
  BY Zenon
<1> HIDE DEF row
<1>5. /\ UNCHANGED <<stale, caller, channel, current>>
      /\ batches' \in Seq(BatchRows) /\ Len(batches') = Len(batches)
      /\ BatchIds' = BatchIds /\ batches'[b] = row
      /\ \A c \in BatchIds : c # b => batches'[c] = batches[c]
      /\ CurrentIsOpen' /\ current' \in 0 .. Len(batches')
  BY Zenon, <1>2, <1>4, ExecutingFrame
<1>6. CoordinatorTypeOK'
  BY Zenon, <1>1, <1>5 DEF CoordinatorTypeOK
<1>7. BatchOK(b)'
  <2>1. BatchShape(b)'
    BY ZenonT(120), <1>1, <1>3, <1>5 DEF BatchOK, BatchShape, FetchFails
  <2>2. MembersWait(b)'
    BY Zenon, <1>1, <1>3, <1>5 DEF BatchOK, MembersWait
  <2>3. AttemptsMeetCommits(b)'
    BY Zenon, <1>1, <1>3, <1>5 DEF BatchOK, AttemptsMeetCommits
  <2>4. OutcomesAreOwn(b)'
    BY Zenon, <1>1, <1>3, <1>5 DEF BatchOK, OutcomesAreOwn
  <2>5. HealthyCommits(b)'
    BY Zenon, <1>3, <1>5 DEF HealthyCommits
  <2> QED BY Zenon, <2>1, <2>2, <2>3, <2>4, <2>5 DEF BatchOK
<1>8. repoVersion' \in Nat /\ repoVersion' >= repoVersion
  BY <1>1 DEF CoordinatorTypeOK
<1>9. MembersAreDisjoint' /\ (\A c \in BatchIds : BatchOK(c))'
  BY Zenon, <1>3, <1>5, <1>7, <1>8, BatchStep
<1> QED BY Zenon, <1>5, <1>6, <1>9, CallersKept DEF CoordinatorInv

\* applyIncidentalRepository, one attempt.
LEMMA ApplyRepositoryCoordinator ==
  ASSUME CoordinatorInv, NEW b \in BatchIds, ApplyIncidentalRepository(b)
  PROVE  CoordinatorInv'
<1>1. batches[b] \in BatchRows /\ CoordinatorTypeOK /\ BatchOK(b)
  BY Zenon, BatchTyped DEF CoordinatorInv
<1>2. /\ batches[b].pc = "repository" /\ UNCHANGED items
      /\ repoVersion \in Nat \ {0} /\ batches[b].tries \in Nat
  BY Zenon, <1>1 DEF ApplyIncidentalRepository, CoordinatorTypeOK, BatchRows
<1>3. CASE Step(b, [batches[b] EXCEPT !.pc = "apply"]) /\ UNCHANGED entityVars
  <2> DEFINE row == [batches[b] EXCEPT !.pc = "apply"]
  <2>1. row \in BatchRows
    BY Zenon, <1>1 DEF BatchRows
  <2>2. /\ row.pc = "apply" /\ row.members = batches[b].members
        /\ row.todo = batches[b].todo /\ row.rank = batches[b].rank
        /\ row.outcome = batches[b].outcome /\ row.repo # "failed"
    BY Zenon, <1>1, <1>2 DEF BatchRows, BatchOK, BatchShape
  <2>3. Step(b, row) /\ UNCHANGED <<version, rivals>>
    BY Zenon, <1>3 DEF entityVars
  <2>4. repoVersion' \in Nat \ {0} /\ repoVersion' >= repoVersion
    BY <1>2, <1>3 DEF entityVars
  <2> HIDE DEF row
  <2> QED BY Zenon, <1>2, <2>1, <2>2, <2>3, <2>4, RepositoryApplied
<1>4. CASE Step(b, [batches[b] EXCEPT !.pc = "apply", !.repo = "superseded"]) /\ UNCHANGED entityVars
  <2> DEFINE row == [batches[b] EXCEPT !.pc = "apply", !.repo = "superseded"]
  <2>1. row \in BatchRows
    BY Zenon, <1>1 DEF BatchRows
  <2>2. /\ row.pc = "apply" /\ row.members = batches[b].members
        /\ row.todo = batches[b].todo /\ row.rank = batches[b].rank
        /\ row.outcome = batches[b].outcome /\ row.repo # "failed"
    BY Zenon, <1>1, <1>2 DEF BatchRows, BatchOK, BatchShape
  <2>3. Step(b, row) /\ UNCHANGED <<version, rivals>>
    BY Zenon, <1>4 DEF entityVars
  <2>4. repoVersion' \in Nat \ {0} /\ repoVersion' >= repoVersion
    BY <1>2, <1>4 DEF entityVars
  <2> HIDE DEF row
  <2> QED BY Zenon, <1>2, <2>1, <2>2, <2>3, <2>4, RepositoryApplied
<1>5. CASE /\ Step(b, [batches[b] EXCEPT !.pc = "apply", !.repo = "applied"])
           /\ repoVersion' = repoVersion + 1 /\ UNCHANGED <<version, rivals>>
  <2> DEFINE row == [batches[b] EXCEPT !.pc = "apply", !.repo = "applied"]
  <2>1. row \in BatchRows
    BY Zenon, <1>1 DEF BatchRows
  <2>2. /\ row.pc = "apply" /\ row.members = batches[b].members
        /\ row.todo = batches[b].todo /\ row.rank = batches[b].rank
        /\ row.outcome = batches[b].outcome /\ row.repo # "failed"
    BY Zenon, <1>1, <1>2 DEF BatchRows, BatchOK, BatchShape
  <2>3. Step(b, row) /\ UNCHANGED <<version, rivals>>
    BY Zenon, <1>5 DEF entityVars
  <2>4. repoVersion' \in Nat \ {0} /\ repoVersion' >= repoVersion
    BY <1>2, <1>5 DEF entityVars
  <2> HIDE DEF row
  <2> QED BY Zenon, <1>2, <2>1, <2>2, <2>3, <2>4, RepositoryApplied
<1>6. ASSUME NEW i \in Candidates(batches[b]), items[i].repoObs # repoVersion,
             IF batches[b].tries + 1 = Attempts
             THEN Step(b, [batches[b] EXCEPT !.pc = "apply", !.repo = "failed"])
             ELSE Step(b, [batches[b] EXCEPT !.pc = "reobserve", !.tries = @ + 1]),
             UNCHANGED entityVars
      PROVE  CoordinatorInv'
  <2>1. items[i].repoObs > batches[b].tries
    BY Zenon, <1>1, <1>2, <1>6 DEF BatchOK, AttemptsMeetCommits
  <2>2. i \in Callers
    BY Zenon, <1>1 DEF Candidates, First, BatchRows
  <2>3. items[i].repoObs \in Nat /\ items[i].repoObs <= repoVersion
    BY Zenon, <1>1, <2>2 DEF CoordinatorTypeOK, ItemRows, CoordinatorInv, CallerOK
  <2>4. repoVersion > batches[b].tries + 1
    BY <1>2, <1>6, <2>1, <2>3
  <2>5. CASE batches[b].tries + 1 = Attempts
    <3> DEFINE row == [batches[b] EXCEPT !.pc = "apply", !.repo = "failed"]
    <3>1. row \in BatchRows
      BY Zenon, <1>1 DEF BatchRows
    <3>2. /\ row.pc = "apply" /\ row.members = batches[b].members
          /\ row.todo = batches[b].todo /\ row.rank = batches[b].rank
          /\ row.outcome = batches[b].outcome
      BY Zenon, <1>1 DEF BatchRows
    <3>3. Step(b, row) /\ UNCHANGED <<version, repoVersion, rivals>>
      BY Zenon, <1>6, <2>5 DEF entityVars
    <3>4. repoVersion' \in Nat \ {0} /\ repoVersion' >= repoVersion /\ repoVersion' > Attempts
      BY <1>2, <2>4, <2>5, <3>3
    <3> HIDE DEF row
    <3> QED BY Zenon, <1>2, <3>1, <3>2, <3>3, <3>4, RepositoryApplied
  <2>6. CASE batches[b].tries + 1 # Attempts
    BY Zenon, <1>2, <1>6, <2>4, <2>6, RepositoryRetried DEF entityVars
  <2> QED BY Zenon, <2>5, <2>6
<1> QED BY Zenon, <1>3, <1>4, <1>5, <1>6 DEF ApplyIncidentalRepository

\* A fresh observation of the repository, for the one candidate.
LEMMA ObserveRepositoryCoordinator ==
  ASSUME CoordinatorInv, NEW b \in BatchIds, ObserveRepository(b) PROVE CoordinatorInv'
<1>1. batches[b] \in BatchRows /\ CoordinatorTypeOK /\ BatchOK(b)
  BY Zenon, BatchTyped DEF CoordinatorInv
<1>2. batches[b].pc = "reobserve"
  BY Zenon DEF ObserveRepository
<1>3. PICK i \in Candidates(batches[b]) :
        items' = [items EXCEPT ![i] = [@ EXCEPT !.repoObs = repoVersion]]
  BY Zenon DEF ObserveRepository
<1>4. i \in batches[b].todo /\ i \in batches[b].members /\ i \in Callers
  BY Zenon, <1>1 DEF Candidates, First, BatchOK, BatchShape, BatchRows
<1> DEFINE row == [batches[b] EXCEPT !.pc = "repository"]
<1>5. row \in BatchRows
  BY Zenon, <1>1 DEF BatchRows
<1>6. /\ row.pc = "repository" /\ row.members = batches[b].members
      /\ row.todo = batches[b].todo /\ row.rank = batches[b].rank
      /\ row.tries = batches[b].tries /\ row.repo = batches[b].repo
      /\ row.outcome = batches[b].outcome
  BY Zenon, <1>1 DEF BatchRows
<1>7. Step(b, row) /\ UNCHANGED <<version, repoVersion, rivals>>
  BY Zenon DEF ObserveRepository, entityVars
<1> HIDE DEF row
<1>8. /\ UNCHANGED <<stale, caller, channel, current>>
      /\ batches' \in Seq(BatchRows) /\ Len(batches') = Len(batches)
      /\ BatchIds' = BatchIds /\ batches'[b] = row
      /\ \A c \in BatchIds : c # b => batches'[c] = batches[c]
      /\ CurrentIsOpen' /\ current' \in 0 .. Len(batches')
  BY Zenon, <1>2, <1>5, <1>7, ExecutingFrame
<1>9. items \in [Callers -> ItemRows] /\ repoVersion \in Nat \ {0}
  BY Zenon, <1>1 DEF CoordinatorTypeOK
<1> DEFINE item == [items[i] EXCEPT !.repoObs = repoVersion]
<1>10. item \in ItemRows
  BY Zenon, <1>4, <1>9 DEF ItemRows
<1>11. /\ item.obs = items[i].obs /\ item.repoObs = repoVersion
       /\ item.committed = items[i].committed
  BY Zenon, <1>4, <1>9 DEF ItemRows
<1>12. items' = [items EXCEPT ![i] = item]
  BY Zenon, <1>3, <1>4, <1>9
<1> HIDE DEF item
<1>13. /\ items' \in [Callers -> ItemRows] /\ items'[i] = item
       /\ \A j \in Callers : j # i => items'[j] = items[j]
  BY Zenon, <1>4, <1>9, <1>10, <1>12
<1>14. CoordinatorTypeOK'
  BY Zenon, <1>1, <1>7, <1>8, <1>13 DEF CoordinatorTypeOK
<1>15. BatchOK(b)'
  <2>1. BatchShape(b)'
    BY ZenonT(120), <1>1, <1>2, <1>6, <1>8 DEF BatchOK, BatchShape, FetchFails
  <2>2. MembersWait(b)'
    <3> SUFFICES ASSUME NEW j \in batches[b].members
                 PROVE  /\ caller[j] # "new" /\ channel[j] = <<>> /\ ~items'[j].committed
                        /\ items'[j].obs > 0 /\ items'[j].repoObs > 0
      BY Zenon, <1>6, <1>8 DEF MembersWait
    <3>1. MembersWait(b) /\ j \in Callers
      BY Zenon, <1>1 DEF BatchOK, BatchRows
    <3>2. caller[j] # "new" /\ channel[j] = <<>> /\ ~items[j].committed
      BY Zenon, <3>1, <1>2 DEF MembersWait
    <3>3. items[j].obs > 0 /\ items[j].repoObs > 0
      BY ZenonT(120), <3>1, <1>2 DEF MembersWait
    <3>4. CASE j = i
      BY Zenon, <3>2, <3>3, <3>4, <1>9, <1>11, <1>13, NatOrder
    <3>5. CASE j # i
      BY Zenon, <3>1, <3>2, <3>3, <3>5, <1>13
    <3> QED BY Zenon, <3>4, <3>5
  <2>3. AttemptsMeetCommits(b)'
    <3>1. Candidates(row) = Candidates(batches[b])
      BY Zenon, <1>6 DEF Candidates, First
    <3>2. \A j \in Candidates(row) : j = i
      <4> SUFFICES ASSUME NEW j \in Candidates(batches[b]) PROVE j = i
        BY Zenon, <3>1
      <4>1. /\ j \in batches[b].todo \ Skips /\ i \in batches[b].todo \ Skips
            /\ batches[b].rank[i] <= batches[b].rank[j]
            /\ batches[b].rank[j] <= batches[b].rank[i]
        BY Zenon DEF Candidates, First
      <4>2. i \in batches[b].members /\ j \in batches[b].members
        BY Zenon, <4>1, <1>1 DEF BatchOK, BatchShape
      <4>3. batches[b].rank[i] \in Int /\ batches[b].rank[j] \in Int
        <5>1. batches[b].rank \in [batches[b].members -> Nat]
          BY Zenon, <1>1, <1>2 DEF BatchOK, BatchShape
        <5> QED BY <4>2, <5>1
      <4>4. batches[b].rank[i] = batches[b].rank[j]
        BY SMTT(60), <4>1, <4>3
      <4> QED BY Zenon, <4>2, <4>4, <1>1, <1>2 DEF BatchOK, BatchShape
    <3>3. repoVersion > batches[b].tries /\ batches[b].repo = "none"
      BY Zenon, <1>1, <1>2 DEF BatchOK, BatchShape, AttemptsMeetCommits
    <3>4. \A j \in Candidates(row) : items'[j].repoObs > batches[b].tries
      BY Zenon, <3>2, <3>3, <1>11, <1>13
    <3> QED BY Zenon, <3>3, <3>4, <1>6, <1>8 DEF AttemptsMeetCommits, Candidates, First
  <2>4. OutcomesAreOwn(b)'
    BY Zenon, <1>1, <1>2, <1>6, <1>8 DEF BatchOK, BatchShape, OutcomesAreOwn
  <2>5. HealthyCommits(b)'
    BY ZenonT(120), <1>6, <1>8 DEF HealthyCommits
  <2> QED BY ZenonT(120), <2>1, <2>2, <2>3, <2>4, <2>5 DEF BatchOK
<1>16. MembersAreDisjoint' /\ (\A c \in BatchIds : BatchOK(c))'
  <2>1. repoVersion' \in Nat /\ repoVersion' >= repoVersion
    BY <1>7, <1>9
  <2> QED BY Zenon, <1>4, <1>6, <1>7, <1>8, <1>13, <1>15, <2>1, BatchStep
<1>17. \A j \in Callers : /\ items'[j].committed = items[j].committed
                          /\ items'[j].obs <= version[PullRequest[j]]
                          /\ items'[j].repoObs <= repoVersion
  <2>1. item.repoObs <= repoVersion
    BY Zenon, <1>9, <1>11, NatOrder
  <2>2. \A j \in Callers : /\ items[j].obs <= version[PullRequest[j]]
                           /\ items[j].repoObs <= repoVersion
    BY Zenon DEF CoordinatorInv, CallerOK
  <2> QED BY Zenon, <1>4, <1>11, <1>13, <2>1, <2>2
<1>18. (\A j \in Callers : CallerOK(j))' /\ BlameIsLocal' /\ SuccessIsOwn'
  <2>1. repoVersion' \in Nat /\ repoVersion' >= repoVersion
    BY Zenon, <1>7, <1>9, NatOrder
  <2> QED BY Zenon, <1>7, <1>8, <1>17, <2>1, CallersObserve
<1> QED BY Zenon, <1>8, <1>14, <1>16, <1>18 DEF CoordinatorInv

\* A caller whose repository failed is passed over.
LEMMA PassedOver ==
  ASSUME CoordinatorInv, NEW b \in BatchIds, NEW i \in Callers, ApplyPullRequest(b, i),
         RepositoryFailed(batches[b], i)
  PROVE  CoordinatorInv'
<1>1. batches[b] \in BatchRows /\ CoordinatorTypeOK /\ BatchOK(b)
  BY Zenon, BatchTyped DEF CoordinatorInv
<1>2. batches[b].pc = "apply"
  BY Zenon DEF ApplyPullRequest
<1> DEFINE row == [batches[b] EXCEPT !.todo = @ \ {i}]
<1>3. row \in BatchRows
  BY Zenon, <1>1 DEF BatchRows
<1>4. /\ row.pc = "apply" /\ row.members = batches[b].members
      /\ row.todo = batches[b].todo \ {i} /\ row.rank = batches[b].rank
      /\ row.tries = batches[b].tries /\ row.repo = batches[b].repo
      /\ row.outcome = batches[b].outcome
  BY Zenon, <1>1, <1>2 DEF BatchRows
<1>5. Step(b, row) /\ UNCHANGED <<items, version, repoVersion, rivals>>
  BY Zenon DEF ApplyPullRequest
<1> HIDE DEF row
<1>6. /\ UNCHANGED <<stale, caller, channel, current>>
      /\ batches' \in Seq(BatchRows) /\ Len(batches') = Len(batches)
      /\ BatchIds' = BatchIds /\ batches'[b] = row
      /\ \A c \in BatchIds : c # b => batches'[c] = batches[c]
      /\ CurrentIsOpen' /\ current' \in 0 .. Len(batches')
  BY Zenon, <1>2, <1>3, <1>5, ExecutingFrame
<1>7. CoordinatorTypeOK'
  BY Zenon, <1>1, <1>5, <1>6 DEF CoordinatorTypeOK
<1>8. BatchOK(b)'
  <2>1. BatchShape(b)'
    BY ZenonT(120), <1>1, <1>2, <1>4, <1>6 DEF BatchOK, BatchShape
  <2>2. MembersWait(b)'
    BY Zenon, <1>1, <1>2, <1>4, <1>5, <1>6 DEF BatchOK, MembersWait
  <2>3. AttemptsMeetCommits(b)'
    BY Zenon, <1>1, <1>2, <1>4, <1>5, <1>6 DEF BatchOK, AttemptsMeetCommits
  <2>4. OutcomesAreOwn(b)'
    BY Zenon, <1>1, <1>4, <1>5, <1>6 DEF BatchOK, OutcomesAreOwn
  <2>5. HealthyCommits(b)'
    <3> SUFFICES ASSUME NEW j \in batches[b].members \ row.todo,
                        ~FetchFails(j), ~RepositoryFailed(row, j), j \notin stale, ~Rivalled(j)'
                 PROVE  j \in row.outcome[PullRequest[j]].items /\ row.outcome[PullRequest[j]].ok
      BY Zenon, <1>4, <1>6 DEF HealthyCommits, FetchFails, RepositoryFailed
    <3>1. ~Rivalled(j)
      BY Zenon, <1>5, <1>6 DEF Rivalled
    <3>2. ~RepositoryFailed(batches[b], j) /\ j \notin batches[b].todo
      BY Zenon, <1>4 DEF RepositoryFailed
    <3> QED BY Zenon, <3>1, <3>2, <1>1, <1>2, <1>4 DEF BatchOK, HealthyCommits
  <2> QED BY Zenon, <2>1, <2>2, <2>3, <2>4, <2>5 DEF BatchOK
<1>9. repoVersion' \in Nat /\ repoVersion' >= repoVersion
  BY <1>1, <1>5 DEF CoordinatorTypeOK
<1>10. MembersAreDisjoint' /\ (\A c \in BatchIds : BatchOK(c))'
  BY Zenon, <1>4, <1>5, <1>6, <1>8, <1>9, BatchStep
<1> QED BY Zenon, <1>5, <1>6, <1>7, <1>10, CallersKept DEF CoordinatorInv

\* The transaction of a member: it commits when nobody else is after its pull
\* request and its fence holds.
LEMMA TurnTaken ==
  ASSUME CoordinatorInv, NEW b \in BatchIds, NEW i \in Callers, ApplyPullRequest(b, i),
         ~RepositoryFailed(batches[b], i)
  PROVE  CoordinatorInv'
<1> DEFINE p == PullRequest[i]
           commits == items[i].obs = version[p] /\ i \notin stale
           outcome == [items |-> {i}, ok |-> commits]
           outcomes == [batches[b].outcome EXCEPT ![p] = outcome]
           row == [batches[b] EXCEPT !.todo = @ \ {i}, !.outcome = outcomes]
           item == [items[i] EXCEPT !.committed = commits]
<1>1. batches[b] \in BatchRows /\ CoordinatorTypeOK /\ BatchOK(b) /\ CallerOK(i)
  BY Zenon, BatchTyped DEF CoordinatorInv
<1>2. /\ batches[b].pc = "apply" /\ i \in batches[b].todo /\ i \in batches[b].members
      /\ p \in PullRequests
  BY Zenon, <1>1 DEF ApplyPullRequest, First, BatchOK, BatchShape, PullRequests
<1>3. /\ items \in [Callers -> ItemRows] /\ version \in [PullRequests -> Nat \ {0}]
      /\ repoVersion \in Nat \ {0} /\ batches[b].outcome \in [PullRequests -> Outcomes]
  BY Zenon, <1>1 DEF CoordinatorTypeOK, BatchRows
<1>4. Step(b, row) /\ UNCHANGED <<repoVersion, rivals>>
  BY Zenon, <1>1 DEF ApplyPullRequest, BatchRows
<1>5. /\ items' = [items EXCEPT ![i] = item]
      /\ version' = IF commits THEN [version EXCEPT ![p] = @ + 1] ELSE version
  BY Zenon, <1>3 DEF ApplyPullRequest
<1>6. commits \in BOOLEAN
  BY Zenon
<1>7. items[i] \in ItemRows /\ items[i].obs \in Nat /\ version[p] \in Nat \ {0}
  BY Zenon, <1>2, <1>3 DEF ItemRows
<1>8. commits <=> items[i].obs = version[p] /\ i \notin stale
  BY Zenon
<1> HIDE DEF commits
<1>9. outcome \in Outcomes
  BY Zenon, <1>6 DEF Outcomes
<1>10. outcome.items = {i} /\ outcome.ok = commits
  BY Zenon
<1> HIDE DEF outcome
<1>11. /\ outcomes \in [PullRequests -> Outcomes] /\ outcomes[p] = outcome
       /\ \A q \in PullRequests : q # p => outcomes[q] = batches[b].outcome[q]
  BY Zenon, <1>2, <1>3, <1>9
<1> HIDE DEF outcomes
<1>12. row \in BatchRows
  BY Zenon, <1>1, <1>11 DEF BatchRows
<1>13. /\ row.pc = "apply" /\ row.members = batches[b].members
       /\ row.todo = batches[b].todo \ {i} /\ row.rank = batches[b].rank
       /\ row.tries = batches[b].tries /\ row.repo = batches[b].repo
       /\ row.outcome = outcomes
  BY Zenon, <1>1, <1>2 DEF BatchRows
<1> HIDE DEF row
<1>14. item \in ItemRows
  BY Zenon, <1>6, <1>7 DEF ItemRows
<1>15. item.obs = items[i].obs /\ item.repoObs = items[i].repoObs
  BY Zenon, <1>7 DEF ItemRows
<1>16. item.committed = commits
  BY Zenon, <1>7 DEF ItemRows
<1> HIDE DEF item
<1>17. /\ items' \in [Callers -> ItemRows] /\ items'[i] = item
       /\ \A j \in Callers : j # i => items'[j] = items[j]
  BY Zenon, <1>3, <1>5, <1>14
<1>18. /\ version' \in [PullRequests -> Nat \ {0}]
       /\ \A q \in PullRequests : q # p => version'[q] = version[q]
       /\ version'[p] >= version[p] /\ (~commits => version' = version)
  <2>1. /\ version[p] + 1 \in Nat \ {0} /\ version[p] + 1 >= version[p]
        /\ version[p] >= version[p]
    BY <1>7
  <2>2. CASE commits
    BY Zenon, <2>1, <2>2, <1>2, <1>3, <1>5
  <2>3. CASE ~commits
    BY Zenon, <2>1, <2>3, <1>3, <1>5
  <2> QED BY Zenon, <2>2, <2>3
<1>19. /\ UNCHANGED <<stale, caller, channel, current>>
       /\ batches' \in Seq(BatchRows) /\ Len(batches') = Len(batches)
       /\ BatchIds' = BatchIds /\ batches'[b] = row
       /\ \A c \in BatchIds : c # b => batches'[c] = batches[c]
       /\ CurrentIsOpen' /\ current' \in 0 .. Len(batches')
  BY Zenon, <1>2, <1>4, <1>12, ExecutingFrame
<1>20. CoordinatorTypeOK'
  BY Zenon, <1>1, <1>4, <1>17, <1>18, <1>19 DEF CoordinatorTypeOK
<1>21. MembersWait(b) /\ caller[i] # "new" /\ channel[i] = <<>>
  BY Zenon, <1>1, <1>2 DEF BatchOK, MembersWait
<1>22. ~items[i].committed /\ items[i].obs > 0
  BY Zenon, <1>2, <1>21 DEF MembersWait
<1>23. \A j \in Callers : Rivalled(j)' <=> Rivalled(j)
  BY Zenon, <1>4, <1>19 DEF Rivalled
<1>24. \A j \in Callers : j # i /\ PullRequest[j] = p => Rivalled(j)
  BY Zenon, <1>21 DEF Rivalled
<1>25. ~Rivalled(i) => version[p] = 1
  BY ZenonT(120), <1>1, <1>22 DEF CallerOK
<1>26. ~Rivalled(i) /\ i \notin stale => commits
  <2>1. items[i].obs <= version[p]
    BY Zenon, <1>1 DEF CallerOK
  <2>2. version[p] = 1 => items[i].obs = version[p]
    BY <1>7, <1>22, <2>1
  <2> QED BY Zenon, <1>8, <1>25, <2>2
<1> HIDE DEF p
<1>27. BatchOK(b)'
  <2>1. BatchShape(b)'
    BY ZenonT(120), <1>1, <1>2, <1>13, <1>19 DEF BatchOK, BatchShape
  <2>2. MembersWait(b)'
    <3> SUFFICES ASSUME NEW j \in batches[b].members
                 PROVE  /\ caller[j] # "new" /\ channel[j] = <<>>
                        /\ items'[j].obs > 0 /\ items'[j].repoObs > 0
                        /\ j \in row.todo => ~items'[j].committed
      BY Zenon, <1>13, <1>19 DEF MembersWait
    <3>1. j \in Callers
      BY Zenon, <1>1 DEF BatchRows
    <3>2. caller[j] # "new" /\ channel[j] = <<>> /\ (j \in batches[b].todo => ~items[j].committed)
      BY Zenon, <1>2, <1>21 DEF MembersWait
    <3>3. items[j].obs > 0 /\ items[j].repoObs > 0
      BY Zenon, <1>2, <1>21 DEF MembersWait
    <3>4. items'[j].obs = items[j].obs /\ items'[j].repoObs = items[j].repoObs
      BY Zenon, <3>1, <1>15, <1>17
    <3>5. j \in row.todo => ~items'[j].committed
      BY Zenon, <3>1, <3>2, <1>13, <1>17
    <3> QED BY Zenon, <3>2, <3>3, <3>4, <3>5
  <2>3. AttemptsMeetCommits(b)'
    BY Zenon, <1>1, <1>4, <1>13, <1>19 DEF BatchOK, AttemptsMeetCommits
  <2>4. OutcomesAreOwn(b)'
    <3> SUFFICES ASSUME NEW q \in PullRequests, NEW j \in outcomes[q].items
                 PROVE  /\ j \in batches[b].members /\ j \notin row.todo
                        /\ outcomes[q].ok => items'[j].committed
      BY Zenon, <1>13, <1>19 DEF OutcomesAreOwn
    <3>1. CASE q = p
      BY Zenon, <3>1, <1>2, <1>10, <1>11, <1>13, <1>16, <1>17
    <3>2. CASE q # p
      <4>1. outcomes[q] = batches[b].outcome[q]
        BY Zenon, <3>2, <1>11
      <4>2. /\ j \in batches[b].members /\ j \notin batches[b].todo
            /\ outcomes[q].ok => items[j].committed
        BY Zenon, <4>1, <1>1 DEF BatchOK, OutcomesAreOwn
      <4>3. j # i /\ j \in Callers
        BY Zenon, <4>2, <1>1, <1>2 DEF BatchRows
      <4> QED BY Zenon, <4>2, <4>3, <1>13, <1>17
    <3> QED BY Zenon, <3>1, <3>2
  <2>5. HealthyCommits(b)'
    <3> SUFFICES ASSUME NEW j \in batches[b].members \ row.todo,
                        ~FetchFails(j), ~RepositoryFailed(row, j), j \notin stale, ~Rivalled(j)'
                 PROVE  j \in outcomes[PullRequest[j]].items /\ outcomes[PullRequest[j]].ok
      BY Zenon, <1>13, <1>19 DEF HealthyCommits, FetchFails, RepositoryFailed
    <3>1. j \in Callers /\ ~Rivalled(j) /\ PullRequest[j] \in PullRequests
      BY Zenon, <1>1, <1>23 DEF BatchRows, PullRequests
    <3>2. CASE j = i
      BY Zenon, <3>1, <3>2, <1>10, <1>11, <1>26 DEF p
    <3>3. CASE j # i
      <4>1. outcomes[PullRequest[j]] = batches[b].outcome[PullRequest[j]]
        BY Zenon, <3>1, <3>3, <1>11, <1>24
      <4>2. ~RepositoryFailed(batches[b], j) /\ j \notin batches[b].todo
        BY Zenon, <3>3, <1>13 DEF RepositoryFailed
      <4> QED BY Zenon, <4>1, <4>2, <3>1, <1>1, <1>2 DEF BatchOK, HealthyCommits
    <3> QED BY Zenon, <3>2, <3>3
  <2> QED BY Zenon, <2>1, <2>2, <2>3, <2>4, <2>5 DEF BatchOK
<1>28. repoVersion' \in Nat /\ repoVersion' >= repoVersion
  BY <1>3, <1>4
<1>29. MembersAreDisjoint' /\ (\A c \in BatchIds : BatchOK(c))'
  BY Zenon, <1>2, <1>4, <1>13, <1>17, <1>19, <1>27, <1>28, BatchStep
<1>30. ASSUME NEW j \in Callers PROVE CallerOK(j)'
  <2>1. CallerOK(j) /\ PullRequest[j] \in PullRequests /\ items[j] \in ItemRows
    BY Zenon, <1>3 DEF CoordinatorInv, PullRequests
  <2>2. caller[j] = "new" => channel[j] = <<>> /\ ~items'[j].committed
    BY Zenon, <2>1, <1>17, <1>21 DEF CallerOK
  <2>3. items'[j].obs = items[j].obs /\ items'[j].repoObs = items[j].repoObs
    BY Zenon, <1>15, <1>17
  <2>4. items'[j].obs <= version'[PullRequest[j]] /\ items'[j].repoObs <= repoVersion
    <3>1. version[PullRequest[j]] <= version'[PullRequest[j]]
      BY SMTT(60), <2>1, <1>3, <1>18
    <3>2. items[j].obs \in Nat /\ version[PullRequest[j]] \in Nat /\ version'[PullRequest[j]] \in Nat
      BY Zenon, <2>1, <1>3, <1>18 DEF ItemRows
    <3> QED BY SMTT(60), <2>1, <2>3, <3>1, <3>2 DEF CallerOK
  <2>5. ~Rivalled(j) /\ ~items'[j].committed => version'[PullRequest[j]] = 1
    <3>1. CASE j = i
      BY Zenon, <3>1, <1>16, <1>17, <1>18, <1>25 DEF p
    <3>2. CASE j # i
      BY Zenon, <3>2, <2>1, <1>17, <1>18, <1>24 DEF CallerOK
    <3> QED BY Zenon, <3>1, <3>2
  <2> QED BY Zenon, <2>2, <2>4, <2>5, <1>4, <1>19, <1>23 DEF CallerOK
<1>31. SuccessIsOwn'
  <2>1. channel[i] # <<"ok">>
    BY SMTT(60), <1>21
  <2> QED BY Zenon, <2>1, <1>17, <1>19 DEF CoordinatorInv, SuccessIsOwn
<1>32. BlameIsLocal'
  BY Zenon, <1>4, <1>19 DEF CoordinatorInv, BlameIsLocal
<1> QED BY Zenon, <1>19, <1>20, <1>29, <1>30, <1>31, <1>32 DEF CoordinatorInv

\* finishAll: the members are answered, each by its own outcome.
LEMMA FinishAllCoordinator ==
  ASSUME CoordinatorInv, NEW b \in BatchIds, FinishAll(b) PROVE CoordinatorInv'
<1> DEFINE row == [NewBatch EXCEPT !.pc = "done", !.timer = batches[b].timer]
<1>1. batches[b] \in BatchRows /\ CoordinatorTypeOK /\ BatchOK(b)
  BY Zenon, BatchTyped DEF CoordinatorInv
<1>2. /\ batches[b].pc = "apply" /\ batches[b].todo = {} /\ batches[b].members \subseteq Callers
      /\ batches' = [batches EXCEPT ![b] = row]
      /\ UNCHANGED <<stale, caller, current, version, repoVersion, rivals>>
  BY Zenon, <1>1 DEF FinishAll, entityVars, BatchRows
<1>3. row \in BatchRows
  BY Zenon, <1>1, NewRows DEF BatchRows
<1>4. /\ row.pc = "done" /\ row.members = {} /\ row.todo = {} /\ row.repo = "none"
      /\ row.outcome = NewBatch.outcome
  BY Zenon, NewRows DEF BatchRows
<1> HIDE DEF row
<1>5. /\ batches' \in Seq(BatchRows) /\ Len(batches') = Len(batches)
      /\ BatchIds' = BatchIds /\ batches'[b] = row
      /\ \A c \in BatchIds : c # b => batches'[c] = batches[c]
  BY Zenon, <1>1, <1>2, <1>3, StepFrame
<1>6. /\ items \in [Callers -> ItemRows] /\ version \in [PullRequests -> Nat \ {0}]
      /\ repoVersion \in Nat \ {0} /\ channel \in [Callers -> Seq({"ok", "error"})]
  BY Zenon, <1>1 DEF CoordinatorTypeOK
<1>7. \A i \in Callers : i \notin batches[b].members =>
                           items'[i] = items[i] /\ channel'[i] = channel[i]
  BY Zenon DEF FinishAll
<1>8. ASSUME NEW i \in batches[b].members
      PROVE  /\ items'[i] \in ItemRows /\ items'[i].obs = 0 /\ items'[i].repoObs = 0
             /\ items'[i].committed = items[i].committed
  <2>1. items'[i] = [NoItem EXCEPT !.committed = items[i].committed]
    BY Zenon, <1>2 DEF FinishAll
  <2>2. items[i].committed \in BOOLEAN
    BY Zenon, <1>2, <1>6 DEF ItemRows
  <2> QED BY Zenon, <2>1, <2>2, NewRows DEF ItemRows
<1>9. ASSUME NEW i \in batches[b].members PROVE channel'[i] = <<Result(batches[b], i)>>
  <2>1. channel[i] = <<>>
    BY Zenon, <1>1 DEF BatchOK, MembersWait
  <2>2. channel'[i] = Append(channel[i], Result(batches[b], i))
    BY Zenon, <1>2 DEF FinishAll
  <2> QED BY SMTT(60), <2>1, <2>2
<1>10. \A i : Result(batches[b], i) \in {"ok", "error"}
  BY Zenon DEF Result
<1>11. CoordinatorTypeOK'
  <2>1. DOMAIN items' = Callers /\ DOMAIN channel' = Callers
    BY Zenon DEF FinishAll
  <2>2. \A i \in Callers : items'[i] \in ItemRows
    BY Zenon, <1>6, <1>7, <1>8
  <2>3. items' \in [Callers -> ItemRows]
    <3>1. items' = [i \in Callers |-> items'[i]]
      BY Zenon DEF FinishAll
    <3> QED BY Zenon, <3>1, <2>2
  <2>4. \A i \in Callers : channel'[i] \in Seq({"ok", "error"})
    <3> SUFFICES ASSUME NEW i \in Callers PROVE channel'[i] \in Seq({"ok", "error"})
      BY Zenon
    <3>1. CASE i \in batches[b].members
      <4>1. PICK r \in {"ok", "error"} : channel'[i] = <<r>>
        <5>1. Result(batches[b], i) \in {"ok", "error"}
          BY Zenon, <1>10
        <5>2. channel'[i] = <<Result(batches[b], i)>>
          BY Zenon, <3>1, <1>9
        <5> HIDE DEF Result
        <5> QED BY <5>1, <5>2, Zenon
      <4> QED BY <4>1
    <3>2. CASE i \notin batches[b].members
      BY Zenon, <3>2, <1>6, <1>7
    <3> QED BY Zenon, <3>1, <3>2
  <2>5. channel' \in [Callers -> Seq({"ok", "error"})]
    <3>1. channel' = [i \in Callers |-> channel'[i]]
      BY Zenon DEF FinishAll
    <3> QED BY Zenon, <3>1, <2>4
  <2> QED BY Zenon, <1>1, <1>2, <1>5, <2>3, <2>5 DEF CoordinatorTypeOK
<1>12. BatchOK(b)'
  <2>1. BatchShape(b)'
    BY Zenon, <1>4, <1>5, NewRows DEF BatchShape
  <2>2. MembersWait(b)' /\ HealthyCommits(b)'
    BY Zenon, <1>4, <1>5 DEF MembersWait, HealthyCommits
  <2>3. AttemptsMeetCommits(b)'
    BY Zenon, <1>4, <1>5 DEF AttemptsMeetCommits
  <2>4. OutcomesAreOwn(b)'
    BY Zenon, <1>4, <1>5, NewRows DEF OutcomesAreOwn
  <2> QED BY Zenon, <2>1, <2>2, <2>3, <2>4 DEF BatchOK
<1>13. MembersAreDisjoint' /\ (\A c \in BatchIds : BatchOK(c))'
  <2>1. repoVersion' \in Nat /\ repoVersion' >= repoVersion
    BY <1>2, <1>6
  <2>2. batches'[b].members \subseteq batches[b].members
    BY Zenon, <1>4, <1>5
  <2> QED BY Zenon, <2>1, <2>2, <1>2, <1>5, <1>7, <1>12, BatchStep
<1>14. CurrentIsOpen'
  <2>1. current # 0 => current \in BatchIds
    BY <1>1 DEF CoordinatorTypeOK, BatchIds
  <2> QED BY Zenon, <2>1, <1>2, <1>5 DEF CoordinatorInv, CurrentIsOpen
<1>15. \A i \in Callers : Rivalled(i)' <=> Rivalled(i)
  BY Zenon, <1>2 DEF Rivalled
<1>16. ASSUME NEW i \in Callers PROVE CallerOK(i)'
  <2>1. CallerOK(i) /\ PullRequest[i] \in PullRequests /\ version[PullRequest[i]] \in Nat
    BY ZenonT(120), <1>6 DEF CoordinatorInv, PullRequests
  <2>2. CASE i \in batches[b].members
    <3>1. caller[i] # "new"
      BY Zenon, <2>2, <1>1 DEF BatchOK, MembersWait
    <3>2. items'[i].obs <= version[PullRequest[i]] /\ items'[i].repoObs <= repoVersion
      BY SMTT(60), <2>1, <2>2, <1>6, <1>8 DEF CallerOK
    <3> QED BY Zenon, <3>1, <3>2, <2>1, <2>2, <1>2, <1>8, <1>15 DEF CallerOK
  <2>3. CASE i \notin batches[b].members
    BY Zenon, <2>1, <2>3, <1>2, <1>7, <1>15 DEF CallerOK
  <2> QED BY Zenon, <2>2, <2>3
<1>17. SuccessIsOwn'
  <2> SUFFICES ASSUME NEW i \in Callers, channel'[i] = <<"ok">> PROVE items'[i].committed
    BY Zenon DEF SuccessIsOwn
  <2>1. CASE i \in batches[b].members
    <3>1. Result(batches[b], i) = "ok"
      BY <2>1, <1>9
    <3>2. PullRequest[i] \in PullRequests
      BY Zenon DEF PullRequests
    <3>3. i \in batches[b].outcome[PullRequest[i]].items /\ batches[b].outcome[PullRequest[i]].ok
      BY Zenon, <3>1 DEF Result
    <3>4. items[i].committed
      BY Zenon, <3>2, <3>3, <1>1 DEF BatchOK, OutcomesAreOwn
    <3> QED BY Zenon, <3>4, <2>1, <1>8
  <2>2. CASE i \notin batches[b].members
    BY Zenon, <2>2, <1>7 DEF CoordinatorInv, SuccessIsOwn
  <2> QED BY Zenon, <2>1, <2>2
<1>18. BlameIsLocal'
  <2> SUFFICES ASSUME NEW i \in Callers, channel'[i] = <<"error">>
               PROVE  PullRequest[i] \in Poisoned \/ i \in stale \/ Rivalled(i) \/ repoVersion > Attempts
    BY Zenon, <1>2 DEF BlameIsLocal, Rivalled
  <2>1. CASE i \in batches[b].members
    <3>1. Result(batches[b], i) # "ok"
      BY <2>1, <1>9
    <3>2. ~(i \in batches[b].outcome[PullRequest[i]].items /\ batches[b].outcome[PullRequest[i]].ok)
      BY Zenon, <3>1 DEF Result
    <3>3. FetchFails(i) \/ RepositoryFailed(batches[b], i) \/ i \in stale \/ Rivalled(i)
      BY Zenon, <3>2, <2>1, <1>1, <1>2 DEF BatchOK, HealthyCommits
    <3>4. RepositoryFailed(batches[b], i) => repoVersion > Attempts
      BY Zenon, <1>1 DEF BatchOK, AttemptsMeetCommits, RepositoryFailed
    <3> QED BY Zenon, <3>3, <3>4 DEF FetchFails
  <2>2. CASE i \notin batches[b].members
    BY Zenon, <2>2, <1>7 DEF CoordinatorInv, BlameIsLocal, Rivalled
  <2> QED BY Zenon, <2>1, <2>2
<1> QED BY Zenon, <1>11, <1>13, <1>14, <1>16, <1>17, <1>18 DEF CoordinatorInv

\* submit: the row of the batch a caller joins.
LEMMA JoinedRow ==
  ASSUME NEW batch \in BatchRows, batch.pc = "open", batch.todo \subseteq batch.members, NEW i \in Callers,
         NEW joined \in Joined(batch, i)
  PROVE  /\ joined \in BatchRows /\ joined.members = batch.members \cup {i}
         /\ joined.tries = batch.tries /\ joined.repo = batch.repo
         /\ joined.outcome = batch.outcome
         /\ \/ joined.pc = "open" /\ joined.todo \subseteq joined.members
            \/ /\ joined.pc = "observe" /\ joined.todo = joined.members
               /\ joined.rank \in [joined.members -> Nat]
               /\ \A j, k \in joined.members : joined.rank[j] = joined.rank[k] => j = k
<1> DEFINE row == [batch EXCEPT !.members = @ \cup {i}]
           stopped == [row EXCEPT !.timer = IF @ = "armed" THEN "off" ELSE @]
<1>1. row \in BatchRows
  BY Zenon DEF BatchRows
<1>2. /\ row.pc = "open" /\ row.todo \subseteq row.members /\ row.members = batch.members \cup {i}
      /\ row.tries = batch.tries /\ row.repo = batch.repo /\ row.outcome = batch.outcome
  BY Zenon DEF BatchRows
<1>3. joined = row \/ joined \in Closed(stopped)
  BY Zenon DEF Joined
<1> HIDE DEF row
<1>4. CASE joined = row
  BY Zenon, <1>1, <1>2, <1>4
<1>5. CASE joined \in Closed(stopped)
  <2>1. stopped \in BatchRows
    BY Zenon, <1>1 DEF BatchRows
  <2>2. /\ stopped.members = row.members /\ stopped.tries = row.tries
        /\ stopped.repo = row.repo /\ stopped.outcome = row.outcome
    BY Zenon, <1>1 DEF BatchRows
  <2> HIDE DEF stopped
  <2>3. /\ joined \in BatchRows /\ joined.pc = "observe"
        /\ joined.members = stopped.members /\ joined.todo = stopped.members
        /\ joined.tries = stopped.tries
        /\ joined.repo = stopped.repo /\ joined.outcome = stopped.outcome
        /\ joined.rank \in [joined.members -> Nat]
        /\ \A j, k \in joined.members : joined.rank[j] = joined.rank[k] => j = k
    BY Zenon, <1>5, <2>1, ClosedRow
  <2> QED BY Zenon, <1>2, <2>2, <2>3
<1> QED BY Zenon, <1>3, <1>4, <1>5

\* A batch that is open, or closed and not yet executed.
LEMMA JoinedOK ==
  ASSUME NEW b, batches'[b].tries = 0, batches'[b].repo = "none",
         \A p \in PullRequests : batches'[b].outcome[p].items = {},
         \/ batches'[b].pc = "open" /\ batches'[b].todo \subseteq batches'[b].members
         \/ /\ batches'[b].pc = "observe" /\ batches'[b].todo = batches'[b].members
            /\ batches'[b].rank \in [batches'[b].members -> Nat]
            /\ \A j, k \in batches'[b].members :
                 batches'[b].rank[j] = batches'[b].rank[k] => j = k,
         \A j \in batches'[b].members :
           caller'[j] # "new" /\ channel'[j] = <<>> /\ ~items'[j].committed
  PROVE  BatchOK(b)'
<1>1. BatchShape(b)'
  BY Zenon DEF BatchShape
<1>2. MembersWait(b)'
  BY Zenon DEF MembersWait
<1>3. AttemptsMeetCommits(b)'
  BY Zenon DEF AttemptsMeetCommits
<1>4. OutcomesAreOwn(b)'
  BY Zenon DEF OutcomesAreOwn
<1>5. HealthyCommits(b)'
  BY Zenon DEF HealthyCommits
<1> QED BY Zenon, <1>1, <1>2, <1>3, <1>4, <1>5 DEF BatchOK

\* A caller that starts to wait, or stops waiting, keeps what is said of callers.
LEMMA CallersMove ==
  ASSUME CoordinatorInv, UNCHANGED <<stale, channel, items, version, repoVersion, rivals>>,
         \A j \in Callers : caller[j] # "new" => caller'[j] # "new"
  PROVE  /\ \A j \in Callers : Rivalled(j) => Rivalled(j)'
         /\ (\A j \in Callers : CallerOK(j))' /\ BlameIsLocal' /\ SuccessIsOwn'
<1>1. \A j \in Callers : Rivalled(j) => Rivalled(j)'
  BY Zenon DEF Rivalled
<1>2. (\A j \in Callers : CallerOK(j))'
  BY Zenon, <1>1 DEF CoordinatorInv, CallerOK
<1>3. BlameIsLocal'
  BY Zenon DEF CoordinatorInv, BlameIsLocal
<1>4. SuccessIsOwn'
  BY Zenon DEF CoordinatorInv, SuccessIsOwn
<1> QED BY Zenon, <1>1, <1>2, <1>3, <1>4

\* submit, in a new batch or in the one that is open.
LEMMA SubmitCoordinator ==
  ASSUME CoordinatorInv, NEW i \in Callers, Submit(i) PROVE CoordinatorInv'
<1>1. /\ CoordinatorTypeOK /\ MembersAreDisjoint /\ CurrentIsOpen
      /\ (\A b \in BatchIds : BatchOK(b)) /\ CallerOK(i)
  BY Zenon DEF CoordinatorInv
<1>2. /\ caller[i] = "new" /\ caller' = [caller EXCEPT ![i] = "waiting"]
      /\ UNCHANGED <<stale, channel, items, version, repoVersion, rivals>>
  BY Zenon DEF Submit, entityVars
<1>3. /\ caller' \in [Callers -> {"new", "waiting", "left"}] /\ caller'[i] # "new"
      /\ \A j \in Callers : caller[j] # "new" => caller'[j] # "new"
  BY Zenon, <1>1, <1>2 DEF CoordinatorTypeOK
<1>4. channel[i] = <<>> /\ ~items[i].committed
  BY Zenon, <1>1, <1>2 DEF CallerOK
<1>5. \A b \in BatchIds : batches[b] \in BatchRows /\ batches[b].members \subseteq Callers
  <2>1. \A b \in BatchIds : batches[b] \in BatchRows
    BY <1>1 DEF CoordinatorTypeOK, BatchIds
  <2> QED BY Zenon, <2>1 DEF BatchRows
<1>6. \A b \in BatchIds : i \notin batches[b].members
  BY Zenon, <1>1, <1>2 DEF BatchOK, MembersWait
<1>7. /\ \A j \in Callers : Rivalled(j) => Rivalled(j)'
      /\ (\A j \in Callers : CallerOK(j))' /\ BlameIsLocal' /\ SuccessIsOwn'
  BY Zenon, <1>2, <1>3, CallersMove
<1>8. ASSUME NEW c \in BatchIds, batches'[c] = batches[c] PROVE BatchOK(c)'
  <2>1. \A j \in batches[c].members : caller'[j] # "new"
    BY Zenon, <1>1, <1>3, <1>5 DEF BatchOK, MembersWait
  <2>2. repoVersion' \in Nat /\ repoVersion' >= repoVersion
    BY <1>1, <1>2 DEF CoordinatorTypeOK
  <2> QED BY Zenon, <1>2, <1>7, <1>8, <2>1, <2>2, OtherBatch
<1>9. CASE current = 0
  <2>1. PICK joined \in Joined(NewBatch, i) :
          /\ batches' = Append(batches, joined)
          /\ current' = IF joined.pc = "open" THEN Len(batches) + 1 ELSE 0
    BY ZenonT(120), <1>9 DEF Submit
  <2>2. /\ joined \in BatchRows /\ joined.members = {i}
        /\ joined.tries = 0 /\ joined.repo = "none" /\ joined.outcome = NewBatch.outcome
        /\ \/ joined.pc = "open" /\ joined.todo \subseteq joined.members
           \/ /\ joined.pc = "observe" /\ joined.todo = joined.members
              /\ joined.rank \in [joined.members -> Nat]
              /\ \A j, k \in joined.members : joined.rank[j] = joined.rank[k] => j = k
    <3>1. NewBatch.todo \subseteq NewBatch.members /\ NewBatch.members \cup {i} = {i}
      BY Zenon, NewRows
    <3>2. /\ joined \in BatchRows /\ joined.members = NewBatch.members \cup {i}
          /\ joined.tries = NewBatch.tries /\ joined.repo = NewBatch.repo
          /\ joined.outcome = NewBatch.outcome
          /\ \/ joined.pc = "open" /\ joined.todo \subseteq joined.members
             \/ /\ joined.pc = "observe" /\ joined.todo = joined.members
                /\ joined.rank \in [joined.members -> Nat]
                /\ \A j, k \in joined.members : joined.rank[j] = joined.rank[k] => j = k
      BY Zenon, <3>1, NewRows, JoinedRow
    <3> QED BY Zenon, <3>1, <3>2, NewRows
  <2>3. PICK b \in Nat \ {0} : b = Len(batches) + 1
    BY <1>1 DEF CoordinatorTypeOK
  <2>4. /\ batches' \in Seq(BatchRows) /\ Len(batches') = b /\ batches'[b] = joined
        /\ \A c \in BatchIds : batches'[c] = batches[c]
    BY Zenon, <1>1, <2>1, <2>2, <2>3, AppendFrame
  <2>5. BatchIds' = BatchIds \cup {b} /\ b \notin BatchIds
    BY Zenon, <1>1, <2>1, <2>2, <2>3, AppendFrame
  <2>6. BatchOK(b)'
    <3>1. \A j \in joined.members : caller'[j] # "new" /\ channel'[j] = <<>> /\ ~items'[j].committed
      BY Zenon, <1>2, <1>3, <1>4, <2>2
    <3>2. \A p \in PullRequests : joined.outcome[p].items = {}
      BY Zenon, <2>2, NewRows
    <3> QED BY ZenonT(120), <2>2, <2>4, <3>1, <3>2, JoinedOK
  <2>7. (\A c \in BatchIds : BatchOK(c))'
    <3>1. \A c \in BatchIds : BatchOK(c)'
      BY ZenonT(120), <1>8, <2>4
    <3> QED BY Zenon, <2>5, <2>6, <3>1
  <2>8. MembersAreDisjoint'
    <3>1. \A c \in BatchIds : batches'[c].members \cap batches'[b].members = {}
      <4>1. batches'[b].members = {i}
        BY Zenon, <2>2, <2>4
      <4>2. \A c \in BatchIds : i \notin batches'[c].members
        BY Zenon, <1>6, <2>4
      <4> QED BY Zenon, <4>1, <4>2
    <3>2. \A c, d \in BatchIds : c # d => batches'[c].members \cap batches'[d].members = {}
      BY Zenon, <1>1, <2>4 DEF MembersAreDisjoint
    <3> QED BY ZenonT(120), <2>5, <3>1, <3>2 DEF MembersAreDisjoint
  <2>9. CoordinatorTypeOK'
    <3>1. current' \in 0 .. Len(batches')
      BY <2>1, <2>3, <2>4
    <3> QED BY Zenon, <1>1, <1>2, <1>3, <2>4, <3>1 DEF CoordinatorTypeOK
  <2>10. CurrentIsOpen'
    BY Zenon, <2>1, <2>3, <2>4 DEF CurrentIsOpen
  <2> QED BY Zenon, <1>7, <2>7, <2>8, <2>9, <2>10 DEF CoordinatorInv
<1>10. CASE current # 0
  <2>1. current \in BatchIds /\ batches[current].pc = "open"
    BY <1>1, <1>10 DEF CoordinatorTypeOK, BatchIds, CurrentIsOpen
  <2>2. PICK b \in BatchIds : b = current
    BY Zenon, <2>1
  <2>3. /\ batches[b] \in BatchRows /\ batches[b].pc = "open" /\ batches[b].todo \subseteq Callers
        /\ batches[b].tries = 0 /\ batches[b].repo = "none"
        /\ \A p \in PullRequests : batches[b].outcome[p].items = {}
    BY Zenon, <1>1, <1>5, <2>1, <2>2 DEF BatchOK, BatchShape, BatchRows
  <2>4. batches[b].todo \subseteq batches[b].members
    BY Zenon, <1>1, <2>2, <2>3 DEF BatchOK, BatchShape
  <2>5. PICK joined \in Joined(batches[b], i) :
          /\ batches' = [batches EXCEPT ![b] = joined]
          /\ current' = IF joined.pc = "open" THEN b ELSE 0
    BY ZenonT(120), <1>10, <2>2 DEF Submit
  <2>6. /\ joined \in BatchRows /\ joined.members = batches[b].members \cup {i}
        /\ joined.tries = 0 /\ joined.repo = "none" /\ joined.outcome = batches[b].outcome
        /\ \/ joined.pc = "open" /\ joined.todo \subseteq joined.members
           \/ /\ joined.pc = "observe" /\ joined.todo = joined.members
              /\ joined.rank \in [joined.members -> Nat]
              /\ \A j, k \in joined.members : joined.rank[j] = joined.rank[k] => j = k
    <3>1. /\ joined \in BatchRows /\ joined.members = batches[b].members \cup {i}
          /\ joined.tries = batches[b].tries /\ joined.repo = batches[b].repo
          /\ joined.outcome = batches[b].outcome
          /\ \/ joined.pc = "open" /\ joined.todo \subseteq joined.members
             \/ /\ joined.pc = "observe" /\ joined.todo = joined.members
                /\ joined.rank \in [joined.members -> Nat]
                /\ \A j, k \in joined.members : joined.rank[j] = joined.rank[k] => j = k
      BY Zenon, <2>3, <2>4, JoinedRow
    <3> QED BY Zenon, <2>3, <3>1
  <2>7. /\ batches' \in Seq(BatchRows) /\ Len(batches') = Len(batches)
        /\ BatchIds' = BatchIds /\ batches'[b] = joined
        /\ \A c \in BatchIds : c # b => batches'[c] = batches[c]
    BY Zenon, <1>1, <2>5, <2>6, StepFrame
  <2>8. \A j \in joined.members : caller'[j] # "new" /\ channel[j] = <<>> /\ ~items[j].committed
    <3>1. \A j \in batches[b].members : caller[j] # "new" /\ channel[j] = <<>>
      BY Zenon, <1>1 DEF BatchOK, MembersWait
    <3>2. \A j \in batches[b].members : ~items[j].committed
      BY Zenon, <1>1, <2>3 DEF BatchOK, MembersWait
    <3> QED BY Zenon, <1>3, <1>4, <1>5, <2>6, <3>1, <3>2
  <2>9. BatchOK(b)'
    BY ZenonT(120), <1>2, <2>3, <2>6, <2>7, <2>8, JoinedOK
  <2>10. (\A c \in BatchIds : BatchOK(c))'
    BY Zenon, <1>8, <2>7, <2>9
  <2>11. MembersAreDisjoint'
    <3>1. \A c, d \in BatchIds : c # d => batches[c].members \cap batches[d].members = {}
      BY Zenon, <1>1 DEF MembersAreDisjoint
    <3>2. \A c \in BatchIds : c # b =>
            batches'[c].members \cap batches'[b].members = {}
      <4>1. batches'[b].members = batches[b].members \cup {i}
        BY Zenon, <2>6, <2>7
      <4>2. \A c \in BatchIds : c # b => /\ i \notin batches'[c].members
                                        /\ batches'[c].members \cap batches[b].members = {}
        BY Zenon, <1>6, <2>7, <3>1
      <4> QED BY Zenon, <4>1, <4>2
    <3> QED BY ZenonT(120), <2>7, <3>1, <3>2 DEF MembersAreDisjoint
  <2>12. CoordinatorTypeOK'
    <3>1. current' \in 0 .. Len(batches')
      BY <1>1, <2>2, <2>5, <2>7 DEF CoordinatorTypeOK
    <3> QED BY Zenon, <1>1, <1>2, <1>3, <2>7, <3>1 DEF CoordinatorTypeOK
  <2>13. CurrentIsOpen'
    BY Zenon, <2>5, <2>7 DEF CurrentIsOpen
  <2> QED BY Zenon, <1>7, <2>10, <2>11, <2>12, <2>13 DEF CoordinatorInv
<1> QED BY Zenon, <1>9, <1>10

\* A caller stops waiting.
LEMMA LeaveCoordinator ==
  ASSUME CoordinatorInv, NEW i \in Callers, Leave(i) PROVE CoordinatorInv'
<1>1. /\ CoordinatorTypeOK /\ MembersAreDisjoint /\ CurrentIsOpen
      /\ \A b \in BatchIds : BatchOK(b)
  BY Zenon DEF CoordinatorInv
<1>2. /\ caller' = [caller EXCEPT ![i] = "left"] /\ UNCHANGED <<batches, current>>
      /\ UNCHANGED <<stale, channel, items, version, repoVersion, rivals>>
  BY Zenon DEF Leave, entityVars
<1>3. /\ caller' \in [Callers -> {"new", "waiting", "left"}]
      /\ \A j \in Callers : caller[j] # "new" => caller'[j] # "new"
  BY Zenon, <1>1, <1>2 DEF CoordinatorTypeOK
<1>4. /\ \A j \in Callers : Rivalled(j) => Rivalled(j)'
      /\ (\A j \in Callers : CallerOK(j))' /\ BlameIsLocal' /\ SuccessIsOwn'
  BY Zenon, <1>2, <1>3, CallersMove
<1>5. BatchIds' = BatchIds
  BY Zenon, <1>2 DEF BatchIds
<1>6. (\A b \in BatchIds : BatchOK(b))'
  <2> SUFFICES ASSUME NEW b \in BatchIds PROVE BatchOK(b)'
    BY Zenon, <1>5
  <2>1. batches[b].members \subseteq Callers
    <3>1. batches[b] \in BatchRows
      BY <1>1 DEF CoordinatorTypeOK, BatchIds
    <3> QED BY Zenon, <3>1 DEF BatchRows
  <2>2. \A j \in batches[b].members : caller'[j] # "new"
    BY Zenon, <1>1, <1>3, <2>1 DEF BatchOK, MembersWait
  <2>3. repoVersion' \in Nat /\ repoVersion' >= repoVersion
    BY <1>1, <1>2 DEF CoordinatorTypeOK
  <2> QED BY Zenon, <1>2, <1>4, <2>2, <2>3, OtherBatch
<1>7. CoordinatorTypeOK'
  BY Zenon, <1>1, <1>2, <1>3 DEF CoordinatorTypeOK
<1>8. MembersAreDisjoint' /\ CurrentIsOpen'
  BY Zenon, <1>1, <1>2, <1>5 DEF MembersAreDisjoint, CurrentIsOpen
<1> QED BY Zenon, <1>4, <1>6, <1>7, <1>8 DEF CoordinatorInv

\* Another writer commits: whoever was after the same pull request is rivalled.
LEMMA RivalCoordinator ==
  ASSUME CoordinatorInv, NEW p \in Contended, Rival(p) PROVE CoordinatorInv'
<1>1. /\ CoordinatorTypeOK /\ MembersAreDisjoint /\ CurrentIsOpen
      /\ (\A b \in BatchIds : BatchOK(b)) /\ \A i \in Callers : CallerOK(i)
  BY Zenon DEF CoordinatorInv
<1>2. /\ rivals' = Append(rivals, p) /\ UNCHANGED <<batches, current>>
      /\ UNCHANGED <<stale, channel, items, caller>>
  BY ZenonT(120) DEF Rival, callVars
<1>3. /\ rivals' \in Seq(Contended) /\ Len(rivals') = Len(rivals) + 1 /\ Len(rivals) \in Nat
      /\ rivals'[Len(rivals) + 1] = p
      /\ \A k \in 1 .. Len(rivals) : rivals'[k] = rivals[k]
  <2>1. rivals \in Seq(Contended)
    BY Zenon, <1>1 DEF CoordinatorTypeOK
  <2> QED BY <1>2, <2>1
<1>4. \A i \in Callers : (Rivalled(i) => Rivalled(i)') /\ (PullRequest[i] = p => Rivalled(i)')
  BY SMTT(60), <1>2, <1>3 DEF Rivalled
<1>5. /\ version' \in [PullRequests -> Nat \ {0}]
      /\ \A q \in PullRequests : version'[q] >= version[q] /\ (q # p => version'[q] = version[q])
  BY <1>1 DEF Rival, CoordinatorTypeOK
<1>6. repoVersion' \in Nat \ {0} /\ repoVersion' >= repoVersion
  BY <1>1 DEF Rival, CoordinatorTypeOK
<1>7. BatchIds' = BatchIds
  BY Zenon, <1>2 DEF BatchIds
<1>8. (\A b \in BatchIds : BatchOK(b))'
  <2> SUFFICES ASSUME NEW b \in BatchIds PROVE BatchOK(b)'
    BY Zenon, <1>7
  <2>1. \A j \in batches[b].members : caller'[j] # "new"
    BY Zenon, <1>1, <1>2 DEF BatchOK, MembersWait
  <2> QED BY Zenon, <1>2, <1>4, <1>6, <2>1, OtherBatch
<1>9. (\A i \in Callers : CallerOK(i))'
  <2> SUFFICES ASSUME NEW i \in Callers PROVE CallerOK(i)'
    BY Zenon
  <2>1. PullRequest[i] \in PullRequests
    BY Zenon DEF PullRequests
  <2>2. items[i] \in ItemRows /\ version[PullRequest[i]] \in Nat /\ repoVersion \in Nat
    BY Zenon, <1>1, <2>1 DEF CoordinatorTypeOK
  <2>3. items[i].obs \in Nat /\ items[i].repoObs \in Nat
    BY Zenon, <2>2 DEF ItemRows
  <2>4. version'[PullRequest[i]] \in Nat
    BY ZenonT(120), <1>5, <2>1
  <2>5. items'[i].obs <= version'[PullRequest[i]] /\ items'[i].repoObs <= repoVersion'
    BY SMTT(60), <1>1, <1>2, <1>5, <1>6, <2>1, <2>2, <2>3, <2>4 DEF CallerOK
  <2>6. ~Rivalled(i)' /\ ~items'[i].committed => version'[PullRequest[i]] = 1
    BY Zenon, <1>1, <1>2, <1>4, <1>5, <2>1 DEF CallerOK
  <2> QED BY Zenon, <1>1, <1>2, <2>5, <2>6 DEF CallerOK
<1>10. CoordinatorTypeOK'
  BY Zenon, <1>1, <1>2, <1>3, <1>5, <1>6 DEF CoordinatorTypeOK
<1>11. MembersAreDisjoint' /\ CurrentIsOpen'
  BY ZenonT(120), <1>1, <1>2, <1>7 DEF MembersAreDisjoint, CurrentIsOpen
<1>12. BlameIsLocal'
  <2>1. repoVersion \in Nat /\ Attempts \in Nat
    BY Zenon, <1>1, CoordinatorConstants DEF CoordinatorTypeOK
  <2> SUFFICES ASSUME NEW i \in Callers, channel'[i] = <<"error">>
               PROVE  PullRequest[i] \in Poisoned \/ i \in stale' \/ Rivalled(i)' \/ repoVersion' > Attempts
    BY Zenon DEF BlameIsLocal, Rivalled
  <2>2. PullRequest[i] \in Poisoned \/ i \in stale \/ Rivalled(i) \/ repoVersion > Attempts
    BY Zenon, <1>2 DEF CoordinatorInv, BlameIsLocal, Rivalled
  <2>3. repoVersion > Attempts => repoVersion' > Attempts
    BY <1>6, <2>1
  <2> QED BY Zenon, <1>2, <1>4, <2>2, <2>3
<1>13. SuccessIsOwn'
  BY Zenon, <1>2 DEF CoordinatorInv, SuccessIsOwn
<1> QED BY Zenon, <1>8, <1>9, <1>10, <1>11, <1>12, <1>13 DEF CoordinatorInv

\* Stuttering preserves the invariant.
LEMMA StillCoordinator == ASSUME CoordinatorInv, UNCHANGED coordinatorVars PROVE CoordinatorInv'
<1> USE DEF coordinatorVars, callVars, entityVars, CoordinatorInv
<1>1. CoordinatorTypeOK' /\ MembersAreDisjoint' /\ CurrentIsOpen'
  BY Zenon DEF CoordinatorTypeOK, MembersAreDisjoint, CurrentIsOpen, BatchIds
<1>2. BatchIds' = BatchIds /\ \A i \in Callers : Rivalled(i)' = Rivalled(i)
  BY Zenon DEF BatchIds, Rivalled
<1>3. (\A b \in BatchIds : BatchOK(b))'
  <2> SUFFICES ASSUME NEW b \in BatchIds PROVE BatchOK(b)'
    BY Zenon, <1>2
  <2>1. \A i \in batches[b].members : caller[i] # "new"
    BY Zenon DEF BatchOK, MembersWait
  <2>2. repoVersion' \in Nat /\ repoVersion' >= repoVersion
    BY DEF CoordinatorTypeOK
  <2> QED BY Zenon, <1>2, <2>1, <2>2, OtherBatch
<1>4. (\A i \in Callers : CallerOK(i))' /\ BlameIsLocal' /\ SuccessIsOwn'
  BY Zenon, <1>2, CallersMove
<1> QED BY Zenon, <1>1, <1>3, <1>4

\* Every step preserves the invariant.
LEMMA StepCoordinator ==
  ASSUME CoordinatorInv, [CoordinatorNext]_coordinatorVars PROVE CoordinatorInv'
<1>1. CASE \E i \in Callers : Submit(i)
  BY Zenon, <1>1, SubmitCoordinator
<1>2. CASE \E i \in Callers : Leave(i)
  BY Zenon, <1>2, LeaveCoordinator
<1>3. CASE Batching
  <2>1. PICK b \in BatchIds : Executing(b)
    BY Zenon, <1>3 DEF Batching
  <2>2. CASE TimerFires(b)
    BY Zenon, <2>2, TimerFiresCoordinator
  <2>3. CASE Flush(b)
    BY Zenon, <2>3, FlushCoordinator
  <2>4. CASE Fetch(b)
    BY Zenon, <2>4, FetchCoordinated
  <2>5. CASE FinishAll(b)
    BY Zenon, <2>5, FinishAllCoordinator
  <2>6. CASE ApplyIncidentalRepository(b)
    BY Zenon, <2>6, ApplyRepositoryCoordinator
  <2>7. CASE ObserveRepository(b)
    BY Zenon, <2>7, ObserveRepositoryCoordinator
  <2>8. CASE \E i \in Callers : Observe(b, i)
    BY Zenon, <2>8, ObserveCoordinator
  <2>9. CASE \E i \in Callers : ApplyPullRequest(b, i)
    BY Zenon, <2>9, PassedOver, TurnTaken
  <2> QED BY Zenon, <2>1, <2>2, <2>3, <2>4, <2>5, <2>6, <2>7, <2>8, <2>9 DEF Executing
<1>4. CASE \E p \in Contended : Rival(p)
  BY Zenon, <1>4, RivalCoordinator
<1>5. CASE UNCHANGED coordinatorVars
  BY Zenon, <1>5, StillCoordinator
<1> QED BY Zenon, <1>1, <1>2, <1>3, <1>4, <1>5 DEF CoordinatorNext

\* A refresh fails only for a reason of its own: a poisoned or superseded
\* sibling in its batch (pull_request_coordinator.go) never fails it, for any
\* callers, batch size and number of attempts.
THEOREM FailuresAreLocal == CoordinatorSpec => []BlameIsLocal
<1>1. CoordinatorInv => BlameIsLocal
  BY Zenon DEF CoordinatorInv
<1> QED BY <1>1, InitCoordinator, StepCoordinator, PTL DEF CoordinatorSpec

\* A caller that is told of success has committed a transaction of its own,
\* also when another caller of the same pull request is in its batch.
THEOREM SuccessesAreOwn == CoordinatorSpec => []SuccessIsOwn
<1>1. CoordinatorInv => SuccessIsOwn
  BY Zenon DEF CoordinatorInv
<1> QED BY <1>1, InitCoordinator, StepCoordinator, PTL DEF CoordinatorSpec
=============================================================================
