-------------------------- MODULE FetchCoordinator --------------------------
(***************************************************************************)
(* prCoordinator (internal/fetch/coordinator.go): concurrent refreshes of  *)
(* pull requests share one GraphQL call, and each is answered on its own.  *)
(* One budget class and source is modelled (a batch never mixes two), with *)
(* the pull requests of one repository.                                    *)
(*                                                                         *)
(* A batch is filled by callers under the coordinator's mutex and is       *)
(* executed either by the caller that fills it or by its timer.  The       *)
(* execution takes an observation of every pull request and of the         *)
(* repository, fetches the nodes, applies the repository they carry, then  *)
(* each pull request in a transaction of its own, and only then sends the  *)
(* results.  Other writers of the same entities commit in between.         *)
(***************************************************************************)
EXTENDS Integers, Sequences, FiniteSets

CONSTANTS Callers,       \* refreshes
          PullRequest,   \* caller -> the pull request it refreshes
          Skips,         \* callers that skip the repository (branch pages)
          Poisoned,      \* pull requests whose node cannot be completed
          BatchSize,     \* gh.MaxPullRequestBatch
          Attempts,      \* incidentalRepositoryApplyAttempts
          Impatient,     \* callers whose context may end while they wait
          Contended,     \* what others write too: pull requests, 0 the repository
          MaxRivals      \* bound on their commits

ASSUME CoordinatorConstants ==
    /\ PullRequest \in [Callers -> Nat \ {0}]
    /\ Skips \subseteq Callers /\ BatchSize \in Nat \ {0} /\ Attempts \in Nat \ {0}
    /\ MaxRivals \in Nat
    /\ Contended \subseteq {0} \cup {PullRequest[i] : i \in Callers}

VARIABLES
    stale,     \* callers whose generation fence was superseded
    caller,    \* caller -> "new", "waiting" or "left"
    channel,   \* caller -> results sent to it
    batches,   \* the batches made so far
    current,   \* the batch in the coordinator's map, or 0
    items,     \* caller -> its observations and whether it committed
    version,   \* pull request -> its observation version
    repoVersion,
    rivals     \* history: pull requests (0: the repository) others committed

callVars == <<caller, channel>>
entityVars == <<version, repoVersion, rivals>>
coordinatorVars == <<stale, callVars, batches, current, items, entityVars>>

PullRequests == {PullRequest[i] : i \in Callers}
BatchIds == 1 .. Len(batches)
NoItem == [obs |-> 0, repoObs |-> 0, committed |-> FALSE]

CoordinatorInit ==
    /\ stale \in SUBSET Skips
    /\ caller = [i \in Callers |-> "new"] /\ channel = [i \in Callers |-> <<>>]
    /\ batches = <<>> /\ current = 0
    /\ items = [i \in Callers |-> NoItem]
    /\ version = [p \in PullRequests |-> 1] /\ repoVersion = 1 /\ rivals = <<>>

-----------------------------------------------------------------------------
(* Filling a batch                                                         *)

NoOutcome == [items |-> {}, ok |-> FALSE]

NewBatch == [pc |-> "open", timer |-> "armed", members |-> {}, todo |-> {},
             rank |-> [i \in {} |-> 0], tries |-> 0, repo |-> "none",
             outcome |-> [p \in PullRequests |-> NoOutcome]]

\* The orders sort.Slice may leave: by entity, and callers of one entity in
\* any order.
ByEntity(members) ==
    {rank \in [members -> 1 .. Cardinality(members)] :
       \A i, j \in members : /\ i # j => rank[i] # rank[j]
                             /\ PullRequest[i] < PullRequest[j] => rank[i] < rank[j]}

\* The batch leaves the coordinator's map and execute sorts it.
Closed(batch) ==
    {[batch EXCEPT !.pc = "observe", !.rank = rank, !.todo = batch.members] :
       rank \in ByEntity(batch.members)}

\* Mutant of Joined: every caller stops the timer.
JoinedStopsTimer(batch, i) ==
    LET joined == [batch EXCEPT !.members = @ \cup {i}, !.timer = "off"]
    IN  IF Cardinality(joined.members) = BatchSize THEN Closed(joined) ELSE {joined}

\* submit: the batch is closed by the caller that fills it, which stops the
\* timer unless it has fired already.
Joined(batch, i) ==
    LET joined == [batch EXCEPT !.members = @ \cup {i}]
    IN  IF Cardinality(joined.members) = BatchSize
        THEN Closed([joined EXCEPT !.timer = IF @ = "armed" THEN "off" ELSE @])
        ELSE {joined}

Submit(i) ==
    /\ caller[i] = "new"
    /\ caller' = [caller EXCEPT ![i] = "waiting"]
    /\ IF current = 0
       THEN \E joined \in Joined(NewBatch, i) :
              /\ batches' = Append(batches, joined)
              /\ current' = IF joined.pc = "open" THEN Len(batches) + 1 ELSE 0
       ELSE \E joined \in Joined(batches[current], i) :
              /\ batches' = [batches EXCEPT ![current] = joined]
              /\ current' = IF joined.pc = "open" THEN current ELSE 0
    /\ UNCHANGED <<stale, channel, items, entityVars>>

TimerFires(b) ==
    /\ batches[b].timer = "armed"
    /\ batches' = [batches EXCEPT ![b].timer = "fired"]
    /\ UNCHANGED <<stale, callVars, current, items, entityVars>>

\* flush: nothing is left to do when the batch was filled meanwhile.
StillOpen(b) == batches[b].pc = "open" /\ current = b

Flush(b) ==
    /\ batches[b].timer = "fired"
    /\ IF StillOpen(b)
       THEN /\ \E closed \in Closed([batches[b] EXCEPT !.timer = "off"]) :
                 batches' = [batches EXCEPT ![b] = closed]
            /\ current' = 0
       ELSE batches' = [batches EXCEPT ![b].timer = "off"] /\ UNCHANGED current
    /\ UNCHANGED <<stale, callVars, items, entityVars>>

\* The select that ends submit: a caller may leave; its item stays.
Leave(i) ==
    /\ i \in Impatient /\ caller[i] = "waiting" /\ channel[i] = <<>>
    /\ caller' = [caller EXCEPT ![i] = "left"]
    /\ UNCHANGED <<stale, channel, batches, current, items, entityVars>>

-----------------------------------------------------------------------------
(* Executing a batch                                                       *)

Step(b, batch) ==
    /\ batches' = [batches EXCEPT ![b] = batch]
    /\ UNCHANGED <<stale, callVars, current>>

\* The first of some callers of a batch, in its order.
First(batch, callers) == {i \in callers : \A j \in callers : batch.rank[i] <= batch.rank[j]}

\* BeginObservation of the next pull request and of its repository.
Observe(b, i) ==
    LET batch == batches[b] IN
    /\ batch.pc = "observe" /\ i \in First(batch, batch.todo)
    /\ items' = [items EXCEPT ![i] = [@ EXCEPT !.obs = version[PullRequest[i]],
                                               !.repoObs = repoVersion]]
    /\ Step(b, [batch EXCEPT !.todo = @ \ {i}])
    /\ UNCHANGED entityVars

\* Mutant of FetchFails: the failed call fails every node of the batch.
CallFails(i) ==
    \E b \in BatchIds : /\ i \in batches[b].members
                         /\ \E j \in batches[b].members : PullRequest[j] \in Poisoned

\* fetchPullRequestNodes: a node that cannot be completed fails the call;
\* every node is then fetched on its own.
FetchFails(i) == PullRequest[i] \in Poisoned

Fetch(b) ==
    LET batch == batches[b]
        prepared == {i \in batch.members : ~FetchFails(i)}
    IN  /\ batch.pc = "observe" /\ batch.todo = {}
        /\ Step(b, [batch EXCEPT !.todo = prepared, !.pc = "repository"])
        /\ UNCHANGED <<items, entityVars>>

\* repositoryCandidates: the first prepared item that does not skip it.
Candidates(batch) == First(batch, batch.todo \ Skips)

\* applyIncidentalRepository: a conflict is retried with a fresh
\* observation, a superseded generation ends it without a failure.
ApplyIncidentalRepository(b) ==
    LET batch == batches[b] IN
    /\ batch.pc = "repository"
    /\ \/ /\ batch.todo \subseteq Skips
          /\ Step(b, [batch EXCEPT !.pc = "apply"])
          /\ UNCHANGED entityVars
       \/ /\ Candidates(batch) # {}
          /\ Step(b, [batch EXCEPT !.pc = "apply", !.repo = "superseded"])
          /\ UNCHANGED entityVars
       \/ \E i \in Candidates(batch) :
          /\ items[i].repoObs = repoVersion
          /\ repoVersion' = repoVersion + 1
          /\ Step(b, [batch EXCEPT !.pc = "apply", !.repo = "applied"])
          /\ UNCHANGED <<version, rivals>>
       \/ \E i \in Candidates(batch) :
          /\ items[i].repoObs # repoVersion
          /\ IF batch.tries + 1 = Attempts
             THEN Step(b, [batch EXCEPT !.pc = "apply", !.repo = "failed"])
             ELSE Step(b, [batch EXCEPT !.pc = "reobserve", !.tries = @ + 1])
          /\ UNCHANGED entityVars
    /\ UNCHANGED items

ObserveRepository(b) ==
    LET batch == batches[b] IN
    /\ batch.pc = "reobserve"
    /\ \E i \in Candidates(batch) :
         items' = [items EXCEPT ![i] = [@ EXCEPT !.repoObs = repoVersion]]
    /\ Step(b, [batch EXCEPT !.pc = "repository"])
    /\ UNCHANGED entityVars

\* A caller whose repository could not be applied is not applied itself.
RepositoryFailed(batch, i) == batch.repo = "failed" /\ i \notin Skips

\* ApplyPullRequestBatch: a transaction per pull request, which commits when
\* the observation is current and the caller's fence still holds.  Outcomes
\* are kept by entity, and so is the item that gets one.
ApplyPullRequest(b, i) ==
    LET batch == batches[b]
        p == PullRequest[i]
        commits == items[i].obs = version[p] /\ i \notin stale
    IN
    /\ batch.pc = "apply" /\ i \in First(batch, batch.todo)
    /\ IF RepositoryFailed(batch, i)
       THEN /\ Step(b, [batch EXCEPT !.todo = @ \ {i}])
            /\ UNCHANGED <<items, version>>
       ELSE /\ items' = [items EXCEPT ![i] = [@ EXCEPT !.committed = commits]]
            /\ version' = IF commits THEN [version EXCEPT ![p] = @ + 1] ELSE version
            /\ Step(b, [batch EXCEPT !.todo = @ \ {i},
                          !.outcome = [@ EXCEPT ![p] = [items |-> {i}, ok |-> commits]]])
    /\ UNCHANGED <<repoVersion, rivals>>

\* Mutant of Result: the outcome of the pull request answers all its callers.
ResultOfEntity(batch, i) == IF batch.outcome[PullRequest[i]].ok THEN "ok" ELSE "error"

\* Of two callers of one pull request only the last has a result; finishAll
\* fails the other, and the callers without an outcome.
Result(batch, i) ==
    LET outcome == batch.outcome[PullRequest[i]]
    IN  IF i \in outcome.items /\ outcome.ok THEN "ok" ELSE "error"

FinishAll(b) ==
    LET batch == batches[b] IN
    /\ batch.pc = "apply" /\ batch.todo = {}
    /\ channel' = [i \in Callers |->
                     IF i \in batch.members THEN Append(channel[i], Result(batch, i))
                     ELSE channel[i]]
    /\ batches' = [batches EXCEPT ![b] = [NewBatch EXCEPT !.pc = "done", !.timer = batch.timer]]
    /\ items' = [i \in Callers |->
                   IF i \in batch.members
                   THEN [NoItem EXCEPT !.committed = items[i].committed] ELSE items[i]]
    /\ UNCHANGED <<stale, caller, current, entityVars>>

-----------------------------------------------------------------------------

\* Another writer of a pull request, or of the repository, commits.
Rival(p) ==
    /\ Len(rivals) < MaxRivals
    /\ rivals' = Append(rivals, p)
    /\ IF p = 0 THEN repoVersion' = repoVersion + 1 /\ UNCHANGED version
       ELSE version' = [version EXCEPT ![p] = @ + 1] /\ UNCHANGED repoVersion
    /\ UNCHANGED <<stale, callVars, batches, current, items>>

Executing(b) ==
    \/ TimerFires(b) \/ Flush(b) \/ Fetch(b) \/ FinishAll(b)
    \/ ApplyIncidentalRepository(b) \/ ObserveRepository(b)
    \/ \E i \in Callers : Observe(b, i) \/ ApplyPullRequest(b, i)

Batching == \E b \in BatchIds : Executing(b)

CoordinatorNext ==
    \/ \E i \in Callers : Submit(i) \/ Leave(i)
    \/ Batching
    \/ \E p \in Contended : Rival(p)

\* The timers fire and the goroutines of the batches run.
CoordinatorFairness == WF_coordinatorVars(Batching)

CoordinatorSpec ==
    CoordinatorInit /\ [][CoordinatorNext]_coordinatorVars /\ CoordinatorFairness

-----------------------------------------------------------------------------

(* Every caller gets a result, also when another caller of its batch, or   *)
(* itself, has stopped waiting.                                            *)
EveryCallerIsAnswered ==
    []<>(\A i \in Callers : caller[i] # "new" => channel[i] # <<>>)

(* "One poisoned entity never discards healthy siblings": a refresh fails  *)
(* only for a reason of its own.  Its node failed, its fence was           *)
(* superseded, its pull request was written or being refreshed by someone  *)
(* else, or as many competing commits of the repository as there are       *)
(* attempts came in between.                                               *)
BlameIsLocal ==
    \A i \in Callers : channel[i] = <<"error">> =>
      \/ PullRequest[i] \in Poisoned \/ i \in stale
      \/ \E k \in 1 .. Len(rivals) : rivals[k] = PullRequest[i]
      \/ \E j \in Callers \ {i} : caller[j] # "new" /\ PullRequest[j] = PullRequest[i]
      \/ repoVersion > Attempts

(* A caller is told of success only when its own transaction committed,    *)
(* never by the outcome of another caller of the same pull request.        *)
SuccessIsOwn == \A i \in Callers : channel[i] = <<"ok">> => items[i].committed
=============================================================================
