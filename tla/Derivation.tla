------------------------------ MODULE Derivation ------------------------------
(***************************************************************************)
(* Derivation of work items (internal/derive) against the entity writers    *)
(* that feed it (internal/store): a writer changes one cached entity, marks *)
(* the derivation scopes it affects dirty and commits both; a deriver       *)
(* claims dirty scopes with row locks, loads one snapshot of them, writes   *)
(* their work items and deletes the marks in one transaction.  Both hold    *)
(* the shared outbox fence, which the watermarker takes exclusively.        *)
(*                                                                         *)
(* Transactions are READ COMMITTED: every statement sees what is committed  *)
(* when it runs.  Deriving is a pure function of the snapshot; the model    *)
(* keeps the snapshot itself as the work item.  Of the rows it reads, pull   *)
(* requests and stacks are kept; a write of checks, rules or the repository *)
(* is the marks it leaves.                                                  *)
(***************************************************************************)
EXTENDS Naturals, Sequences, FiniteSets

CONSTANTS Pulls, Stacks, Heads,
          Content,     \* what the row of a stack can say
          Writers,     \* concurrent entity-writer transactions
          Derivers,    \* concurrent derivation passes
          Watermarker,
          Kinds,       \* the entity kinds each writer writes
          DirtyCap,    \* Service.dirtyCap
          MaxFaults,   \* bound on rolled back transactions
          None

ASSUME DeriveProcesses ==
    /\ Writers \cap Derivers = {} /\ Watermarker \notin Writers \cup Derivers
    /\ None \notin Writers \cup Derivers \cup {Watermarker}

VARIABLES pull,      \* pull_requests: live, stack_number, head_sha
          stack,     \* stacks: the content of a live row, or None
          dirty,     \* derivation_dirty
          rowLock,   \* holder of the lock on a dirty row
          items,     \* work_items, by owning scope
          tx,        \* entity-writer transactions
          pass,      \* derivation passes
          fence,     \* the outbox fence: its holders and its queue
          faults

cacheVars == <<pull, stack>>
deriveVars == <<cacheVars, dirty, rowLock, items, tx, pass, fence, faults>>

Scopes == ({"pr"} \X Pulls) \cup ({"stack"} \X Stacks)
PullRows == [live : BOOLEAN, stack : Stacks \cup {None}, head : Heads]
Processes == Writers \cup Derivers \cup {Watermarker}

\* derivationScope
DerivationScope(p, row) ==
    IF row.stack = None THEN <<"pr", p>> ELSE <<"stack", row.stack>>

\* LoadDerivationSnapshot for one scope
Snapshot(s) ==
    LET members == {p \in Pulls : pull[p].live /\ DerivationScope(p, pull[p]) = s}
    IN  [stack |-> IF s[1] = "stack" THEN stack[s[2]] ELSE None,
         pulls |-> {<<p, pull[p].head>> : p \in members}]

IdleTx == [pc |-> "idle", kind |-> None, of |-> None, row |-> None, scopes |-> {}]
IdlePass == [pc |-> "idle", scopes |-> {}, snapshot |-> <<>>]

DeriveInit ==
    /\ pull \in [Pulls -> {[live |-> TRUE, stack |-> None, head |-> h] : h \in Heads}]
    /\ stack = [n \in Stacks |-> None]
    /\ dirty = {}
    /\ rowLock = [s \in Scopes |-> None]
    /\ items = [s \in Scopes |-> Snapshot(s)]
    /\ tx = [w \in Writers |-> IdleTx]
    /\ pass = [d \in Derivers |-> IdlePass]
    /\ fence = [held |-> {}, queue |-> <<>>]
    /\ faults = 0

-----------------------------------------------------------------------------
(* The outbox fence: an advisory lock with a first-come queue              *)

Conflict(a, b) == a # b /\ Watermarker \in {a, b}

Queued(a) == \E i \in DOMAIN fence.queue : fence.queue[i] = a

Request(a) ==
    /\ a \notin fence.held /\ ~Queued(a)
    /\ fence' = [fence EXCEPT !.queue = Append(@, a)]

\* A process that gives up leaves the queue; it is there at most once.
Leave(queue, a) ==
    IF \E i \in DOMAIN queue : queue[i] = a
    THEN LET place == CHOOSE i \in DOMAIN queue : queue[i] = a
         IN  [i \in 1 .. Len(queue) - 1 |-> queue[IF i < place THEN i ELSE i + 1]]
    ELSE queue

Release(a) == fence' = [fence EXCEPT !.held = @ \ {a}]

\* The first in the queue is granted the fence when no holder conflicts.
Grant ==
    /\ fence.queue # <<>>
    /\ \A b \in fence.held : ~Conflict(Head(fence.queue), b)
    /\ fence' = [held |-> fence.held \cup {Head(fence.queue)},
                 queue |-> Tail(fence.queue)]
    /\ UNCHANGED <<cacheVars, dirty, rowLock, items, tx, pass, faults>>

\* Watermarker.Step as far as the fence goes.
RequestWatermark ==
    /\ Request(Watermarker)
    /\ UNCHANGED <<cacheVars, dirty, rowLock, items, tx, pass, faults>>

\* FenceLockTimeout
TimeoutWatermark ==
    /\ Queued(Watermarker)
    /\ fence' = [fence EXCEPT !.queue = Leave(@, Watermarker)]
    /\ UNCHANGED <<cacheVars, dirty, rowLock, items, tx, pass, faults>>

EndWatermark ==
    /\ Watermarker \in fence.held
    /\ Release(Watermarker)
    /\ UNCHANGED <<cacheVars, dirty, rowLock, items, tx, pass, faults>>

-----------------------------------------------------------------------------
(* Entity writers                                                          *)

\* beginEntityTx: the entity's advisory lock, then a place at the fence.
BeginEntityTx(w, kind, of) ==
    /\ tx[w].pc = "idle"
    /\ kind \in Kinds[w]
    /\ \A v \in Writers : tx[v].kind # kind \/ tx[v].of # of
    /\ tx' = [tx EXCEPT ![w] = [IdleTx EXCEPT !.pc = "begun", !.kind = kind,
                                              !.of = of]]
    /\ Request(w)
    /\ UNCHANGED <<cacheVars, dirty, rowLock, items, pass, faults>>

\* The writer's new row, not visible to others before the commit, and the
\* scopes it will mark.
Apply(w, kind, row, scopes) ==
    /\ tx[w].pc = "begun"
    /\ tx[w].kind = kind
    /\ w \in fence.held
    /\ tx' = [tx EXCEPT ![w].pc = "mark", ![w].row = row, ![w].scopes = scopes]
    /\ UNCHANGED <<cacheVars, dirty, rowLock, items, pass, fence, faults>>

\* Marks only the scope the pull request has now.
ApplyPullNewScopeOnly(w, row) ==
    /\ tx[w].kind = "pull"
    /\ row # pull[tx[w].of]
    /\ row.live
    /\ Apply(w, "pull", row, {DerivationScope(tx[w].of, row)})

\* applyPullRequest marks the scope of the row before and after the write.
ApplyPullRequest(w, row) ==
    /\ tx[w].kind = "pull"
    /\ row # pull[tx[w].of]
    /\ row.live
    /\ Apply(w, "pull", row, {DerivationScope(tx[w].of, pull[tx[w].of]),
                              DerivationScope(tx[w].of, row)})

\* TombstonePullRequestObserved keeps the row's stack number and head.
TombstonePullRequest(w) ==
    LET p == tx[w].of
    IN  /\ tx[w].kind = "pull"
        /\ pull[p].live
        /\ Apply(w, "pull", [pull[p] EXCEPT !.live = FALSE],
                 {DerivationScope(p, pull[p])})

ApplyStack(w, row) ==
    /\ tx[w].kind = "stack"
    /\ row # stack[tx[w].of]
    /\ Apply(w, "stack", row, {<<"stack", tx[w].of>>})

TombstoneStack(w) ==
    /\ tx[w].kind = "stack"
    /\ stack[tx[w].of] # None
    /\ Apply(w, "stack", None, {<<"stack", tx[w].of>>})

ListPRScopesByHeadSHA(sha) ==
    {DerivationScope(p, pull[p]) :
       p \in {q \in Pulls : pull[q].live /\ pull[q].head = sha}}

\* ApplyChecksObserved
ApplyChecks(w) ==
    /\ tx[w].kind = "checks"
    /\ Apply(w, "checks", None, ListPRScopesByHeadSHA(tx[w].of))

ListRepositoryDerivationScopes ==
    {<<"stack", n>> : n \in {m \in Stacks : stack[m] # None}} \cup
    {<<"pr", p>> : p \in {q \in Pulls : pull[q].live /\ pull[q].stack = None}}

\* applyRepositoryTx, TombstoneRepositoryObserved, ApplyRepoRulesObserved
ApplyRepository(w) ==
    /\ tx[w].kind = "repository"
    /\ Apply(w, "repository", None, ListRepositoryDerivationScopes)

\* MarkDerivationDirty waits for the lock on each row, in no given order.
MarkDirty(w, s) ==
    /\ tx[w].pc = "mark"
    /\ s \in tx[w].scopes
    /\ rowLock[s] = None
    /\ rowLock' = [rowLock EXCEPT ![s] = w]
    /\ tx' = [tx EXCEPT ![w].scopes = @ \ {s}]
    /\ UNCHANGED <<cacheVars, dirty, items, pass, fence, faults>>

LockedBy(a) == {s \in Scopes : rowLock[s] = a}
UnlockRows(a) ==
    rowLock' = [s \in Scopes |-> IF rowLock[s] = a THEN None ELSE rowLock[s]]

\* commitEntityTx: the row and the marks appear, the locks go.
CommitEntityTx(w) ==
    /\ tx[w].pc = "mark"
    /\ tx[w].scopes = {}
    /\ LET Put(kind, f) == IF tx[w].kind = kind
                           THEN [f EXCEPT ![tx[w].of] = tx[w].row] ELSE f
       IN  /\ pull' = Put("pull", pull)
           /\ stack' = Put("stack", stack)
    /\ dirty' = dirty \cup LockedBy(w)
    /\ UnlockRows(w)
    /\ Release(w)
    /\ tx' = [tx EXCEPT ![w] = IdleTx]
    /\ UNCHANGED <<items, pass, faults>>

\* An observation that changes nothing, or is superseded, marks nothing.
TouchEntity(w) ==
    /\ tx[w].pc = "begun"
    /\ w \in fence.held
    /\ Release(w)
    /\ tx' = [tx EXCEPT ![w] = IdleTx]
    /\ UNCHANGED <<cacheVars, dirty, rowLock, items, pass, faults>>

AbortEntityTx(w) ==
    /\ UnlockRows(w)
    /\ fence' = [held |-> fence.held \ {w}, queue |-> Leave(fence.queue, w)]
    /\ tx' = [tx EXCEPT ![w] = IdleTx]
    /\ UNCHANGED <<cacheVars, dirty, items, pass>>

RollbackEntityTx(w) ==
    /\ tx[w].pc # "idle"
    /\ faults < MaxFaults /\ faults' = faults + 1
    /\ AbortEntityTx(w)

\* Two writers that wait for each other's marks: PostgreSQL rolls one back.
BreakDeadlock(w) ==
    /\ \E v \in Writers :
          /\ \E s \in tx[w].scopes : rowLock[s] = v
          /\ \E s \in tx[v].scopes : rowLock[s] = w
    /\ AbortEntityTx(w)
    /\ UNCHANGED faults

-----------------------------------------------------------------------------
(* Derivation passes: Service.runOnce                                      *)

Unlocked == {s \in dirty : rowLock[s] = None}

\* A pass that takes its row locks before it queues for the fence.
ClaimBeforeFence(d) ==
    /\ pass[d].pc = "idle"
    /\ pass' = [pass EXCEPT ![d].pc = "begun"]
    /\ rowLock' = [s \in Scopes |-> IF s \in Unlocked THEN d ELSE rowLock[s]]
    /\ Request(d)
    /\ UNCHANGED <<cacheVars, dirty, items, tx, faults>>

BeginPass(d) ==
    /\ pass[d].pc = "idle"
    /\ pass' = [pass EXCEPT ![d].pc = "begun"]
    /\ Request(d)
    /\ UNCHANGED <<cacheVars, dirty, rowLock, items, tx, faults>>

\* A claim is up to the cap; rows locked by others are skipped.
ClaimDerivationDirtyScopes ==
    {claim \in SUBSET Unlocked :
       /\ Cardinality(claim) <= DirtyCap
       /\ claim = Unlocked \/ Cardinality(claim) = DirtyCap}

\* An empty claim commits at once.
ClaimDirtyScopes(d) ==
    /\ pass[d].pc = "begun"
    /\ d \in fence.held
    /\ \E claim \in ClaimDerivationDirtyScopes :
          /\ rowLock' = [s \in Scopes |-> IF s \in claim THEN d ELSE rowLock[s]]
          /\ IF claim = {}
             THEN pass' = [pass EXCEPT ![d] = IdlePass] /\ Release(d)
             ELSE /\ pass' = [pass EXCEPT ![d].pc = "claimed", ![d].scopes = claim]
                  /\ fence' = fence
    /\ UNCHANGED <<cacheVars, dirty, items, tx, faults>>

\* SnapshotLoader.Load, one statement for all claimed scopes.
LoadSnapshot(d) ==
    /\ pass[d].pc = "claimed"
    /\ pass' = [pass EXCEPT ![d].pc = "loaded",
                  ![d].snapshot = [s \in pass[d].scopes |-> Snapshot(s)]]
    /\ UNCHANGED <<cacheVars, dirty, rowLock, items, tx, fence, faults>>

\* The work items of the claimed scopes are replaced.
ApplyDerivedWorkItemBatch(d) ==
    [s \in Scopes |-> IF s \in pass[d].scopes THEN pass[d].snapshot[s]
                     ELSE items[s]]

ClearDerivationDirtyScopes(d) == dirty \ pass[d].scopes

\* A pass that clears every mark, not only those it claimed.
CommitPassClearsAll(d) ==
    /\ pass[d].pc = "loaded"
    /\ items' = ApplyDerivedWorkItemBatch(d)
    /\ dirty' = {}
    /\ UnlockRows(d)
    /\ Release(d)
    /\ pass' = [pass EXCEPT ![d] = IdlePass]
    /\ UNCHANGED <<cacheVars, tx, faults>>

\* The work items, the cleared marks and the commit.
CommitPass(d) ==
    /\ pass[d].pc = "loaded"
    /\ items' = ApplyDerivedWorkItemBatch(d)
    /\ dirty' = ClearDerivationDirtyScopes(d)
    /\ UnlockRows(d)
    /\ Release(d)
    /\ pass' = [pass EXCEPT ![d] = IdlePass]
    /\ UNCHANGED <<cacheVars, tx, faults>>

RollbackPass(d) ==
    /\ pass[d].pc # "idle"
    /\ faults < MaxFaults /\ faults' = faults + 1
    /\ UnlockRows(d)
    /\ fence' = [held |-> fence.held \ {d}, queue |-> Leave(fence.queue, d)]
    /\ pass' = [pass EXCEPT ![d] = IdlePass]
    /\ UNCHANGED <<cacheVars, dirty, items, tx>>

-----------------------------------------------------------------------------
Targets(kind) ==
    CASE kind = "pull" -> Pulls [] kind = "stack" -> Stacks
      [] kind = "checks" -> Heads [] kind = "repository" -> {None}

WriterNext(w) ==
    \/ \E kind \in Kinds[w] : \E of \in Targets(kind) : BeginEntityTx(w, kind, of)
    \/ \E row \in PullRows : ApplyPullRequest(w, row)
    \/ TombstonePullRequest(w) \/ TombstoneStack(w)
    \/ \E row \in Content : ApplyStack(w, row)
    \/ ApplyChecks(w) \/ ApplyRepository(w)
    \/ \E s \in Scopes : MarkDirty(w, s)
    \/ CommitEntityTx(w) \/ TouchEntity(w)
    \/ RollbackEntityTx(w) \/ BreakDeadlock(w)

PassNext(d) ==
    \/ BeginPass(d) \/ ClaimDirtyScopes(d) \/ LoadSnapshot(d)
    \/ CommitPass(d) \/ RollbackPass(d)

DeriveNext ==
    \/ \E w \in Writers : WriterNext(w)
    \/ \E d \in Derivers : PassNext(d)
    \/ Grant \/ RequestWatermark \/ TimeoutWatermark \/ EndWatermark

DeriveSpec == DeriveInit /\ [][DeriveNext]_deriveVars

-----------------------------------------------------------------------------
(* Properties                                                              *)

WaitsFor(a, b) ==
    \/ /\ Queued(a) /\ b \in fence.held /\ Conflict(a, b)
    \/ \E i, k \in DOMAIN fence.queue :
          i < k /\ fence.queue[i] = b /\ fence.queue[k] = a
    \/ /\ a \in Writers /\ b # a
       /\ \E s \in tx[a].scopes : rowLock[s] = b

\* derive.go:217-219: with the fence taken before the row locks, no deriver
\* and no watermarker is ever part of a cycle of transactions that wait for
\* each other (writers that mark the same scopes may still meet in one,
\* which PostgreSQL breaks): what it waits for, directly and through others,
\* lies in a set without it that nobody in it waits out of.
NoFenceCycle ==
    \A a \in Derivers \cup {Watermarker} :
        \E others \in SUBSET (Processes \ {a}) :
            \A b \in others \cup {a}, c \in Processes :
                WaitsFor(b, c) => c \in others

\* C-C3 (docs/SYNC_ENGINE.md:138-142): a committed change of a pull request or
\* a stack is derived or its scope is marked: a scope without a mark has work
\* items of the current rows, whatever writes and passes overlap.
DirtyCoversCache ==
    \A s \in Scopes \ dirty : items[s] = Snapshot(s)

\* derive.go:341-401: the deriver polls for ever, PostgreSQL grants the locks
\* it can grant and the watermarker ends its transactions.
DeriveFairness ==
    /\ WF_deriveVars(Grant)
    /\ WF_deriveVars(EndWatermark)
    /\ \A d \in Derivers :
          WF_deriveVars(\/ BeginPass(d) \/ ClaimDirtyScopes(d)
                        \/ LoadSnapshot(d) \/ CommitPass(d))

FairDeriveSpec == DeriveSpec /\ DeriveFairness

\* C-C3, C-P5: once the writers rest, every dirty scope is derived and every
\* work item is that of the cache, although passes fail and the watermarker
\* keeps asking for the fence.  (A scope whose row is locked at every claim
\* is skipped at every claim, so writers that never rest can starve it.)
DirtyIsDerived ==
    <>[](\A w \in Writers : tx[w].pc = "idle") =>
        <>[](dirty = {} /\ \A s \in Scopes : items[s] = Snapshot(s))
=============================================================================
