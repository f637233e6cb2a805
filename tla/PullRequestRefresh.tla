------------------------- MODULE PullRequestRefresh -------------------------
(***************************************************************************)
(* How one cached pull request follows its remote truth.  Three kinds of    *)
(* job fetch the same entity and write the same row:                        *)
(*                                                                         *)
(*   - the direct refresh, behind the pointer of RefreshQueue, fenced by    *)
(*     the generation it started from (fetch.RefreshPR);                    *)
(*   - the page of a branch push, fenced by the exact generations the push  *)
(*     claimed (fetch.ReconcileBranchPage);                                 *)
(*   - the stack-membership resolution, which belongs to another pointer    *)
(*     and carries no fence on this one (fetch.ResolveStackMembership).     *)
(*                                                                         *)
(* Every one takes an observation token (the entity's committed version),   *)
(* fetches without any lock, and then compares and writes in one short      *)
(* transaction (store.withEntityTx).  A push delivery also moves the cached *)
(* SHA itself when it still equals the push's before-SHA, without advancing *)
(* the version.                                                            *)
(*                                                                         *)
(* The remote state is a number: version r is what GitHub answers after     *)
(* the r-th push.  Stamp gives each version GitHub's updated_at, which      *)
(* need not move when a branch moves.                                       *)
(***************************************************************************)
EXTENDS RefreshQueue

CONSTANTS MaxRemote,     \* bound on pushes at GitHub
          MaxPageFaults, \* bound on failed page executions
          MaxTries,      \* observationRetryLimit
          Memberships,   \* bound on stack-membership executions
          Stamp          \* updated_at of each remote version

ASSUME PullMaxRemote == MaxRemote \in Nat
ASSUME PullMaxPageFaults == MaxPageFaults \in Nat
ASSUME PullMaxTries == MaxTries \in Nat \ {0}
ASSUME PullMemberships == Memberships \in Nat
ASSUME PullStamp ==
    /\ Stamp \in [0..MaxRemote -> Nat]
    /\ \A a, b \in 0..MaxRemote : a <= b => Stamp[a] <= Stamp[b]

VARIABLES remote,        \* GitHub's current version
          undelivered,   \* pushes whose webhook has not been dispatched
          signalled,     \* remote version when the last signal was dispatched
          row,           \* the cached row: its SHA's version and updated_at
          version,       \* entity_observation_versions.version
          branchGen,     \* branch_reconciliations.generation
          page,          \* manifest row and River job of each push's page
          fetch,         \* the executions that fetch this entity
          resolutions,   \* membership executions so far (model bound only)
          pageFailures   \* failed page executions so far (model bound only)

storeVars == <<row, version>>
remoteVars == <<remote, undelivered, signalled>>
branchVars == <<branchGen, page, pageFailures>>
fetchVars == <<fetch, resolutions>>
prVars == <<queueVars, remoteVars, storeVars, branchVars, fetchVars>>

Remote == 0..MaxRemote
Pages == 1..MaxRemote
Direct == 0
Membership == MaxRemote + 1
Fetchers == Pages \cup {Direct, Membership}

IdleFetch == [pc |-> "idle", obs |-> 0, got |-> 0, same |-> FALSE, tries |-> 0]
NoPage == [status |-> "none", job |-> "none", target |-> 0]

PullInit ==
    /\ QueueInit
    /\ remote = 0
    /\ undelivered = {}
    /\ signalled = 0
    /\ row = [sha |-> 0, at |-> Stamp[0]]
    /\ version = 0
    /\ branchGen = 0
    /\ page = [b \in Pages |-> NoPage]
    /\ fetch = [f \in Fetchers |-> IdleFetch]
    /\ resolutions = 0
    /\ pageFailures = 0

-----------------------------------------------------------------------------
(* GitHub and the dispatcher                                               *)

RemotePush ==
    /\ remote < MaxRemote
    /\ remote' = remote + 1
    /\ undelivered' = undelivered \cup {remote + 1}
    /\ UNCHANGED <<signalled, queueVars, storeVars, branchVars, fetchVars>>

\* A direct signal for the pull request, with or without a remote change.
DispatchDirect ==
    /\ InsertRefreshes
    /\ signalled' = remote
    /\ UNCHANGED <<remote, undelivered, storeVars, branchVars, fetchVars>>

\* ApplyBranchPushTx and the page insert, for the push r-1 -> r, in any
\* order: the branch generation advances and supersedes the pending pages of
\* older ones, the exact before-SHA hint is applied, the direct generation is
\* claimed, and the page and its job are recorded.
DispatchPush(r) ==
    /\ r \in undelivered
    /\ undelivered' = undelivered \ {r}
    /\ signalled' = remote
    /\ branchGen' = branchGen + 1
    /\ row' = IF row.sha = r - 1 THEN [row EXCEPT !.sha = r] ELSE row
    /\ ClaimGeneration({})
    /\ page' = [b \in Pages |->
                  CASE b = branchGen + 1 ->
                         [status |-> "pending", job |-> "queued",
                          target |-> gen + 1]
                    [] page[b].status = "pending" ->
                         [page[b] EXCEPT !.status = "superseded"]
                    [] OTHER -> page[b]]
    /\ UNCHANGED <<remote, version, pageFailures, fetchVars>>

-----------------------------------------------------------------------------
(* Fetching: the part every execution shares                               *)

BeginObservation(f) ==
    /\ fetch[f].pc = "started"
    /\ fetch' = [fetch EXCEPT ![f].pc = "observed", ![f].obs = version]
    /\ UNCHANGED <<queueVars, remoteVars, storeVars, branchVars, resolutions>>

\* The remote read.  Only the membership resolution sends the row's ETag, so
\* only it can be answered 304 while the row still holds what GitHub has.
Fetch(f) ==
    /\ fetch[f].pc = "observed"
    /\ \E same \in IF f = Membership THEN {FALSE, row.sha = remote}
                   ELSE {FALSE} :
         fetch' = [fetch EXCEPT ![f].pc = "fetched", ![f].got = remote,
                                ![f].same = same]
    /\ UNCHANGED <<queueVars, remoteVars, storeVars, branchVars, resolutions>>

Current(f) == fetch[f].obs = version

\* checkRefreshGenerationFence for the direct job's snapshot
NeverSuperseded == FALSE
Superseded == gen # started[Plain] /\ done > started[Plain]

\* checkBranchReconciliationFence for a page
Fenced(b) == gen = page[b].target /\ branchGen = b

\* UpsertPullRequestWriteIfNewer (or TouchPullRequest on a 304) and
\* AdvanceEntityObservationVersion.
ApplyPullRequest(f) ==
    /\ IF fetch[f].same \/ Stamp[fetch[f].got] < row.at
       THEN UNCHANGED row
       ELSE row' = [sha |-> fetch[f].got, at |-> Stamp[fetch[f].got]]
    /\ version' = version + 1

-----------------------------------------------------------------------------
(* The direct refresh                                                      *)

StartDirect ==
    /\ Start(Plain)
    /\ fetch' = [fetch EXCEPT ![Direct] = [IdleFetch EXCEPT !.pc = "started"]]
    /\ UNCHANGED <<remoteVars, storeVars, branchVars, resolutions>>

ApplyDirect ==
    /\ fetch[Direct].pc = "fetched"
    /\ Current(Direct)
    /\ IF Superseded THEN UNCHANGED storeVars ELSE ApplyPullRequest(Direct)
    /\ fetch' = [fetch EXCEPT ![Direct].pc = "applied"]
    /\ UNCHANGED <<queueVars, remoteVars, branchVars, resolutions>>

\* retrySupersededObservation: a conflict refetches, up to the limit.
RetryObservation ==
    /\ fetch[Direct].pc = "fetched"
    /\ ~Current(Direct)
    /\ fetch[Direct].tries + 1 < MaxTries
    /\ fetch' = [fetch EXCEPT ![Direct].pc = "started", ![Direct].tries = @ + 1]
    /\ UNCHANGED <<queueVars, remoteVars, storeVars, branchVars, resolutions>>

CompleteDirect ==
    /\ fetch[Direct].pc = "applied"
    /\ CompleteRefresh(Plain)
    /\ fetch' = [fetch EXCEPT ![Direct] = IdleFetch]
    /\ UNCHANGED <<remoteVars, storeVars, branchVars, resolutions>>

\* A fetch error, exhausted observation retries, a failed completion or a
\* crash ends the execution; River retries or discards the job.
FailDirect ==
    /\ RetryJob(Plain) \/ DiscardJob(Plain)
    /\ fetch' = [fetch EXCEPT ![Direct] = IdleFetch]
    /\ UNCHANGED <<remoteVars, storeVars, branchVars, resolutions>>

Reconcile ==
    /\ ListOutstanding \/ ReinsertPointer
    /\ UNCHANGED <<remoteVars, storeVars, branchVars, fetchVars>>

-----------------------------------------------------------------------------
(* The page of a branch push                                               *)

\* A page that is no longer pending, or no longer of the current branch
\* generation, ends without remote work.
StartPage(b) ==
    /\ page[b].job = "queued"
    /\ IF page[b].status = "pending" /\ branchGen = b
       THEN /\ page' = [page EXCEPT ![b].job = "running"]
            /\ fetch' = [fetch EXCEPT
                           ![b] = [IdleFetch EXCEPT !.pc = "started"]]
       ELSE /\ page' = [page EXCEPT ![b].job = "none"]
            /\ UNCHANGED fetch
    /\ UNCHANGED <<queueVars, remoteVars, storeVars, branchGen, pageFailures, resolutions>>

\* The target's transaction: an observation conflict and a fence mismatch are
\* both ErrBranchReconciliationSuperseded, which is not retried.
ApplyPage(b) ==
    /\ fetch[b].pc = "fetched"
    /\ IF Current(b) /\ Fenced(b)
       THEN ApplyPullRequest(b)
       ELSE UNCHANGED storeVars
    /\ fetch' = [fetch EXCEPT ![b].pc = "applied"]
    /\ UNCHANGED <<queueVars, remoteVars, branchVars, resolutions>>

\* The bookkeeping transaction, under the lock of the branch row.
CompletePage(b) ==
    /\ fetch[b].pc = "applied"
    /\ page' = [page EXCEPT ![b].job = "none",
                            ![b].status = IF branchGen = b /\ @ = "pending"
                                          THEN "completed" ELSE @]
    /\ fetch' = [fetch EXCEPT ![b] = IdleFetch]
    /\ UNCHANGED <<queueVars, remoteVars, storeVars>>
    /\ UNCHANGED <<branchGen, pageFailures, resolutions>>

\* The page's job fails or its process dies; no reconciler inserts it again.
FailPage(b) ==
    /\ page[b].job = "running"
    /\ pageFailures < MaxPageFaults
    /\ pageFailures' = pageFailures + 1
    /\ \E next \in {"queued", "none"} : page' = [page EXCEPT ![b].job = next]
    /\ fetch' = [fetch EXCEPT ![b] = IdleFetch]
    /\ UNCHANGED <<queueVars, remoteVars, storeVars, branchGen, resolutions>>

-----------------------------------------------------------------------------
(* The stack-membership resolution                                         *)

StartMembership ==
    /\ fetch[Membership].pc = "idle"
    /\ resolutions < Memberships
    /\ resolutions' = resolutions + 1
    /\ fetch' = [fetch EXCEPT ![Membership] = [IdleFetch EXCEPT !.pc = "started"]]
    /\ UNCHANGED <<queueVars, remoteVars, storeVars, branchVars>>

\* A conflict refetches; the retry limit and errors end the execution.
ApplyMembership ==
    /\ fetch[Membership].pc = "fetched"
    /\ IF Current(Membership) THEN ApplyPullRequest(Membership)
       ELSE UNCHANGED storeVars
    /\ \E next \in IF Current(Membership) THEN {"idle"}
                   ELSE {"started", "idle"} :
         fetch' = [fetch EXCEPT ![Membership] = [IdleFetch EXCEPT !.pc = next]]
    /\ UNCHANGED <<queueVars, remoteVars, branchVars, resolutions>>

-----------------------------------------------------------------------------
PageStep(b) == StartPage(b) \/ ApplyPage(b) \/ CompletePage(b) \/ FailPage(b)

PullNext ==
    \/ RemotePush
    \/ DispatchDirect
    \/ \E r \in undelivered : DispatchPush(r)
    \/ \E f \in Fetchers : BeginObservation(f) \/ Fetch(f)
    \/ StartDirect \/ ApplyDirect \/ RetryObservation
    \/ CompleteDirect \/ FailDirect \/ Reconcile
    \/ \E b \in Pages : PageStep(b)
    \/ StartMembership \/ ApplyMembership

PullSpec == PullInit /\ [][PullNext]_prVars

\* River runs queued jobs, an execution's steps happen, the reconciler is
\* periodic.
PullFairness ==
    /\ \A f \in Fetchers : WF_prVars(BeginObservation(f) \/ Fetch(f))
    /\ WF_prVars(StartDirect)
    /\ WF_prVars(ApplyDirect \/ RetryObservation)
    /\ WF_prVars(CompleteDirect)
    /\ WF_prVars(Reconcile)
    /\ \A b \in Pages :
         WF_prVars(StartPage(b) \/ ApplyPage(b) \/ CompletePage(b))

FairPullSpec == PullSpec /\ PullFairness

-----------------------------------------------------------------------------
(* Properties                                                              *)

\* C-C2: whatever order responses arrive in, the cached SHA never goes back
\* to an older remote version, although responses of equal updated_at are
\* written.  The observation version orders the fetches; the generation
\* fences keep a response from before a push from undoing the push's hint.
\* Membership resolutions have no such fence: one that fetched before a push
\* can win over the push's page.
CacheNeverRegresses == [][resolutions' = 0 => row'.sha >= row.sha]_prVars

\* The system has nothing left to do for this pull request.
Quiescent ==
    /\ ~Outstanding
    /\ \A v \in Variants : ~Live(v)
    /\ \A b \in Pages : page[b].status # "pending"

\* C-I4, C-Q1: signals may be late, out of order, coalesced onto a running
\* job, claimed by a push or superseded by one; when nothing is left to do,
\* the row shows at least what GitHub had when the last of them arrived
\* (membership resolutions aside).
QuiescentIsFresh == Quiescent /\ resolutions = 0 => row.sha >= signalled

\* A discarded page job, which nothing inserts again.
Abandoned(b) == page[b].status = "pending" /\ page[b].job = "none"

\* Every signal eventually shows in the row, through coalescing, discarded
\* pointers, superseded pages and failed page jobs, unless River discards the
\* page job of the current push or a membership resolution interferes.
SignalsReachTheRow ==
    []<>(\/ row.sha >= signalled
         \/ \E b \in Pages : Abandoned(b)
         \/ resolutions > 0)
=============================================================================
