---------------------------- MODULE BranchPages ----------------------------
(***************************************************************************)
(* Reconciliation after a push to a branch many pull requests and stacks   *)
(* depend on: the push advances the branch's generation, claims a          *)
(* generation of every target, and records a manifest of pages with one    *)
(* job each (store.ApplyBranchPushTx, RecordBranchReconciliationPagesTx,   *)
(* dispatch.branchReconciliationPages).  A page's execution refreshes its  *)
(* targets concurrently, each behind a fence, then completes the page and, *)
(* with the last page, the reconciliation (fetch.ReconcileBranchPage).     *)
(*                                                                         *)
(* PullRequestRefresh models how the write of one target is fenced; here a *)
(* refresh is one step and what matters is the manifest: pages that fail,  *)
(* run twice because River rescued a job that was still running, are       *)
(* overtaken by a newer push, or finish at the same time.                  *)
(***************************************************************************)
EXTENDS Integers, Sequences

CONSTANTS TargetCount,  \* pull requests and stacks that may be on the branch
          Signalled,    \* targets that are also refreshed directly
          PageSize,     \* Config.BranchPageSize
          MaxPushes,    \* bound on pushes
          MaxDisturbances \* bound on direct signals, failed targets, rescued jobs

ASSUME BranchConstants ==
    /\ TargetCount \in Nat /\ PageSize \in Nat \ {0} /\ MaxPushes \in Nat
    /\ Signalled \subseteq 1 .. TargetCount

VARIABLES
    branch,     \* the branch_reconciliations row
    manifest,   \* its pages: generation -> sequence of pages
    intents,    \* target -> refresh_intent_generations.generation
    observed,   \* target -> push its cached row reflects
    direct,     \* targets with a direct refresh on its way
    pageJobs,   \* generation and page -> its River job
    executions, \* generation, page and worker -> its execution
    disturbances \* how many of them so far

pageVars == <<branch, manifest, intents, observed, direct, pageJobs, executions, disturbances>>

Targets == 1 .. TargetCount
Generations == 1 .. MaxPushes
PageCount(n) == (n + PageSize - 1) \div PageSize
Workers == 1 .. 2
Slots == Generations \X (1 .. PageCount(TargetCount))
NoExecution == [pc |-> "idle", todo |-> {}, failed |-> FALSE, cancelled |-> FALSE]

BranchInit ==
    /\ branch = [generation |-> 0, pages |-> 0, done |-> TRUE]
    /\ manifest = [g \in Generations |-> <<>>]
    /\ intents = [t \in Targets |-> 0] /\ observed = [t \in Targets |-> 0]
    /\ direct = {}
    /\ pageJobs = [s \in Slots |-> "none"]
    /\ executions = [x \in Slots \X Workers |-> NoExecution]
    /\ disturbances = 0

-----------------------------------------------------------------------------
(* The dispatcher                                                          *)

\* branchReconciliationPages: the k-th page of the first n targets.
PageTargets(n, k) == {t \in 1 .. n : (k - 1) * PageSize < t /\ t <= k * PageSize}

\* BeginBranchReconciliation: pending pages of older generations lapse.
BeginBranchReconciliation(pages) ==
    [k \in DOMAIN pages |-> IF pages[k].status = "pending"
                            THEN [pages[k] EXCEPT !.status = "superseded"] ELSE pages[k]]

\* The n targets that are on the branch when it is pushed.
ListBranchReconciliationGenerationKeys(n) == 1 .. n

\* AdvanceBranchReconciliationTargetGenerations: the claim also completes
\* the generation, so a direct refresh that is queued has nothing to do.
AdvanceTargetGenerations(keys) ==
    [t \in Targets |-> IF t \in keys THEN intents[t] + 1 ELSE intents[t]]

\* RecordBranchReconciliationPagesTx: the page rows and the branch's count.
PageRecords(n, claims) ==
    [k \in 1 .. PageCount(n) |->
       [status |-> "pending", targets |-> PageTargets(n, k), claims |-> claims]]

RecordBranchReconciliationPages(g, n) ==
    [generation |-> g, pages |-> PageCount(n), done |-> PageCount(n) = 0]

\* ApplyBranchPushTx, RecordBranchReconciliationPagesTx and the page jobs, in
\* one transaction, for a push with n targets on the branch.
Push(n) ==
    LET g == branch.generation + 1
        keys == ListBranchReconciliationGenerationKeys(n)
        claims == AdvanceTargetGenerations(keys)
    IN  /\ branch.generation < MaxPushes
        /\ branch' = RecordBranchReconciliationPages(g, n)
        /\ manifest' = [h \in Generations |-> IF h = g THEN PageRecords(n, claims)
                                              ELSE BeginBranchReconciliation(manifest[h])]
        /\ intents' = claims
        /\ direct' = direct \ keys
        /\ pageJobs' = [s \in Slots |-> IF s[1] = g /\ s[2] <= PageCount(n) THEN "queued"
                                        ELSE pageJobs[s]]
        /\ UNCHANGED <<observed, executions, disturbances>>

Disturb == disturbances < MaxDisturbances /\ disturbances' = disturbances + 1

\* A direct signal for a target and, later, its refresh.
Signal(t) ==
    /\ Disturb
    /\ intents' = [intents EXCEPT ![t] = @ + 1]
    /\ direct' = direct \cup {t}
    /\ UNCHANGED <<branch, manifest, observed, pageJobs, executions>>

DirectRefresh(t) ==
    /\ t \in direct /\ direct' = direct \ {t}
    /\ observed' = [observed EXCEPT ![t] = branch.generation]
    /\ UNCHANGED <<branch, manifest, intents, pageJobs, executions, disturbances>>

-----------------------------------------------------------------------------
(* A page's executions                                                     *)

\* GetBranchReconciliationPage, and the row lock of a completion, which fails
\* for a generation that is no longer the branch's.
Page(s) == manifest[s[1]][s[2]]
Current(s) == branch.generation = s[1]

\* Mutants of Finalized: with pages pending; and counting only pages that
\* were complete before this one.
FinalizedEarly(s, pages) ==
    IF Current(s) /\ branch.pages > 0 THEN [branch EXCEPT !.done = TRUE] ELSE branch

FinalizedBefore(s, pages) ==
    IF /\ Current(s) /\ branch.pages > 0 /\ Len(pages) = branch.pages
       /\ \A k \in DOMAIN pages : manifest[s[1]][k].status # "pending"
    THEN [branch EXCEPT !.done = TRUE] ELSE branch

\* FinalizeBranchReconciliation, over the pages as they are then.
Finalized(s, pages) ==
    IF /\ Current(s) /\ branch.pages > 0 /\ Len(pages) = branch.pages
       /\ \A k \in DOMAIN pages : pages[k].status # "pending"
    THEN [branch EXCEPT !.done = TRUE] ELSE branch

Finish(s, w) ==
    /\ pageJobs' = [pageJobs EXCEPT ![s] = "finished"]
    /\ executions' = [executions EXCEPT ![<<s, w>>] = NoExecution]

\* healBranchReconciliationCompletion
Heal(s) == branch' = Finalized(s, manifest[s[1]])

\* The page is pending and its generation is the branch's.
StartBranchReconciliationPage(s) == Page(s).status = "pending" /\ Current(s)
HeartbeatBranchReconciliationPage(s) == Page(s).status = "pending" /\ Current(s)

\* A page that is not started is finished; a completed one heals its branch.
Begin(s, w) ==
    /\ IF StartBranchReconciliationPage(s)
       THEN /\ executions' = [executions EXCEPT ![<<s, w>>] =
                                [NoExecution EXCEPT !.pc = "running", !.todo = Page(s).targets]]
            /\ pageJobs' = [pageJobs EXCEPT ![s] = "running"]
            /\ UNCHANGED branch
       ELSE /\ IF Page(s).status = "completed" THEN Heal(s) ELSE UNCHANGED branch
            /\ Finish(s, w)
    /\ UNCHANGED <<manifest, intents, observed, direct>>

StartPage(s) ==
    /\ pageJobs[s] = "queued" /\ executions[<<s, 1>>].pc = "idle"
    /\ Begin(s, 1) /\ UNCHANGED disturbances

\* River rescues a job it believes stuck, and runs it a second time.
RescuePage(s) ==
    /\ pageJobs[s] = "running" /\ executions[<<s, 2>>].pc = "idle"
    /\ Disturb
    /\ Begin(s, 2)

\* checkBranchReconciliationFence
Fenced(s, t) == Current(s) /\ intents[t] = Page(s).claims[t]

RefreshTarget(s, w, t) ==
    /\ t \in executions[<<s, w>>].todo
    /\ executions' = [executions EXCEPT ![<<s, w>>].todo = @ \ {t}]
    /\ observed' = IF Fenced(s, t) THEN [observed EXCEPT ![t] = branch.generation] ELSE observed
    /\ UNCHANGED <<branch, manifest, intents, direct, pageJobs, disturbances>>

TargetFails(s, w, t) ==
    /\ t \in executions[<<s, w>>].todo
    /\ Disturb
    /\ executions' = [executions EXCEPT ![<<s, w>>].todo = @ \ {t}, ![<<s, w>>].failed = TRUE]
    /\ UNCHANGED <<branch, manifest, intents, observed, direct, pageJobs>>

\* HeartbeatBranchReconciliationPage finds the page no longer pending: the
\* targets still running are cancelled.
Heartbeat(s, w) ==
    /\ executions[<<s, w>>].pc = "running" /\ ~executions[<<s, w>>].cancelled
    /\ ~HeartbeatBranchReconciliationPage(s)
    /\ executions' = [executions EXCEPT ![<<s, w>>].todo = {}, ![<<s, w>>].cancelled = TRUE]
    /\ UNCHANGED <<branch, manifest, intents, observed, direct, pageJobs, disturbances>>

\* What follows the last target: the page that changed under the execution,
\* the failed page, the page overtaken by a push, and the completed one.
CompleteBranchReconciliationPage(s) == [manifest[s[1]] EXCEPT ![s[2]].status =
                   IF @ = "pending" THEN "completed" ELSE @]

CompletePage(s, w) ==
    /\ executions[<<s, w>>].pc = "running" /\ executions[<<s, w>>].todo = {}
    /\ IF executions[<<s, w>>].cancelled
       THEN /\ IF Page(s).status = "completed" THEN Heal(s) ELSE UNCHANGED branch
            /\ Finish(s, w) /\ UNCHANGED manifest
       ELSE IF executions[<<s, w>>].failed
       THEN /\ pageJobs' = [pageJobs EXCEPT ![s] = IF @ = "running" THEN "queued" ELSE @]
            /\ executions' = [executions EXCEPT ![<<s, w>>] = NoExecution]
            /\ UNCHANGED <<branch, manifest>>
       ELSE IF ~Current(s) THEN Finish(s, w) /\ UNCHANGED <<branch, manifest>>
       ELSE /\ manifest' = [manifest EXCEPT ![s[1]] = CompleteBranchReconciliationPage(s)]
            /\ branch' = Finalized(s, CompleteBranchReconciliationPage(s))
            /\ Finish(s, w)
    /\ UNCHANGED <<intents, observed, direct, disturbances>>

Working(s, w) ==
    \/ \E t \in Targets : RefreshTarget(s, w, t)
    \/ CompletePage(s, w)

Reconciling ==
    \/ \E s \in Slots : StartPage(s)
    \/ \E s \in Slots, w \in Workers : Working(s, w)

BranchNext ==
    \/ \E n \in {0, TargetCount} : Push(n)
    \/ \E t \in Signalled : Signal(t) \/ DirectRefresh(t)
    \/ \E s \in Slots : RescuePage(s)
    \/ \E s \in Slots, w \in Workers :
         Heartbeat(s, w) \/ \E t \in Targets : TargetFails(s, w, t)
    \/ Reconciling

\* River runs the page jobs it holds, and their goroutines run.
BranchFairness == WF_pageVars(Reconciling)

BranchSpec == BranchInit /\ [][BranchNext]_pageVars /\ BranchFairness

-----------------------------------------------------------------------------

OnBranch == {t \in Targets : \E k \in DOMAIN manifest[branch.generation] :
                               t \in manifest[branch.generation][k].targets}

(* A reconciliation marked complete has observed every target since the    *)
(* push, except those a direct refresh is on its way for: a page that      *)
(* failed, lapsed or was left half done by a second execution completes    *)
(* nothing.                                                                *)
CompletionCoversTargets ==
    branch.generation > 0 /\ branch.done =>
      \A t \in OnBranch : observed[t] = branch.generation \/ t \in direct

(* Every push is reconciled to the end, unless a newer one takes over      *)
(* (pushes end, so at last none is open): retries, duplicates and pages    *)
(* that finish together included.                                          *)
ReconciliationCompletes == []<>(branch.generation > 0 => branch.done)
=============================================================================
