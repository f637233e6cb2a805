------------------------------ MODULE Backfill ------------------------------
(***************************************************************************)
(* Onboarding an installation (internal/fetch/backfill.go, contract C-O5): *)
(* an installation cursor pages through the repositories, one cursor per   *)
(* repository walks metadata, stacks and pull requests and then waits for  *)
(* the refreshes it issued, and the installation waits for all of them.    *)
(* Each step is a River job that commits the next cursor together with the *)
(* next job; nothing but that chain of jobs moves a backfill on.           *)
(***************************************************************************)
EXTENDS Integers, FiniteSets

CONSTANTS Repos,        \* numbered in listing order
          Onboarded,    \* those whose own backfill (StartBackfill) is done
          PullRequests, \* PR numbers
          InitialPulls, \* the sets of PRs that may be open when the model starts
          BackfillPageSize, \* of both listings
          MaxPullEdits, \* bound on changes to the PR listings and on workers
                        \* that die after their commit
          MaxUnrecorded \* bound on jobs that have returned while River still
                        \* counts them as running

VARIABLES
    openPulls,   \* repository -> open PRs on GitHub
    cursor,      \* Inst or a repository -> its cursor row
    jobs,        \* River's page jobs
    child,       \* backfill_children: repository -> key -> target generation
    requested, refreshed,  \* refresh generations: repository -> key -> number
    pullEdits,
    stable, closed, \* history: PRs open since the scan of their
                          \* repository began, closed during it
    outrun    \* history: a next job was taken for a duplicate of one that
              \* two or more passes later was still not recorded as complete

backfillVars == <<openPulls, cursor, jobs, child, requested, refreshed, pullEdits,
                  stable, closed, outrun>>
upstreamVars == <<openPulls, pullEdits, stable, closed>>

\* What a repository's backfill refreshes besides PRs: its rules, one stack.
Rules == 0
Stack == -1
Keys == PullRequests \cup {Rules, Stack}
Inst == 0   \* owner of the installation's cursor and jobs
Owners == Repos \cup {Inst}
NoCursor == [phase |-> "none", page |-> 0]
NoResult == [keys |-> {}, next |-> 0]

BackfillInit ==
    /\ \E S \in InitialPulls :
         openPulls = [r \in Repos |-> IF r \in Onboarded THEN {} ELSE S]
    /\ cursor = [o \in Owners |-> IF o \in Onboarded THEN [phase |-> "done", page |-> 1]
                                 ELSE NoCursor]
    /\ jobs = {}
    /\ child = [r \in Repos |-> [k \in Keys |-> 0]]
    /\ requested = [r \in Repos |-> [k \in Keys |-> 0]]
    /\ refreshed = [r \in Repos |-> [k \in Keys |-> 0]]
    /\ pullEdits = 0
    /\ stable = openPulls /\ closed = [r \in Repos |-> 0] /\ outrun = FALSE

-----------------------------------------------------------------------------
(* The pull-request cursor: API page, identifiers new in this pass and the *)
(* alternating pass bit in one positive integer.                           *)

Triangle(d) == (d * (d + 1)) \div 2

\* Mutant of EncodePullCursor: passes share their cursors.
EncodeWithoutPass(n, passNew, alternate) ==
    2 * (Triangle((n - 1) + passNew) + passNew) + 1

\* encodePullBackfillCursor
EncodePullCursor(n, passNew, alternate) ==
    2 * (Triangle((n - 1) + passNew) + passNew) + 1 + (IF alternate THEN 1 ELSE 0)

\* decodePullBackfillCursor; its two loops correct the estimated root.
DecodePullCursor(encoded) ==
    LET paired == (encoded - 1) \div 2
        diagonal == CHOOSE d \in 0 .. paired :
                      Triangle(d) <= paired /\ paired < Triangle(d + 1)
        offset == paired - Triangle(diagonal)
    IN  [page |-> diagonal - offset + 1, passNew |-> offset,
         alternate |-> (encoded - 1) % 2 = 1]

-----------------------------------------------------------------------------
(* GitHub                                                                  *)

PageOf(S, n) ==
    LET before(e) == Cardinality({f \in S : f < e})
    IN  [keys |-> {e \in S : /\ (n - 1) * BackfillPageSize <= before(e)
                             /\ before(e) < n * BackfillPageSize},
         next |-> IF Cardinality(S) > n * BackfillPageSize THEN n + 1 ELSE 0]

Scanning(r) == cursor[r].phase = "pull_requests"

\* A pull request is opened, reopened or closed.
EditPulls(r, e) ==
    /\ pullEdits < MaxPullEdits /\ pullEdits' = pullEdits + 1
    /\ openPulls' = [openPulls EXCEPT ![r] = IF e \in @ THEN @ \ {e} ELSE @ \cup {e}]
    /\ stable' =
         [stable EXCEPT ![r] = IF cursor[r].phase \in {"none", "repository", "stacks"}
                                   THEN openPulls'[r] ELSE @ \ {e}]
    /\ closed' = [closed EXCEPT ![r] =
                      IF Scanning(r) /\ e \in openPulls[r] THEN @ + 1 ELSE @]
    /\ UNCHANGED <<cursor, jobs, child, requested, refreshed, outrun>>

\* The refresh worker completes what has been requested for a key.
RefreshChild(r, k) ==
    /\ refreshed[r][k] < requested[r][k]
    /\ refreshed' = [refreshed EXCEPT ![r][k] = requested[r][k]]
    /\ UNCHANGED <<upstreamVars, cursor, jobs, child, requested, outrun>>

-----------------------------------------------------------------------------
(* Jobs and cursors                                                        *)

Args(o, step) == [owner |-> o, phase |-> step.phase, page |-> step.page]
\* History: the pass over the pull requests the job belongs to.
Queued(args, round) ==
    [args |-> args, state |-> "queued", result |-> NoResult, pass |-> round]

\* InsertTx under NewBackfillInsertOptsForQueue: unique by args while a job
\* with them is available, retryable or running.
Insert(js, args, round) ==
    IF \E j \in js : j.args = args THEN js ELSE js \cup {Queued(args, round)}

Become(j, state, result) ==
    (jobs \ {j}) \cup {[j EXCEPT !.state = state, !.result = result]}

\* An existing cursor row is kept.
EnsureInstallationBackfillCursor ==
    IF cursor[Inst].phase = "none" THEN [phase |-> "repositories", page |-> 1]
    ELSE cursor[Inst]

EnsureBackfillCursor(r) ==
    IF cursor[r].phase = "none" THEN [phase |-> "repository", page |-> 1]
    ELSE cursor[r]

\* StartInstallationBackfill: the CLI starts or resumes a backfill.
StartInstallationBackfill ==
    LET step == EnsureInstallationBackfillCursor
    IN  /\ cursor' = [cursor EXCEPT ![Inst] = step]
        /\ jobs' = IF step.phase = "done" THEN jobs ELSE Insert(jobs, Args(Inst, step), 0)
        /\ UNCHANGED <<upstreamVars, child, requested, refreshed, outrun>>

\* A job whose cursor has moved on is done; otherwise it lists its page.
GetInstallationBackfillCursor == cursor[Inst]
GetBackfillCursor(r) == cursor[r]
Current(j) ==
    LET o == j.args.owner
    IN  j.args = Args(o, IF o = Inst THEN GetInstallationBackfillCursor
                         ELSE GetBackfillCursor(o))
FetchedPage(j) ==
    CASE j.args.phase = "repositories" -> PageOf(Repos, j.args.page)
      [] j.args.phase = "stacks" -> [keys |-> {Stack}, next |-> 0]
      [] j.args.phase = "pull_requests" ->
           PageOf(openPulls[j.args.owner], DecodePullCursor(j.args.page).page)
      [] OTHER -> NoResult

\* A child is complete once its target generation is.
MarkCompletedBackfillChildren(r) == {k \in Keys : child[r][k] <= refreshed[r][k]}
CountPendingBackfillChildren(r) ==
    Cardinality(Keys \ MarkCompletedBackfillChildren(r))
CountPendingInstallationRepos ==
    Cardinality({r \in Repos : cursor[r].phase \notin {"none", "done"}})

\* A waiting job snoozes while work is pending.
Pending(o) ==
    IF o = Inst THEN CountPendingInstallationRepos > 0
    ELSE CountPendingBackfillChildren(o) > 0

\* Returned, but not recorded as complete: the job still blocks its args.
Unrecorded == {j \in jobs : j.state = "finishing"}

\* BackfillInstallationPage, BackfillRepoPage: up to the response.
Fetch(j) ==
    /\ j \in jobs /\ j.state = "queued" /\ Cardinality(Unrecorded) < MaxUnrecorded
    /\ j.args.phase = "waiting" /\ Current(j) => ~Pending(j.args.owner)
    /\ jobs' = IF Current(j) THEN Become(j, "fetched", FetchedPage(j))
               ELSE Become(j, "finishing", NoResult)
    /\ UNCHANGED <<upstreamVars, cursor, child, requested, refreshed, outrun>>

\* An error or a crash: the job is retried from its cursor.
JobFails(j) ==
    /\ j \in jobs /\ j.state = "fetched"
    /\ jobs' = Become(j, "queued", NoResult)
    /\ UNCHANGED <<upstreamVars, cursor, child, requested, refreshed, outrun>>

\* The worker dies between its commit and River's record of it: the job is
\* rescued and runs again.
JobRescued(j) ==
    /\ j \in Unrecorded
    /\ pullEdits < MaxPullEdits /\ pullEdits' = pullEdits + 1
    /\ jobs' = Become(j, "queued", NoResult)
    /\ UNCHANGED <<openPulls, stable, closed, cursor, child, requested, refreshed, outrun>>

\* advanceInstallationBackfill: every repository of the page gets a cursor
\* and the job that moves it, unless it is done.
NextInstallationRow(j) ==
    CASE j.args.phase = "repositories" /\ j.result.next # 0 ->
           [phase |-> "repositories", page |-> j.result.next]
      [] j.args.phase = "repositories" /\ j.result.next = 0 ->
           [phase |-> "waiting", page |-> 1]
      [] OTHER -> [phase |-> "done", page |-> 1]

AdvanceInstallationBackfillCursor(rows, step) == [rows EXCEPT ![Inst] = step]

AdvanceInstallation(j) ==
    LET step == NextInstallationRow(j)
        ensured == [o \in Owners |-> IF o \in j.result.keys THEN EnsureBackfillCursor(o)
                                     ELSE cursor[o]]
        started == {Queued(Args(r, ensured[r]), 0) :
                      r \in {q \in j.result.keys : ensured[q].phase # "done"}}
        fresh == {q \in started : \A k \in jobs : k.args # q.args}
        rest == Become(j, "finishing", NoResult) \cup fresh
    IN  /\ cursor' = AdvanceInstallationBackfillCursor(ensured, step)
        /\ jobs' = IF step.phase = "done" THEN rest ELSE Insert(rest, Args(Inst, step), 0)
        /\ UNCHANGED <<child, requested, outrun>>

ListSeenBackfillRefreshKeys(r, keys) == {k \in keys : child[r][k] > 0}

\* unseenBackfillSpecs: PRs that already have a child are not issued again.
Unseen(r, keys) == keys \ ListSeenBackfillRefreshKeys(r, keys)

\* Mutant of NextPullRow: one pass is enough.
OnePassPullRow(j, unseen) ==
    LET at == DecodePullCursor(j.args.page)
    IN  IF j.result.next # 0
        THEN [phase |-> "pull_requests",
              page |-> EncodePullCursor(j.result.next, at.passNew, at.alternate)]
        ELSE [phase |-> "waiting", page |-> 1]

\* advancePullRequestBackfill's switch.
NextPullRow(j, unseen) ==
    LET at == DecodePullCursor(j.args.page)
        passNew == at.passNew + Cardinality(unseen)
    IN  CASE j.result.next # 0 ->
               [phase |-> "pull_requests",
                page |-> EncodePullCursor(j.result.next, passNew, at.alternate)]
          [] j.result.next = 0 /\ passNew > 0 ->
               [phase |-> "pull_requests",
                page |-> EncodePullCursor(1, 0, ~at.alternate)]
          [] OTHER -> [phase |-> "waiting", page |-> 1]

NextRepoRow(j, specs) ==
    CASE j.args.phase = "repository" -> [phase |-> "stacks", page |-> 1]
      [] j.args.phase = "stacks" /\ j.result.next # 0 ->
           [phase |-> "stacks", page |-> j.result.next]
      [] j.args.phase = "stacks" /\ j.result.next = 0 ->
           [phase |-> "pull_requests", page |-> 1]
      [] j.args.phase = "pull_requests" -> NextPullRow(j, specs)
      [] OTHER -> [phase |-> "done", page |-> 1]

AdvanceBackfillCursor(r, step) == [cursor EXCEPT ![r] = step]

\* persistBackfillChildren: the generations that refresh these keys.  A target
\* never goes down.
UpsertBackfillChildren(r, generation) ==
    [child EXCEPT ![r] =
       [k \in Keys |-> IF k \in DOMAIN generation /\ generation[k] > @[k]
                       THEN generation[k] ELSE @[k]]]

\* advanceBackfill, advancePullRequestBackfill: refreshes, children,
\* cursor and next job in one transaction.
AdvanceRepo(j) ==
    LET r == j.args.owner
        specs == CASE j.args.phase = "repository" -> {Rules}
                   [] j.args.phase = "pull_requests" -> Unseen(r, j.result.keys)
                   [] OTHER -> j.result.keys
        step == NextRepoRow(j, specs)
        rest == Become(j, "finishing", NoResult)
        round == IF Scanning(r) /\ j.result.next = 0 THEN j.pass + 1 ELSE j.pass
    IN  /\ cursor' = AdvanceBackfillCursor(r, step)
        /\ requested' = [requested EXCEPT ![r] =
                        [k \in Keys |-> IF k \in specs THEN @[k] + 1 ELSE @[k]]]
        /\ child' = UpsertBackfillChildren(r, [k \in specs |-> requested[r][k] + 1])
        /\ jobs' = IF step.phase = "done" THEN rest ELSE Insert(rest, Args(r, step), round)
        /\ outrun' = (outrun \/ \E k \in rest : k.args = Args(r, step) /\ k.pass + 2 <= round)

\* The transaction re-checks the locked cursor.
CommitPage(j) ==
    /\ j \in jobs /\ j.state = "fetched" /\ Cardinality(Unrecorded) < MaxUnrecorded
    /\ UNCHANGED <<upstreamVars, refreshed>>
    /\ IF ~Current(j)
       THEN /\ jobs' = Become(j, "finishing", NoResult)
            /\ UNCHANGED <<cursor, child, requested, outrun>>
       ELSE IF j.args.owner = Inst THEN AdvanceInstallation(j) ELSE AdvanceRepo(j)

\* River completes the job after the worker has returned.
JobCompleted(j) ==
    /\ j \in Unrecorded
    /\ jobs' = jobs \ {j}
    /\ UNCHANGED <<upstreamVars, cursor, child, requested, refreshed, outrun>>

Working == \E j \in jobs : Fetch(j)
Committing == \E j \in jobs : CommitPage(j)
Finishing ==
    \/ \E j \in jobs : JobCompleted(j)
    \/ \E r \in Repos \ Onboarded, k \in Keys : RefreshChild(r, k)

BackfillNext ==
    \/ \E r \in Repos \ Onboarded, e \in PullRequests : EditPulls(r, e)
    \/ StartInstallationBackfill
    \/ \E j \in jobs : JobFails(j) \/ JobRescued(j)
    \/ Working \/ Committing \/ Finishing

\* River works its jobs and the refresh workers theirs, and a job that is
\* retried again and again commits at last; the CLI and GitHub owe nothing.
BackfillFairness ==
    /\ WF_backfillVars(Working)
    /\ SF_backfillVars(Committing)
    /\ WF_backfillVars(Finishing)

BackfillSpec == BackfillInit /\ [][BackfillNext]_backfillVars /\ BackfillFairness

-----------------------------------------------------------------------------

\* The gate of drift sampling: the installation's cursor, every repository's
\* and every child are done.
IsInstallationBackfillDone ==
    /\ cursor[Inst].phase = "done"
    /\ CountPendingInstallationRepos = 0
    /\ \A r \in Repos : CountPendingBackfillChildren(r) = 0

(* C-O5: an installation that is done is settled                           *)
(* (IsInstallationBackfillDone) and has refreshed every repository's rules *)
(* and stacks and every PR that was open throughout its scan, although     *)
(* pages shift under the scan and jobs fail; like the sweep's, the overlap *)
(* pass is good for one removal.                                           *)
BackfillIsComplete ==
    cursor[Inst].phase = "done" =>
      /\ IsInstallationBackfillDone
      /\ \A r \in Repos \ Onboarded :
           /\ cursor[r].phase = "done"
           /\ \A k \in {Rules, Stack} \cup (IF closed[r] <= 1 THEN stable[r] ELSE {}) :
                child[r][k] > 0

(* C-O5: a started backfill finishes: no next job is lost to River's       *)
(* uniqueness because the job before it, or one of the pass before, is not *)
(* recorded as complete yet (the alternating pass bit), and crashes lose   *)
(* none.  The bit repeats after two passes: a job as old as that, still    *)
(* unrecorded, does swallow the next one (outrun).                         *)
BackfillFinishes ==
    cursor[Inst].phase # "none" ~> (cursor[Inst].phase = "done" \/ outrun)
=============================================================================
