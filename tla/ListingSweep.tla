---------------------------- MODULE ListingSweep ----------------------------
(***************************************************************************)
(* One scope of the list-based sweep (internal/sweep/reconcile.go): a      *)
(* persisted cursor walks the numbered pages of an authoritative GitHub    *)
(* listing, one River job per page, and what the cache holds but no page   *)
(* showed is verified (contracts C-R2 and C-R3).  The listing changes      *)
(* while it is walked, so pull-request sweeps repeat it until a whole pass *)
(* adds nothing.  Refreshes, modelled in full in PullRequestRefresh, are   *)
(* here one step that brings a row in line with GitHub.                    *)
(***************************************************************************)
EXTENDS Integers, FiniteSets

CONSTANTS Pulls,         \* PR numbers: the listing is sorted by creation
          PageSize,
          OverlapPasses, \* the sweep kind is pull_requests
          Listings,      \* what GitHub may list when the model starts
          MaxEdits,      \* bound on changes to the listing
          MaxFaults      \* bound on failed page jobs and repository renames

ASSUME SweepConstants ==
    /\ IsFiniteSet(Pulls) /\ Pulls \subseteq Nat
    /\ PageSize \in Nat \ {0}
    /\ \A S \in Listings : S \subseteq Pulls

VARIABLES
    listed,   \* entities GitHub lists as open
    version,  \* per entity, moved by every edit (updated_at in page bodies)
    cached,   \* live open rows of the scope
    refresh,  \* entities with an outstanding refresh generation
    live,     \* the scope's repository name is owned by a live repository
    row,      \* the sweep_cursors row
    seen,     \* sweep_seen_keys
    pages,    \* sweep_pages, by cursor
    job,      \* the page job of each cursor (River keeps them unique by args)
    edits, faults,
    throughout, removals  \* history: entities listed since the sweep began
                          \* and how many were removed while it ran

sweepVars == <<listed, version, cached, refresh, live, row, seen, pages, job,
               edits, faults, throughout, removals>>
listingVars == <<listed, version, edits>>
historyVars == <<throughout, removals>>

Pages == 1 .. (1 + Cardinality(Pulls) \div PageSize)
End == 0                \* '' as a cursor: no next page
NoPage == [etag |-> {}, next |-> -1]
NoPageJob == [state |-> "none", page |-> NoPage, changed |-> FALSE]
NoRow == [exists |-> FALSE, cursor |-> End, started |-> FALSE, done |-> FALSE,
          passNew |-> 0]

SweepInit ==
    /\ listed \in Listings
    /\ cached \in {{}, Pulls}
    /\ version = [e \in Pulls |-> 0]
    /\ refresh = {} /\ live = TRUE
    /\ row = NoRow /\ seen = {}
    /\ pages = [c \in Pages |-> NoPage]
    /\ job = [c \in Pages |-> NoPageJob]
    /\ edits = 0 /\ faults = 0
    /\ throughout = {} /\ removals = 0

Running == row.exists /\ row.started /\ ~row.done

-----------------------------------------------------------------------------
(* GitHub: the listing, and one page of it.                                *)

\* ListPulls, ListStacks, ListInstallationRepositories.
PageKeys(c) ==
    {e \in listed : LET before == Cardinality({f \in listed : f < e})
                    IN  (c - 1) * PageSize <= before /\ before < c * PageSize}

\* response.NextPage through numericNextCursor.
NextCursor(c) == IF Cardinality(listed) > c * PageSize THEN c + 1 ELSE End

\* A page as GitHub serves it: the ETag is that of the body, the link to the
\* next page is a header the ETag does not cover.
PageNow(c) == [etag |-> {<<e, version[e]>> : e \in PageKeys(c)},
               next |-> NextCursor(c)]

KeysOf(page) == {k[1] : k \in page.etag}

\* A pull request is closed, created or reopened.
Edit(e) ==
    /\ edits < MaxEdits /\ edits' = edits + 1
    /\ listed' = IF e \in listed THEN listed \ {e} ELSE listed \cup {e}
    /\ version' = [version EXCEPT ![e] = @ + 1]
    /\ throughout' = throughout \ {e}
    /\ removals' = IF Running /\ e \in listed THEN removals + 1 ELSE removals
    /\ UNCHANGED <<cached, refresh, live, row, seen, pages, job, faults>>

\* The repository is renamed or tombstoned, or takes the name back.
Rename ==
    /\ faults < MaxFaults /\ faults' = faults + 1
    /\ live' = ~live
    /\ UNCHANGED <<listingVars, historyVars, cached, refresh, row, seen, pages, job>>

\* fetch.Handler refreshes one entity: an open one is cached, one that is
\* closed or gone is not a live open row any more.
Refresh(e) ==
    /\ e \in refresh
    /\ refresh' = refresh \ {e}
    /\ cached' = IF e \in listed THEN cached \cup {e} ELSE cached \ {e}
    /\ UNCHANGED <<listingVars, historyVars, live, row, seen, pages, job, faults>>

-----------------------------------------------------------------------------
(* The sweep                                                               *)

\* InsertTx under listPageInsertOpts: dropped while a job with the same args
\* is available, retryable or running.
InsertPage(jobs, c) ==
    IF jobs[c].state # "none" THEN jobs
    ELSE [jobs EXCEPT ![c].state = "queued"]

\* The repositories a kickoff sweeps are the live ones.
ListSweepRepositories == live

\* ReapOrphanedRepositorySweepCursors drops the cursor of a name no live
\* repository owns, with its pages and seen keys.
ReapScope ==
    /\ ~live /\ row.exists
    /\ row' = NoRow /\ seen' = {} /\ pages' = [c \in Pages |-> NoPage]
    /\ UNCHANGED <<listingVars, historyVars, cached, refresh, live, job, faults>>

EnsureSweepCursor == IF row.exists THEN row ELSE [NoRow EXCEPT !.exists = TRUE]

\* The statement that starts a sweep also forgets the keys the last one saw.
StartSweepCursor ==
    /\ row' = [exists |-> TRUE, cursor |-> 1, started |-> TRUE,
               done |-> FALSE, passNew |-> 0]
    /\ seen' = {}

\* History: a page that was asked for under a cursor row reaped since is older
\* than the sweep that will take it, which then vouches for nothing.
Vouched == IF \E c \in Pages : job[c].state = "fetched" THEN {} ELSE listed

\* A sweep that never started, or that completed, starts over; an unfinished
\* one resumes at its cursor.
StartOrResumeScope ==
    /\ ListSweepRepositories
    /\ IF ~EnsureSweepCursor.started \/ EnsureSweepCursor.done
       THEN StartSweepCursor /\ throughout' = Vouched /\ removals' = 0
       ELSE UNCHANGED <<row, seen, historyVars>>
    /\ job' = InsertPage(job, row'.cursor)
    /\ UNCHANGED <<listingVars, cached, refresh, live, pages, faults>>

GetSweepPage(c) == pages[c]

\* GetSweepCursor: the job's page is still the one the sweep waits for.
OwnsCursor(c) == ~row.done /\ row.cursor = c

\* The conditional request: the stored body's validator still holds.
NotModified(c) ==
    GetSweepPage(c) # NoPage /\ GetSweepPage(c).etag = PageNow(c).etag

\* A 304 takes keys, link and validator from the stored page.
ServedPage(c) == IF NotModified(c) THEN GetSweepPage(c) ELSE PageNow(c)

\* Listed entities behind a page that the stored link still calls the last.
BehindOldEnd(c) ==
    {e \in listed : /\ NotModified(c) /\ GetSweepPage(c).next = End
                    /\ Cardinality({f \in listed : f < e}) >= c * PageSize}

\* ReconcilePage up to the response: a job for another cursor than the row's
\* is done.  History: no sweep vouches for what an old link hides from it.
ReconcilePage(c) ==
    /\ job[c].state = "queued" /\ row.exists
    /\ job' = [job EXCEPT ![c] =
         IF ~OwnsCursor(c) THEN [NoPageJob EXCEPT !.state = "finishing"]
         ELSE [state |-> "fetched", page |-> ServedPage(c),
               changed |-> ~NotModified(c)]]
    /\ throughout' = throughout \ (IF OwnsCursor(c) THEN BehindOldEnd(c) ELSE {})
    /\ UNCHANGED <<listingVars, removals, cached, refresh, live, row, seen,
                   pages, faults>>

\* An error, or a crash: the job is retried.
PageFails(c) ==
    /\ job[c].state = "fetched"
    /\ faults < MaxFaults /\ faults' = faults + 1
    /\ job' = [job EXCEPT ![c] = [NoPageJob EXCEPT !.state = "queued"]]
    /\ UNCHANGED <<listingVars, historyVars, cached, refresh, live, row, seen, pages>>

\* The cursor row is gone: every attempt fails until River discards the job.
PageDiscarded(c) ==
    /\ job[c].state \in {"queued", "fetched"} /\ ~row.exists
    /\ job' = [job EXCEPT ![c] = NoPageJob]
    /\ UNCHANGED <<listingVars, historyVars, cached, refresh, live, row, seen,
                   pages, faults>>

\* Mutant of ListMissingSweepEntityKeys: nothing that disappeared is verified.
NothingMissing(seenNow) == {}

\* Cached live entities of a live repository the sweep has not seen.
ListMissingSweepEntityKeys(seenNow) == IF live THEN cached \ seenNow ELSE {}

\* C-R3: absence from the listing is a hint; a refresh verifies each.
MissingSpecs(seenNow) == ListMissingSweepEntityKeys(seenNow)

\* Mutant of StartsOverlap: the first pass is the last.
NoOverlap(next, passNew) == FALSE

\* The last page of a pull-request pass that saw anything new starts another.
StartsOverlap(next, passNew) == next = End /\ OverlapPasses /\ passNew > 0

\* InsertSweepSeenKeys: the keys that were new are counted for the pass.
InsertSweepSeenKeys(keys) == keys \ seen

UpsertSweepPage(c, page) == [pages EXCEPT ![c] = page]

AdvanceSweepCursor(next, passNew) ==
    [row EXCEPT !.cursor = next, !.passNew = passNew]

RestartSweepCursorPass == [row EXCEPT !.cursor = 1, !.passNew = 0]

CompleteSweepCursor == [row EXCEPT !.cursor = End, !.done = TRUE, !.passNew = 0]

\* persistPage: membership, validator, cursor, next job and refreshes commit
\* together; a job that lost its cursor changes nothing.
PersistPage(c) ==
    LET page == job[c].page
        keys == KeysOf(page)
        new == InsertSweepSeenKeys(keys)
        passNew == row.passNew + Cardinality(new)
        again == StartsOverlap(page.next, passNew)
        last == page.next = End /\ ~again
        rest == [job EXCEPT ![c] = [NoPageJob EXCEPT !.state = "finishing"]]
    IN  /\ job[c].state = "fetched" /\ row.exists
        /\ IF ~OwnsCursor(c)
           THEN job' = rest /\ UNCHANGED <<row, seen, pages, refresh>>
           ELSE /\ seen' = seen \cup new
                /\ pages' = UpsertSweepPage(c, page)
                /\ row' = IF again THEN RestartSweepCursorPass
                          ELSE IF last THEN CompleteSweepCursor
                          ELSE AdvanceSweepCursor(page.next, passNew)
                /\ job' = IF last THEN rest ELSE InsertPage(rest, row'.cursor)
                /\ refresh' = refresh
                     \cup (IF job[c].changed THEN keys ELSE {})
                     \cup (IF last THEN MissingSpecs(seen') ELSE {})
        /\ UNCHANGED <<listingVars, historyVars, cached, live, faults>>

\* River completes the job after the worker has returned.
PageCompleted(c) ==
    /\ job[c].state = "finishing"
    /\ job' = [job EXCEPT ![c] = NoPageJob]
    /\ UNCHANGED <<listingVars, historyVars, cached, refresh, live, row, seen,
                   pages, faults>>

PageJob(c) == ReconcilePage(c) \/ PageDiscarded(c) \/ PersistPage(c) \/ PageCompleted(c)

Kickoff == ReapScope \/ StartOrResumeScope

Sweeping == Kickoff \/ \E c \in Pages : PageJob(c)

SweepNext ==
    \/ \E e \in Pulls : Edit(e) \/ Refresh(e)
    \/ Rename
    \/ \E c \in Pages : PageFails(c)
    \/ Sweeping

\* Kickoffs are periodic (ReconciliationPeriodicJobs) and River works its
\* jobs, each refresh in its turn; GitHub's edits and faults are never owed.
SweepFairness ==
    WF_sweepVars(Sweeping) /\ \A e \in Pulls : WF_sweepVars(Refresh(e))

SweepSpec == SweepInit /\ [][SweepNext]_sweepVars /\ SweepFairness

-----------------------------------------------------------------------------

(* A completed pull-request sweep has seen every entity that was listed    *)
(* from its start to its end, although pages shift under it, jobs fail and *)
(* are retried, and kickoffs resume it.  The overlap pass is only good for *)
(* one removal: two, in two passes, can hide the same entity twice.  A     *)
(* sweep that takes a page its reaped predecessor asked for is left out,   *)
(* and so are the entities BehindOldEnd when a 304 answered: persistPage   *)
(* then takes the end of the listing from the stored page.                 *)
SweepSeesStableEntities ==
    row.done /\ OverlapPasses /\ removals <= 1 => throughout \subseteq seen

(* C-R2, C-R3: once GitHub and the repository's name stop changing, sweeps *)
(* alone bring the cache in line: what is listed is cached and what has    *)
(* disappeared has been verified, whatever page jobs were dropped as       *)
(* duplicates on the way.  Only what stays BehindOldEnd may stay missing:  *)
(* an unchanged full page that was once the last answers 304 for ever.     *)
SweepsConverge ==
    <>[]live => <>[](LET hidden == UNION {BehindOldEnd(c) : c \in Pages}
                     IN  cached \ hidden = listed \ hidden)

(* "The first pass discovers the current listing and schedules an overlap  *)
(* pass" (sweep_db_test.go:659): an unfinished sweep has a page job.       *)
OverlapPassIsScheduled == Running => \E c \in Pages : job[c].state # "none"
=============================================================================
