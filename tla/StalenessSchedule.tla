------------------------- MODULE StalenessSchedule -------------------------
(***************************************************************************)
(* How the sweeper keeps every cached entity of one class within its       *)
(* staleness bound without webhooks (internal/sweep/sweep.go, contract     *)
(* C-R1).  A kickoff runs once per cadence, enqueues a refresh for every   *)
(* row that would come due before the next kickoff could catch it, and     *)
(* spreads the starts over the cadence; listing pages enqueue the same     *)
(* refreshes, spread from their own time (persistPage), and an enqueue     *)
(* that meets a waiting job only ever moves it forward (queue/refresh.go). *)
(* Time is discrete: one unit is any duration that divides Bound.          *)
(***************************************************************************)
EXTENDS Integers, FiniteSets

CONSTANTS Entities,     \* tracked rows of the class, numbered in listing order
          Bound         \* the configured maximum staleness

\* SchedulePlan: scheduleForBound.
Cadence == (Bound * 3) \div 4
CompletionHeadroom == Bound \div 5

\* Config.validate refuses bounds without room for the schedule.
ASSUME ScheduleAssumption ==
    /\ Entities \subseteq Nat /\ IsFiniteSet(Entities)
    /\ Bound \in Nat
    /\ Cadence > 0 /\ CompletionHeadroom > 0
    /\ Cadence + CompletionHeadroom < Bound

VARIABLES
    age,        \* time since the row's last_checked_at
    due,        \* time until the row's refresh has completed, or NoJob
    sinceKick   \* time since the last kickoff of this sweep kind

scheduleVars == <<age, due, sinceKick>>

NoJob == -1

\* dueBefore: rows at least this old are enqueued by a kickoff.
DueAge == Bound - Cadence - CompletionHeadroom

Init ==
    /\ age = [e \in Entities |-> 0]
    /\ due = [e \in Entities |-> NoJob]
    /\ sinceKick = Cadence          \* RunOnStart

-----------------------------------------------------------------------------
(* Inserting refreshes                                                     *)

\* spreadRefreshSchedule: the start of the i-th of n specs, from now, where
\* latestStart is its deadline less the completion headroom.
Spread(i, n, latestStart) ==
    LET even == (Cadence * i) \div (n - 1)
        clamped == IF even > latestStart THEN latestStart ELSE even
    IN  IF n < 2 \/ clamped < 0 THEN 0 ELSE clamped

\* Mutant of Expedited: a waiting job keeps its start.
KeepWaiting(d, start) == IF d = NoJob THEN start + CompletionHeadroom ELSE d

\* InsertRefreshesTxReturning for one spec that is to start "start" from now:
\* a new unique job, or the waiting one made available now when the new start
\* is earlier (JobRetryTx).  A job is allowed CompletionHeadroom once it is
\* available.
Expedited(d, start) ==
    CASE d = NoJob -> start + CompletionHeadroom
      [] d # NoJob /\ d > start + CompletionHeadroom -> CompletionHeadroom
      [] OTHER -> d

\* A start of zero makes every waiting job available at once.
InsertRefreshes(S, start) ==
    due' = [e \in Entities |->
              IF e \in S THEN Expedited(due[e], start[e]) ELSE due[e]]

\* ORDER BY last_checked_at, id.
StaleIndex(S, e) ==
    Cardinality({f \in S : age[f] > age[e] \/ (age[f] = age[e] /\ f < e)})

\* Position of an entity on a listing page.
ListIndex(S, e) == Cardinality({f \in S : f < e})

-----------------------------------------------------------------------------

\* ListStaleOpenPullRequests, ListStaleOpenStacks and their like: rows of the
\* class last checked before dueBefore.
Stale == {e \in Entities : age[e] >= DueAge}

\* enqueueRefreshes, once per cadence.
EnqueueStale(start) ==
    /\ sinceKick = Cadence
    /\ sinceKick' = 0
    /\ InsertRefreshes(Stale, start)
    /\ UNCHANGED age

\* enqueueStalePullRequests, enqueueStaleStacks: starts spread over the cadence.
KickoffOpen ==
    EnqueueStale([e \in Stale |->
        Spread(StaleIndex(Stale, e), Cardinality(Stale),
               Bound - age[e] - CompletionHeadroom)])

\* enqueueStaleRepoRules, enqueueClosedTracked: every refresh at once.
KickoffTracked == EnqueueStale([e \in Stale |-> 0])

\* persistPage: the refreshes of one listing page, with a fresh deadline; an
\* event's single refresh is a page of one.
FanOut(S) ==
    /\ InsertRefreshes(S,
         [e \in S |-> Spread(ListIndex(S, e), Cardinality(S),
                             Bound - CompletionHeadroom)])
    /\ UNCHANGED <<age, sinceKick>>

\* The refresh worker applies its fetch (last_checked_at is the time of the
\* apply); a generation issued meanwhile leaves an immediate follow-up.
RefreshCompletes(e) ==
    /\ due[e] # NoJob /\ due[e] <= CompletionHeadroom
    /\ age' = [age EXCEPT ![e] = 0]
    /\ \E next \in {NoJob, CompletionHeadroom} : due' = [due EXCEPT ![e] = next]
    /\ UNCHANGED sinceKick

\* Time passes; a kickoff is on time and a refresh takes at most the headroom
\* reserved for it once it may start.
Tick ==
    /\ sinceKick < Cadence
    /\ \A e \in Entities : due[e] # 0
    /\ age' = [e \in Entities |-> age[e] + 1]
    /\ due' = [e \in Entities |-> IF due[e] = NoJob THEN NoJob ELSE due[e] - 1]
    /\ sinceKick' = sinceKick + 1

Next ==
    \/ KickoffOpen \/ KickoffTracked
    \/ \E S \in SUBSET Entities : FanOut(S)
    \/ \E e \in Entities : RefreshCompletes(e)
    \/ Tick

Spec == Init /\ [][Next]_scheduleVars

-----------------------------------------------------------------------------

(* C-R1: no row is ever older than the bound, although starts are spread   *)
(* over a whole cadence, a page may push a row's start far out just before *)
(* a kickoff, and integer division rounds every share of the bound.        *)
WithinStalenessBound == \A e \in Entities : age[e] <= Bound
=============================================================================
