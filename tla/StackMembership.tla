-------------------------- MODULE StackMembership --------------------------
(***************************************************************************)
(* Stacks and the pull requests in them: two cached views of one fact.     *)
(* A refresh of either is a conditional request (store validator sent as   *)
(* If-None-Match) whose 304 only confirms the row, whose 404 tombstones it *)
(* and whose 200 is written if newer and then followed up: a stack whose   *)
(* members changed has their membership resolved, a pull request whose     *)
(* membership or head changed has its stacks refreshed (fetch/handler.go,  *)
(* store/stack.go).  Pushes move cached heads ahead of any fetch and take  *)
(* the validators away (ApplyBranchHintTransition).                        *)
(*                                                                         *)
(* A validator is the representation it stands for.  GitHub moves a        *)
(* stack's updated_at when its members change; it need not move that of a  *)
(* pull request when the stack around it changes.  Responses come in       *)
(* order; PullRequestCache models those that do not.                       *)
(***************************************************************************)
EXTENDS Integers, Sequences, FiniteSetsExt

CONSTANTS Stacks, PullRequests, \* numbers, disjoint
          Layouts,     \* stack -> its pull requests, bottom first
          Pushed,      \* pull requests that are pushed to
          Hideable,    \* entities that may answer 404
          MaxMoves,    \* bound on changes at GitHub
          MaxEvents,   \* bound on refreshes asked for from outside
          Workers      \* bound on refreshes under way at once (MaxWorkers)

ASSUME StackConstants ==
    /\ Stacks \cap PullRequests = {} /\ Pushed \subseteq PullRequests
    /\ \A l \in Layouts : l \in [Stacks -> Seq(PullRequests)]

VARIABLES
    layout, sha, stamp, hidden, \* GitHub: members, heads, updated_at, 404s
    pushes,    \* pushes whose webhook has not arrived
    stackRow, pullRow,          \* the cached rows
    queued,    \* refresh jobs that wait
    running,   \* refresh job -> its response and whether it is overtaken
    changes, events,
    settled, mixed  \* history: the layout before the last change, and whether
                    \* rows were refreshed or hidden meanwhile

githubVars == <<layout, sha, stamp, hidden, pushes, changes>>
rowVars == <<stackRow, pullRow>>
historyVars == <<settled, mixed>>
membershipVars == <<githubVars, rowVars, queued, running, events, historyVars>>

Entities == Stacks \cup PullRequests
StackJob(s) == <<"stack", s>>
PullJob(p) == <<"pr", p>>
ResolveJob(p) == <<"membership", p>>
Jobs == {StackJob(s) : s \in Stacks} \cup {PullJob(p) : p \in PullRequests}
          \cup {ResolveJob(p) : p \in PullRequests}

None == 0               \* '' as a validator, NULL as a stack number
NoStack == [state |-> "none", entries |-> <<>>, at |-> 0, etag |-> <<>>]
NoPull == [state |-> "none", in |-> <<None, None>>, sha |-> 0, at |-> 0, etag |-> <<>>]
NoResponse == [code |-> 0, rep |-> <<>>, overtaken |-> FALSE]

-----------------------------------------------------------------------------
(* GitHub                                                                  *)

\* A pull request's stack, its position there and the stack's size.
StackRef(l, p) ==
    LET home == {s \in Stacks : p \in Range(l[s])}
    IN  IF home = {} THEN <<None, None, 0>>
        ELSE LET s == CHOOSE t \in home : TRUE
             IN  <<s, CHOOSE i \in DOMAIN l[s] : l[s][i] = p, Len(l[s])>>

\* GetStack, GetPull: the bodies, which a validator covers.
StackRep(s) == [at |-> stamp[s],
                entries |-> [i \in DOMAIN layout[s] |->
                   <<layout[s][i], sha[layout[s][i]], stamp[layout[s][i]]>>]]
PullRep(p) == [at |-> stamp[p], ref |-> StackRef(layout, p), sha |-> sha[p]]
Rep(e) == IF e \in Stacks THEN StackRep(e) ELSE PullRep(e)

Change == changes < MaxMoves /\ changes' = changes + 1

\* All rows are there and show the members of layout l.
InLine(l) ==
    /\ \A s \in Stacks : stackRow[s].state = "live" /\
         l[s] = [i \in DOMAIN stackRow[s].entries |-> stackRow[s].entries[i][1]]
    /\ \A p \in PullRequests : pullRow[p].state = "live" /\
         pullRow[p].in = <<StackRef(l, p)[1], StackRef(l, p)[2]>>
Quiet == queued = {} /\ \A j \in Jobs : running[j] = NoResponse

\* A stack is modified: members join, leave or change places.
Restack(l) ==
    /\ Change /\ l # layout /\ layout' = l
    /\ stamp' = [e \in Entities |-> IF e \in Stacks /\ l[e] # layout[e]
                                    THEN changes + 1 ELSE stamp[e]]
    /\ settled' = layout /\ mixed' = ~(Quiet /\ InLine(layout) /\ hidden = {})
    /\ UNCHANGED <<sha, hidden, pushes, rowVars, queued, running, events>>

\* A push, which may put an earlier commit back.
Push(p) ==
    /\ Change
    /\ sha' = [sha EXCEPT ![p] = 1 - @]
    /\ stamp' = [stamp EXCEPT ![p] = changes + 1]
    /\ pushes' = pushes \cup {[pull |-> p, before |-> sha[p], after |-> 1 - sha[p]]}
    /\ UNCHANGED <<layout, hidden, rowVars, queued, running, events, historyVars>>

\* An entity answers 404 for a while, or again.
Hide(e) ==
    /\ Change
    /\ hidden' = hidden \cup {e} /\ mixed' = TRUE
    /\ UNCHANGED <<layout, sha, stamp, pushes, rowVars, queued, running, events, settled>>
Show(e) ==
    /\ e \in hidden /\ hidden' = hidden \ {e}
    /\ UNCHANGED <<layout, sha, stamp, pushes, changes, rowVars, queued, running, events, historyVars>>

-----------------------------------------------------------------------------
(* Refreshes                                                               *)

\* Any event or sweep: unique while the job waits.
Enqueue(j) ==
    /\ events < MaxEvents /\ events' = events + 1
    /\ j \notin queued /\ queued' = queued \cup {j}
    /\ UNCHANGED <<githubVars, rowVars, running, historyVars>>

\* The rows, tombstoned ones included, and their validators.
GetStackByIdentity(s) == stackRow[s]
GetPullRequestByIdentity(p) == pullRow[p]
GetStackFetchMetadata(s) == stackRow[s].etag
GetPullRequestFetchMetadata(p) == pullRow[p].etag
Validator(e) == IF e \in Stacks THEN GetStackFetchMetadata(e)
                ELSE GetPullRequestFetchMetadata(e)

\* refreshStackOnce, refreshPRREST and the conditional read behind a GraphQL
\* node, with the stored validator (StackMetadata, PullRequestMetadata).
Answer(e) ==
    IF e \in hidden THEN 404 ELSE IF Validator(e) = Rep(e) THEN 304 ELSE 200

StartJob(j) ==
    /\ j \in queued /\ running[j] = NoResponse
    /\ Cardinality({k \in Jobs : running[k] # NoResponse}) < Workers
    /\ queued' = queued \ {j}
    /\ running' = [running EXCEPT ![j] = [code |-> Answer(j[2]), rep |-> Rep(j[2]),
                                          overtaken |-> FALSE]]
    /\ UNCHANGED <<githubVars, rowVars, events, historyVars>>

\* withEntityTx: a response overtaken by another write of the entity is
\* fetched again (retrySupersededObservation).
Retry(j) ==
    /\ running[j].overtaken
    /\ running' = [running EXCEPT ![j] = NoResponse]
    /\ queued' = queued \cup {j}
    /\ UNCHANGED <<githubVars, rowVars, events, historyVars>>

\* The write of j commits and overtakes the entity's other refreshes.
Committed(j) ==
    running' = [k \in Jobs |->
                  IF k = j THEN NoResponse
                  ELSE IF k[2] = j[2] /\ running[k] # NoResponse
                  THEN [running[k] EXCEPT !.overtaken = TRUE] ELSE running[k]]

Ready(j, code) == running[j].code = code /\ ~running[j].overtaken

\* The row stays and takes the validator of the response.
TouchStackCheckedAt(row, rep) == [row EXCEPT !.etag = rep]

\* The row is confirmed only while its validator is the one that was sent.
ConfirmPullRequestMetadata(row, rep) == row.state = "live" /\ row.etag = rep

\* TouchStack, TouchPullRequest: a pull request that is not confirmed is
\* fetched again.  RefreshPR applies its node, which matchingPullETag found
\* equal to the row.
Confirm(j) ==
    /\ Ready(j, 304)
    /\ IF j[1] = "stack"
       THEN /\ stackRow' = [stackRow EXCEPT ![j[2]] = TouchStackCheckedAt(@, running[j].rep)]
            /\ UNCHANGED <<pullRow, queued>> /\ Committed(j)
       ELSE /\ queued' = IF ConfirmPullRequestMetadata(pullRow[j[2]], running[j].rep)
                         THEN queued ELSE queued \cup {j}
            /\ UNCHANGED rowVars /\ Committed(j)
    /\ UNCHANGED <<githubVars, events, historyVars>>

-----------------------------------------------------------------------------
(* Stacks                                                                  *)

\* stackRecordFromREST: the newest updated_at of the stack and its members.
Record(rep) ==
    [state |-> "live", etag |-> rep,
     entries |-> [i \in DOMAIN rep.entries |-> <<rep.entries[i][1], rep.entries[i][2]>>],
     at |-> Max({rep.at} \cup {rep.entries[i][3] : i \in DOMAIN rep.entries})]

\* UpsertStackWriteIfNewer
StackWritten(row, new) ==
    \/ row.state # "live"
    \/ new.at > row.at
    \/ new.at = row.at /\ (new.entries # row.entries \/ row.etag = <<>>)

Members(row) == {e[1] : e \in Range(row.entries)}
PositionIn(row, p) ==
    IF p \in Members(row) THEN CHOOSE i \in DOMAIN row.entries : row.entries[i][1] = p
    ELSE None

\* Mutant of Affected: who left the stack is not told.
AffectedListed(old, new) ==
    {p \in Members(new) : PositionIn(old, p) # PositionIn(new, p)}

\* stackMembershipDiff
Affected(old, new) ==
    {p \in Members(old) \cup Members(new) : PositionIn(old, p) # PositionIn(new, p)}

\* The stacks the rows of these pull requests name, tombstoned rows included.
ListCachedPRMemberships(moved) ==
    {pullRow[p].in[1] : p \in {q \in moved : pullRow[q].state # "none"}} \ {None}

\* stackFollowupSpecs: the members that moved and the stacks they were in.
StackFollowups(s, moved) ==
    {ResolveJob(p) : p \in moved}
      \cup {StackJob(t) : t \in ListCachedPRMemberships(moved) \ {s}}

\* applyStack: a response that is not written still leaves its validator.
ApplyStack(s) ==
    LET j == StackJob(s)
        old == GetStackByIdentity(s)
        new == Record(running[j].rep)
    IN  /\ Ready(j, 200)
        /\ IF StackWritten(old, new)
           THEN /\ stackRow' = [stackRow EXCEPT ![s] = new]
                /\ queued' = queued \cup StackFollowups(s, Affected(old, new))
           ELSE /\ stackRow' = [stackRow EXCEPT ![s] = TouchStackCheckedAt(@, new.etag)]
                /\ UNCHANGED queued
        /\ Committed(j)
        /\ UNCHANGED <<githubVars, pullRow, events, historyVars>>

\* Mutant of DeadStack: the validator survives.
KeepValidator(row) == [row EXCEPT !.state = "dead"]

\* TombstoneStack
DeadStack(row) == [row EXCEPT !.state = "dead", !.etag = <<>>]

\* TombstoneStackObserved
TombstoneStack(s) ==
    LET j == StackJob(s)
        old == GetStackByIdentity(s)
    IN  /\ Ready(j, 404)
        /\ IF old.state = "live"
           THEN /\ stackRow' = [stackRow EXCEPT ![s] = DeadStack(old)]
                /\ queued' = queued \cup {ResolveJob(p) : p \in Members(old)}
           ELSE UNCHANGED <<stackRow, queued>>
        /\ Committed(j)
        /\ UNCHANGED <<githubVars, pullRow, events, historyVars>>

-----------------------------------------------------------------------------
(* Pull requests                                                           *)

PullRecord(rep) == [state |-> "live", in |-> <<rep.ref[1], rep.ref[2]>>,
                    sha |-> rep.sha, at |-> rep.at, etag |-> rep]

\* UpsertPullRequestWriteIfNewer
PullWritten(row, new) ==
    \/ row.state # "live"
    \/ new.at > row.at
    \/ new.at = row.at /\ <<new.in, new.sha>> # <<row.in, row.sha>>

\* pullStackSummaryMatches
SummaryMatches(p, ref) ==
    LET row == GetStackByIdentity(ref[1])
    IN  /\ row.state = "live" /\ Len(row.entries) = ref[3]
        /\ ref[2] <= ref[3] /\ row.entries[ref[2]][1] = p

\* result.StackStateChanged
StackStateChanged(p, old, row, rep) ==
    \/ old.state = "none" /\ row.in[1] # None
    \/ old.state # "none" /\ (old.in[1] # None \/ row.in[1] # None)
         /\ <<old.in, old.sha>> # <<row.in, row.sha>>
    \/ rep.ref[1] # None /\ ~SummaryMatches(p, rep.ref)

\* pullRequestFollowupSpecs
StackJobs(old, row) == {StackJob(s) : s \in {old.in[1], row.in[1]} \ {None}}

\* applyPullRequest after refreshPRREST or, by way of applyPullFence, RefreshPR.
ApplyPullRequest(j) ==
    LET p == j[2]
        rep == running[j].rep
        old == GetPullRequestByIdentity(p)
        new == PullRecord(rep)
        row == IF PullWritten(old, new) THEN new ELSE [old EXCEPT !.etag = rep]
    IN  /\ j[1] # "stack" /\ Ready(j, 200)
        /\ pullRow' = [pullRow EXCEPT ![p] = row]
        /\ queued' = queued \cup (IF StackStateChanged(p, old, row, rep)
                                  THEN StackJobs(old, row) ELSE {})
        /\ Committed(j)
        /\ UNCHANGED <<githubVars, stackRow, events, historyVars>>

\* TombstonePullRequestObserved
TombstonePullRequestObserved(j) ==
    LET p == j[2]
        old == GetPullRequestByIdentity(p)
    IN  /\ j[1] # "stack" /\ Ready(j, 404)
        /\ IF old.state = "live"
           THEN /\ pullRow' = [pullRow EXCEPT ![p].state = "dead", ![p].etag = <<>>]
                /\ queued' = queued \cup StackJobs(old, old)
           ELSE UNCHANGED <<pullRow, queued>>
        /\ Committed(j)
        /\ UNCHANGED <<githubVars, stackRow, events, historyVars>>

-----------------------------------------------------------------------------
(* Pushes                                                                  *)

\* ApplyBranchHintTransition: rows at the push's before-SHA are moved to its
\* after-SHA and lose their validator.
HintedStack(row, push) ==
    IF row.state = "live" /\ <<push.pull, push.before>> \in Range(row.entries)
    THEN [row EXCEPT !.etag = <<>>, !.entries = [i \in DOMAIN @ |->
            IF @[i] = <<push.pull, push.before>> THEN <<push.pull, push.after>> ELSE @[i]]]
    ELSE row

HintedPull(row, push) ==
    IF row.state = "live" /\ row.sha = push.before
    THEN [row EXCEPT !.sha = push.after, !.etag = <<>>] ELSE row

\* What lives on a pull request's branch, whatever its SHA.
ListPRsAffectedByBranch(p) == {q \in {p} : pullRow[q].state = "live"}
ListStacksAffectedByBranch(p) ==
    {s \in Stacks : stackRow[s].state = "live" /\ p \in Members(stackRow[s])}

\* The targets of a push are reconciled.
Targets(p) == {PullJob(q) : q \in ListPRsAffectedByBranch(p)}
                \cup {StackJob(s) : s \in ListStacksAffectedByBranch(p)}

\* ApplyBranchPushTx, for pushes in any order; the claimed generations
\* overtake the refreshes of the targets, not the membership resolutions.
BranchPush(push) ==
    /\ push \in pushes /\ pushes' = pushes \ {push}
    /\ stackRow' = [s \in Stacks |-> HintedStack(stackRow[s], push)]
    /\ pullRow' = [pullRow EXCEPT ![push.pull] = HintedPull(@, push)]
    /\ queued' = queued \cup Targets(push.pull)
    /\ running' = [k \in Jobs |-> IF k \in Targets(push.pull) /\ running[k] # NoResponse
                                  THEN [running[k] EXCEPT !.overtaken = TRUE]
                                  ELSE running[k]]
    /\ UNCHANGED <<layout, sha, stamp, hidden, changes, events, historyVars>>

\* A push whose payload is no complete hint: RefreshBranch, which follows
\* the stacks of the pull requests too (BranchTargets).
BranchTargets(p) ==
    Targets(p) \cup {StackJob(pullRow[q].in[1]) :
                       q \in {r \in ListPRsAffectedByBranch(p) : pullRow[r].in[1] # None}}

RefreshBranch(p) ==
    /\ events < MaxEvents /\ events' = events + 1
    /\ queued' = queued \cup BranchTargets(p)
    /\ UNCHANGED <<githubVars, rowVars, running, historyVars>>

-----------------------------------------------------------------------------
(* Webhooks of a pull request                                              *)

\* The dispatcher's comparison of a payload's stack summary with the cache.
StackSummaryMatchesCache(p, ref) == SummaryMatches(p, ref)

\* A payload of the pull request's stack, which may be older than the last
\* change: its membership is resolved, and its stack refreshed unless the
\* cache already shows what the payload says.
Deliver(p, ref) ==
    /\ events < MaxEvents /\ events' = events + 1
    /\ queued' = queued \cup {ResolveJob(p)} \cup
         (IF ref[1] = None \/ StackSummaryMatchesCache(p, ref) THEN {}
          ELSE {StackJob(ref[1])})
    /\ UNCHANGED <<githubVars, rowVars, running, historyVars>>

\* An empty cache, or one that backfill has filled.
StacksInit ==
    /\ layout \in Layouts
    /\ sha = [p \in PullRequests |-> 0] /\ stamp = [e \in Entities |-> 0]
    /\ hidden = {} /\ pushes = {}
    /\ \/ /\ stackRow = [s \in Stacks |-> NoStack]
          /\ pullRow = [p \in PullRequests |-> NoPull]
          /\ mixed = TRUE
       \/ /\ stackRow = [s \in Stacks |-> Record(StackRep(s))]
          /\ pullRow = [p \in PullRequests |-> PullRecord(PullRep(p))]
          /\ mixed = FALSE
    /\ queued = {} /\ running = [j \in Jobs |-> NoResponse]
    /\ changes = 0 /\ events = 0
    /\ settled = layout

Work(j) ==
    \/ StartJob(j) \/ Retry(j) \/ Confirm(j) \/ ApplyPullRequest(j) \/ TombstonePullRequestObserved(j)
    \/ \E s \in Stacks : j = StackJob(s) /\ (ApplyStack(s) \/ TombstoneStack(s))

Sweep == \E j \in {StackJob(s) : s \in Stacks} \cup {PullJob(p) : p \in PullRequests} :
           Enqueue(j)
Working == \E j \in Jobs : Work(j)

StacksNext ==
    \/ \E l \in Layouts : Restack(l)
    \/ \E p \in Pushed : Push(p)
    \/ \E e \in Hideable : Hide(e) \/ Show(e)
    \/ \E push \in pushes : BranchPush(push)
    \/ Sweep
    \/ \E p \in PullRequests, l \in {layout, settled} : Deliver(p, StackRef(l, p))
    \/ \E p \in Pushed : RefreshBranch(p)
    \/ Working

StacksSpec == StacksInit /\ [][StacksNext]_membershipVars

-----------------------------------------------------------------------------

(* A stored validator that GitHub would answer with 304 stands for what    *)
(* the row holds: neither a hint that moved the row, a tombstone, a late   *)
(* confirmation nor a discarded response leaves one behind that makes      *)
(* every later refresh confirm a wrong row.                                *)
ConfirmedIsCurrent ==
    /\ \A s \in Stacks : stackRow[s].etag = StackRep(s) =>
         stackRow[s].state = "live" /\ stackRow[s].entries = Record(StackRep(s)).entries
    /\ \A p \in PullRequests : pullRow[p].etag = PullRep(p) =>
         /\ pullRow[p].state = "live"
         /\ <<pullRow[p].in, pullRow[p].sha>> =
              <<PullRecord(PullRep(p)).in, PullRecord(PullRep(p)).sha>>

(* One hint is enough: after a change of the stacks, refreshing any one of *)
(* the rows it concerns brings all of them in line through the follow-ups; *)
(* the cache rests either before the change or after it, never between.    *)
(* A change amid refreshes can look like none to a row refreshed between,  *)
(* and an invisible entity cuts the chain; both are left to the sweeps.    *)
FollowupsComplete ==
    Quiet /\ ~mixed => InLine(layout) \/ InLine(settled)
=============================================================================
