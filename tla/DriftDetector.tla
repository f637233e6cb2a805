--------------------------- MODULE DriftDetector ---------------------------
(***************************************************************************)
(* The sampling drift detector (internal/drift, contract C-O3) beside the  *)
(* refresh workers it must not be confused by.  A pass samples the next    *)
(* entities after a rotating cursor, reads each one from GitHub in full    *)
(* and compares it with the cache; a difference becomes a finding with a   *)
(* healing refresh, and one that survives its heal is escalated.           *)
(*                                                                         *)
(* One entity kind stands for the six, which are inspected one after       *)
(* another by the same code.  A refresh advances the entity's observation  *)
(* version and its last_checked_at; one counter is both.  A branch push    *)
(* rewrites the SHAs of a row and advances neither; the page job that      *)
(* verifies it has no key HasOutstandingRefresh could find.                *)
(***************************************************************************)
EXTENDS Integers, FiniteSets, Sequences

CONSTANTS Sources,     \* source ids of the cached rows
          Unhealable,  \* entities whose refresh stores something else
          Targets,     \* entities a branch push rewrites (pull requests)
          SampleSize,  \* entities a pass inspects
          MaxChanges,  \* bound on upstream changes
          MaxPassFaults  \* bound on failed passes

ASSUME DriftConstants == IsFiniteSet(Sources) /\ Sources \subseteq Nat /\ SampleSize \in Nat

VARIABLES
    up,          \* entity -> value on GitHub
    undelivered, \* changes whose event has not arrived
    cache,       \* entity -> cached value
    writes,      \* entity -> version of the cached row
    issued, completed,  \* entity -> refresh generations
    worker,      \* entity -> its refresh job
    page,        \* entity -> the page job of the last push to its branch
    findings,    \* open drift_findings rows
    position,    \* drift_sample_cursors.source_id
    pass,        \* samples the running pass still has to inspect
    sample,      \* the inspection in progress
    changes, passFaults

driftVars == <<up, undelivered, cache, writes, issued, completed, worker, page,
               findings, position, pass, sample, changes, passFaults>>
githubVars == <<up, undelivered, changes>>
queueVars == <<issued, completed, worker, page>>
cacheVars == <<cache, writes>>
detectorVars == <<findings, position, pass, sample, passFaults>>

NoWork == [step |-> "none", gen |-> 0, value |-> 0, obs |-> 0]
\* diverged and hinted are history: whether the row differed from GitHub when
\* GitHub was asked, and whether a push rewrote it since.
NoSample == [step |-> "none", e |-> 0, seen |-> 0, value |-> 0, upstream |-> 0,
             obs |-> 0, diverged |-> FALSE, hinted |-> FALSE]

DriftInit ==
    /\ up = [e \in Sources |-> 0] /\ undelivered = {}
    /\ cache = [e \in Sources |-> 0] /\ writes = [e \in Sources |-> 0]
    /\ issued = [e \in Sources |-> 0] /\ completed = [e \in Sources |-> 0]
    /\ worker = [e \in Sources |-> NoWork] /\ page = [e \in Sources |-> NoWork]
    /\ findings = {} /\ position = 0
    /\ pass = <<>> /\ sample = NoSample
    /\ changes = 0 /\ passFaults = 0

-----------------------------------------------------------------------------
(* GitHub, the dispatcher and the refresh workers                          *)

\* The entity changes; its event may arrive later or never.
Change(e) ==
    /\ changes < MaxChanges /\ changes' = changes + 1
    /\ up' = [up EXCEPT ![e] = 1 - @]
    /\ undelivered' = undelivered \cup {[e |-> e, after |-> up'[e]]}
    /\ UNCHANGED <<queueVars, cacheVars, detectorVars>>

Deliver(x) ==
    /\ x \in undelivered /\ undelivered' = undelivered \ {x}
    /\ issued' = [issued EXCEPT ![x.e] = @ + 1]
    /\ UNCHANGED <<up, changes, completed, worker, page, cacheVars, detectorVars>>

\* Only a row that holds the SHA before the push is moved to the one after.
ApplyBranchHintTransition(x) ==
    IF cache[x.e] = 1 - x.after THEN [cache EXCEPT ![x.e] = x.after] ELSE cache

\* The claimed generation counts as completed.
AdvanceBranchReconciliationTargetGenerations(e) ==
    /\ issued' = [issued EXCEPT ![e] = @ + 1]
    /\ completed' = [completed EXCEPT ![e] = issued[e] + 1]

\* ApplyBranchPushTx and the insert of the page job; an older page is
\* superseded.
DispatchPush(x) ==
    /\ x \in undelivered /\ x.e \in Targets /\ undelivered' = undelivered \ {x}
    /\ cache' = ApplyBranchHintTransition(x)
    /\ AdvanceBranchReconciliationTargetGenerations(x.e)
    /\ page' = [page EXCEPT ![x.e] = [NoWork EXCEPT !.step = "queued", !.gen = issued'[x.e]]]
    /\ sample' = [sample EXCEPT !.hinted = @ \/ (sample.e = x.e /\ cache' # cache)]
    /\ UNCHANGED <<up, changes, writes, worker, findings, position, pass, passFaults>>

Fetched(e, gen) == [step |-> "fetched", gen |-> gen, value |-> up[e], obs |-> writes[e]]

\* The row as GitHub has it; some rows come out wrong whatever GitHub says.
Write(e, value) ==
    /\ cache' = [cache EXCEPT ![e] = IF e \in Unhealable THEN 0 ELSE value]
    /\ writes' = [writes EXCEPT ![e] = @ + 1]

StartRefresh(e) ==
    /\ worker[e].step = "none" /\ completed[e] < issued[e]
    /\ worker' = [worker EXCEPT ![e] = Fetched(e, issued[e])]
    /\ UNCHANGED <<githubVars, issued, completed, page, cacheVars, detectorVars>>

\* An observation that is not the row's any more is fetched again; a refresh
\* a push has overtaken (checkRefreshGenerationFence) writes nothing.
ApplyRefresh(e) ==
    LET w == worker[e]
    IN  /\ w.step = "fetched"
        /\ IF w.obs = writes[e] /\ ~(w.gen # issued[e] /\ w.gen < completed[e])
           THEN Write(e, w.value) ELSE UNCHANGED cacheVars
        /\ worker' = [worker EXCEPT ![e] = IF w.obs = writes[e] THEN [w EXCEPT !.step = "applied"]
                                           ELSE Fetched(e, w.gen)]
        /\ UNCHANGED <<githubVars, issued, completed, page, detectorVars>>

CompleteRefresh(e) ==
    /\ worker[e].step = "applied"
    /\ completed' = [completed EXCEPT ![e] = IF worker[e].gen > @ THEN worker[e].gen ELSE @]
    /\ worker' = [worker EXCEPT ![e] = NoWork]
    /\ UNCHANGED <<githubVars, issued, page, cacheVars, detectorVars>>

\* ReconcileBranchPage: the targets of a push are verified against GitHub.
FetchBranchPage(e) ==
    /\ page[e].step = "queued"
    /\ page' = [page EXCEPT ![e] = Fetched(e, page[e].gen)]
    /\ UNCHANGED <<githubVars, issued, completed, worker, cacheVars, detectorVars>>

\* checkBranchReconciliationFence: a newer generation or write supersedes it.
ApplyBranchPage(e) ==
    /\ page[e].step = "fetched"
    /\ IF page[e].obs = writes[e] /\ page[e].gen = issued[e]
       THEN Write(e, page[e].value) ELSE UNCHANGED cacheVars
    /\ page' = [page EXCEPT ![e] = NoWork]
    /\ UNCHANGED <<githubVars, issued, completed, worker, detectorVars>>

-----------------------------------------------------------------------------
(* Detect                                                                  *)

GetDriftSampleCursor == position

\* The rows of S that come first, at most n of them (ORDER BY id LIMIT n).
FirstOf(S, n) == {e \in S : Cardinality({f \in S : f < e}) < n}

\* The rotating sample: rows after the cursor, then from the start.
SampleCachedEntitiesAfter(after) == FirstOf({e \in Sources : e > after}, SampleSize)
SampleCachedEntitiesThrough(through, n) == FirstOf({e \in Sources : e <= through}, n)

Samples ==
    LET after == SampleCachedEntitiesAfter(GetDriftSampleCursor)
    IN  after \cup SampleCachedEntitiesThrough(GetDriftSampleCursor,
                                               SampleSize - Cardinality(after))

\* Inspected in that order: those after the cursor come first.
SampledBefore(d, e) ==
    IF d > GetDriftSampleCursor <=> e > GetDriftSampleCursor THEN d < e
    ELSE d > GetDriftSampleCursor

\* The periodic job starts a pass; the rows are read once, before any fetch.
StartPass ==
    /\ pass = <<>> /\ sample.step = "none"
    /\ \E s \in [1 .. Cardinality(Samples) -> Samples] :
         /\ \A i, j \in DOMAIN s : i < j => SampledBefore(s[i], s[j])
         /\ pass' = [i \in DOMAIN s |-> [e |-> s[i], seen |-> writes[s[i]]]]
    /\ UNCHANGED <<githubVars, queueVars, cacheVars, findings, position, sample, passFaults>>

\* An incomplete generation or a live job.
HasOutstandingRefresh(e) == completed[e] < issued[e] \/ worker[e].step # "none"

UpsertDriftSampleCursor == position' = Head(pass).e

\* The sample is done with (inspected or skipped); the last one of the pass
\* advances the cursor.
EndSample ==
    /\ sample' = NoSample
    /\ pass' = Tail(pass)
    /\ IF Len(pass) = 1 THEN UpsertDriftSampleCursor ELSE UNCHANGED position

\* inspectSample's first check of refresh quiescence.
BeginSample ==
    /\ pass # <<>> /\ sample.step = "none"
    /\ IF HasOutstandingRefresh(Head(pass).e) THEN EndSample
       ELSE /\ sample' = [NoSample EXCEPT !.step = "quiescent", !.e = Head(pass).e,
                                          !.seen = Head(pass).seen]
            /\ UNCHANGED <<pass, position>>
    /\ UNCHANGED <<githubVars, queueVars, cacheVars, findings, passFaults>>

\* fullFetch; the history starts here.
FullFetch ==
    /\ sample.step = "quiescent"
    /\ sample' = [sample EXCEPT !.step = "fetched", !.upstream = up[sample.e],
                                !.diverged = cache[sample.e] # up[sample.e],
                                !.hinted = FALSE]
    /\ UNCHANGED <<githubVars, queueVars, cacheVars, findings, position, pass, passFaults>>

\* A fetch error fails the pass before its cursor moves; River runs it again.
FetchFails ==
    /\ sample.step = "quiescent"
    /\ passFaults < MaxPassFaults /\ passFaults' = passFaults + 1
    /\ pass' = <<>> /\ sample' = NoSample
    /\ UNCHANGED <<githubVars, queueVars, cacheVars, findings, position>>

BeginObservation ==
    /\ sample.step = "fetched"
    /\ sample' = [sample EXCEPT !.step = "observed", !.obs = writes[sample.e]]
    /\ UNCHANGED <<githubVars, queueVars, cacheVars, findings, position, pass, passFaults>>

\* Mutant of RowMoved: the row is compared as it was sampled.
NeverMoved == FALSE

GetCachedEntitySnapshot(e) == [value |-> cache[e], lastChecked |-> writes[e]]

\* A row validated since it was sampled is skipped.
RowMoved == GetCachedEntitySnapshot(sample.e).lastChecked # sample.seen

Reread ==
    /\ sample.step = "observed"
    /\ IF RowMoved THEN EndSample
       ELSE /\ sample' = [sample EXCEPT !.step = "reread",
                       !.value = GetCachedEntitySnapshot(sample.e).value]
            /\ UNCHANGED <<pass, position>>
    /\ UNCHANGED <<githubVars, queueVars, cacheVars, findings, passFaults>>

\* The second check: refreshes queued while GitHub was read win.
Recheck ==
    /\ sample.step = "reread"
    /\ IF HasOutstandingRefresh(sample.e) THEN EndSample
       ELSE sample' = [sample EXCEPT !.step = "compared"] /\ UNCHANGED <<pass, position>>
    /\ UNCHANGED <<githubVars, queueVars, cacheVars, findings, passFaults>>

\* semanticDiff, of the normalised snapshots.
SemanticDiff == sample.value # sample.upstream

\* The diff's hash identifies a finding of the entity.
GetOpenDriftFindingByHash ==
    {f \in findings : f.e = sample.e /\ f.cached = sample.value
                                     /\ f.upstream = sample.upstream}

InsertDriftFinding ==
    [e |-> sample.e, cached |-> sample.value, upstream |-> sample.upstream,
     heal |-> 0, escalated |-> FALSE]
SetDriftFindingHealGeneration(f, generation) == [f EXCEPT !.heal = generation]

\* GetRefreshIntentState: the heal has run and the difference is still there.
HealCompleted(f) == f.heal <= completed[f.e]

EscalateOpenDriftFinding(f) == [f EXCEPT !.escalated = TRUE]

\* recordAndHealTx: an open finding is touched or escalated; a new one comes
\* with its healing refresh and the generation to wait for.
RecordAndHeal ==
    LET open == GetOpenDriftFindingByHash
        heal == issued[sample.e] + 1
    IN  IF open # {}
        THEN /\ findings' = (findings \ open) \cup
                  {IF HealCompleted(f) THEN EscalateOpenDriftFinding(f) ELSE f : f \in open}
             /\ UNCHANGED issued
        ELSE /\ findings' = findings \cup
                  {SetDriftFindingHealGeneration(InsertDriftFinding, heal)}
             /\ issued' = [issued EXCEPT ![sample.e] = heal]

\* Mutant of ResolveOpenDriftFindings: an equal sample leaves its findings open.
KeepFindings == UNCHANGED <<findings, issued>>

ResolveOpenDriftFindings == findings' = {f \in findings : f.e # sample.e} /\ UNCHANGED issued

\* The transaction under the entity's lock: a write since BeginObservation
\* supersedes the comparison.
Superseded == writes[sample.e] # sample.obs

Commit ==
    /\ sample.step = "compared"
    /\ IF Superseded THEN UNCHANGED <<findings, issued>>
       ELSE IF SemanticDiff THEN RecordAndHeal ELSE ResolveOpenDriftFindings
    /\ EndSample
    /\ UNCHANGED <<githubVars, completed, worker, page, cacheVars, passFaults>>

Detecting ==
    \/ StartPass
    \/ BeginSample \/ FullFetch \/ BeginObservation \/ Reread \/ Recheck \/ Commit
RefreshWorkers ==
    \E e \in Sources : \/ StartRefresh(e) \/ ApplyRefresh(e) \/ CompleteRefresh(e)
                       \/ FetchBranchPage(e) \/ ApplyBranchPage(e)

DriftNext ==
    \/ \E e \in Sources : Change(e)
    \/ \E x \in undelivered : Deliver(x) \/ DispatchPush(x)
    \/ FetchFails
    \/ Detecting
    \/ RefreshWorkers

\* The periodic job comes back and River works it and the refreshes; an
\* event may stay undelivered.
DriftFairness == WF_driftVars(Detecting) /\ WF_driftVars(RefreshWorkers)

DriftSpec == DriftInit /\ [][DriftNext]_driftVars /\ DriftFairness

-----------------------------------------------------------------------------

(* C-O3: "divergence > 0 is a bug report": a finding is recorded only if   *)
(* the cache really differed from GitHub when GitHub was read and the      *)
(* cache still holds the reported value, whatever refreshes and page jobs  *)
(* run beside the inspection and whatever pushes came before it read       *)
(* GitHub.  Only a push that rewrites this row after that read escapes the *)
(* rechecks (last_checked_at, generations, jobs, observation version).     *)
FindingsAreReal ==
    [][\A f \in findings' \ findings :
         (\A g \in findings : g.e = f.e => [g EXCEPT !.escalated = TRUE] # f)
           => sample.hinted \/ (sample.diverged /\ f.cached = cache[f.e])]_driftVars

Open(e) == {f \in findings : f.e = e}

(* C-O3: drift is measured: once GitHub is quiet, the entities with open   *)
(* findings are exactly the diverged ones, although a pass inspects only   *)
(* part of them, skips some and may fail; those a refresh cannot heal are  *)
(* escalated.                                                              *)
DriftIsMeasured ==
    <>[](\A e \in Sources :
           /\ Open(e) # {} <=> cache[e] # up[e]
           /\ (e \in Unhealable /\ cache[e] # up[e]) => \E f \in Open(e) : f.escalated)
=============================================================================
