---------------------- MODULE PullRequestRefreshProofs ----------------------
(***************************************************************************)
(* The safety of the three fetchers of a pull request, proved for every     *)
(* number of pushes, signals and failures and every updated_at: the cached  *)
(* SHA never goes back, and a system at rest shows the last signal.         *)
(***************************************************************************)
EXTENDS PullRequestRefresh, FiniteSetTheorems, TLAPS

FetchStates == {"idle", "started", "observed", "fetched", "applied"}

PullTypeOK ==
    /\ gen \in Nat /\ done \in Nat
    /\ job \in [Variants -> JobStates]
    /\ started \in [Variants -> Nat]
    /\ remote \in Remote /\ signalled \in 0..remote
    /\ undelivered \subseteq 1..remote
    /\ row \in [sha : 0..remote, at : Nat]
    /\ version \in Nat /\ resolutions \in Nat
    /\ branchGen \in Nat
    /\ page \in [Pages -> [status : {"none", "pending", "superseded", "completed"},
                           job : JobStates, target : Nat]]
    /\ fetch \in [Fetchers -> [pc : FetchStates, obs : Nat, got : Remote,
                               same : BOOLEAN, tries : Nat]]

\* The generation row, the direct job and its worker.
QueueInOrder ==
    /\ done <= gen /\ started[Plain] <= gen
    /\ fetch[Direct].pc # "idle" => job[Plain] = "running"

\* A page is recorded by the push of its number, which also completes the
\* generation it claims; the pushes so far are the delivered ones.
PagesInOrder ==
    /\ IsFiniteSet(undelivered)
    /\ branchGen + Cardinality(undelivered) = remote
    /\ \A b \in Pages : b > branchGen => page[b] = NoPage /\ fetch[b].pc = "idle"
    /\ \A b \in Pages : b = branchGen =>
         page[b].status \in {"pending", "completed"} /\ page[b].target <= done

\* What an execution holds is no newer than the store and GitHub.
FetchesInOrder ==
    /\ \A f \in Fetchers : fetch[f].obs <= version /\ fetch[f].got <= remote
    /\ \A f \in Fetchers : f # Membership => fetch[f].same = FALSE

\* The cached updated_at is no newer than that of the cached SHA.
RowInOrder == row.at <= Stamp[row.sha]

\* A response that may still be written is no older than the row.
FetchedNotOlder ==
    /\ fetch[Direct].pc = "fetched" /\ Current(Direct) /\ done <= started[Plain] =>
         fetch[Direct].got >= row.sha
    /\ \A b \in Pages : fetch[b].pc = "fetched" /\ Current(b) /\ Fenced(b) =>
         fetch[b].got >= row.sha

\* The direct job that started from the last signal.
DirectIsFresh ==
    started[Plain] = gen =>
      /\ fetch[Direct].pc = "fetched" => fetch[Direct].got >= signalled
      /\ fetch[Direct].pc = "applied" => row.sha >= signalled

\* The page whose push was the last signal.
PageIsFresh ==
    \A b \in Pages : Fenced(b) =>
      /\ fetch[b].pc = "fetched" => fetch[b].got >= signalled
      /\ fetch[b].pc \in {"observed", "fetched"} /\ ~Current(b) => row.sha >= signalled
      /\ fetch[b].pc = "applied" => row.sha >= signalled
      /\ page[b].status = "completed" => row.sha >= signalled

\* The last signal was completed by no page.
CompletedIsFresh ==
    gen = done /\ (\A b \in Pages : ~Fenced(b)) => row.sha >= signalled

Fresh ==
    /\ fetch[Membership].pc = "idle"
    /\ FetchedNotOlder /\ DirectIsFresh /\ PageIsFresh /\ CompletedIsFresh

PullInv ==
    /\ PullTypeOK /\ QueueInOrder /\ PagesInOrder /\ FetchesInOrder /\ RowInOrder
    /\ resolutions = 0 => Fresh

\* The empty tables satisfy the invariant.
LEMMA PullInitInv == PullInit => PullInv
<1> SUFFICES ASSUME PullInit PROVE PullInv
  BY Zenon
<1> USE PullMaxRemote, PullStamp, PlainVariant
<1>1. IdleFetch \in [pc : FetchStates, obs : Nat, got : Remote, same : BOOLEAN, tries : Nat]
  BY DEF IdleFetch, FetchStates, Remote
<1>2. NoPage \in [status : {"none", "pending", "superseded", "completed"},
                  job : JobStates, target : Nat]
  BY Zenon DEF NoPage, JobStates
<1>3. Direct \in Fetchers /\ Membership \in Fetchers /\ Pages \subseteq Fetchers
  BY Zenon DEF Fetchers
<1>4. PullTypeOK
  BY <1>1, <1>2 DEF PullInit, PullTypeOK, QueueInit, Remote, JobStates
<1>5. \A g \in Fetchers : fetch[g] = IdleFetch
  BY Zenon DEF PullInit
<1>6. QueueInOrder
  BY <1>3, <1>5 DEF PullInit, QueueInit, QueueInOrder, IdleFetch
<1>7. PagesInOrder
  <2>1. IsFiniteSet(undelivered) /\ Cardinality(undelivered) = 0
    BY Zenon, FS_EmptySet DEF PullInit
  <2>2. \A b \in Pages : page[b] = NoPage /\ fetch[b].pc = "idle" /\ b # branchGen
    BY <1>3, <1>5 DEF PullInit, IdleFetch, Pages
  <2> QED
    BY <2>1, <2>2 DEF PullInit, PagesInOrder
<1>8. FetchesInOrder
  BY <1>5 DEF PullInit, FetchesInOrder, IdleFetch
<1>9. RowInOrder
  BY DEF PullInit, RowInOrder
<1>10. Fresh
  <2>1. \A g \in Fetchers : fetch[g].pc = "idle"
    BY <1>5 DEF IdleFetch
  <2>2. \A b \in Pages : ~Fenced(b)
    BY DEF PullInit, Fenced, Pages
  <2>3. row.sha >= signalled
    BY DEF PullInit
  <2> QED
    BY Zenon, <1>3, <2>1, <2>2, <2>3 DEF Fresh, FetchedNotOlder, DirectIsFresh, PageIsFresh,
                                CompletedIsFresh
<1> QED
  BY Zenon, <1>4, <1>6, <1>7, <1>8, <1>9, <1>10 DEF PullInv

-----------------------------------------------------------------------------
(* GitHub and the dispatcher                                               *)

\* Who fetches.
LEMMA FetcherSets ==
    /\ Direct \in Fetchers /\ Membership \in Fetchers /\ Pages \subseteq Fetchers
    /\ Direct # Membership /\ Direct \notin Pages /\ Membership \notin Pages
  BY PullMaxRemote DEF Fetchers, Direct, Membership, Pages

\* A push at GitHub preserves the invariant.
LEMMA RemotePushInv ==
    ASSUME PullInv, RemotePush
    PROVE  PullInv'
<1> USE PullMaxRemote
<1>1. /\ remote' = remote + 1 /\ remote < MaxRemote
      /\ undelivered' = undelivered \cup {remote + 1}
      /\ signalled' = signalled
      /\ UNCHANGED <<gen, done, job, started, row, version, branchGen, page, fetch,
                     resolutions>>
  BY Zenon DEF RemotePush, queueVars, storeVars, branchVars, fetchVars
<1>2. PullTypeOK'
  BY <1>1 DEF PullInv, PullTypeOK, Remote
<1>3. QueueInOrder' /\ RowInOrder'
  BY Zenon, <1>1 DEF PullInv, QueueInOrder, RowInOrder
<1>4. PagesInOrder'
  <2>1. remote + 1 \notin undelivered /\ IsFiniteSet(undelivered)
    BY DEF PullInv, PullTypeOK, PagesInOrder, Remote
  <2>2. IsFiniteSet(undelivered') /\ Cardinality(undelivered') = Cardinality(undelivered) + 1
    BY Zenon, <1>1, <2>1, FS_AddElement
  <2>3. Cardinality(undelivered) \in Nat
    BY Zenon, <2>1, FS_CardinalityType
  <2> QED
    BY <1>1, <2>2, <2>3 DEF PullInv, PullTypeOK, PagesInOrder, Remote
<1>5. FetchesInOrder'
  BY <1>1 DEF PullInv, PullTypeOK, FetchesInOrder, Remote
<1>6. Fresh => Fresh'
  BY Zenon, <1>1 DEF Fresh, FetchedNotOlder, DirectIsFresh, PageIsFresh, CompletedIsFresh,
              Current, Fenced
<1> QED
  BY Zenon, <1>1, <1>2, <1>3, <1>4, <1>5, <1>6 DEF PullInv

\* Dispatching a direct refresh preserves it.
LEMMA DispatchDirectInv ==
    ASSUME PullInv, DispatchDirect
    PROVE  PullInv'
<1> USE PullMaxRemote, PlainVariant
<1>1. /\ gen' = gen + 1 /\ signalled' = remote
      /\ UNCHANGED <<done, started, remote, undelivered, row, version, branchGen, page,
                     fetch, resolutions>>
  BY Zenon DEF DispatchDirect, InsertRefreshes, storeVars, branchVars, fetchVars
<1>2. /\ job' \in [Variants -> JobStates]
      /\ job[Plain] = "running" => job'[Plain] = "running"
  BY Zenon DEF DispatchDirect, InsertRefreshes, InsertUnique, PullInv, PullTypeOK, JobStates
<1>3. PullTypeOK'
  BY <1>1, <1>2 DEF PullInv, PullTypeOK, Remote
<1>4. QueueInOrder' /\ RowInOrder' /\ PagesInOrder' /\ FetchesInOrder'
  <2>1. QueueInOrder'
    BY <1>1, <1>2 DEF PullInv, PullTypeOK, QueueInOrder
  <2>2. RowInOrder' /\ PagesInOrder' /\ FetchesInOrder'
    BY Zenon, <1>1 DEF PullInv, RowInOrder, PagesInOrder, FetchesInOrder
  <2> QED
    BY Zenon, <2>1, <2>2
<1>5. Fresh => Fresh'
  <2> SUFFICES ASSUME Fresh PROVE Fresh'
    BY Zenon
  <2>1. started[Plain] # gen' /\ gen' # done
    BY <1>1 DEF PullInv, PullTypeOK, QueueInOrder
  <2>2. \A b \in Pages : ~Fenced(b)'
    BY <1>1 DEF PullInv, PullTypeOK, PagesInOrder, QueueInOrder, Fenced
  <2>3. FetchedNotOlder'
    BY Zenon, <1>1, <2>2 DEF Fresh, FetchedNotOlder, Current
  <2> QED
    BY Zenon, <1>1, <2>1, <2>2, <2>3 DEF Fresh, DirectIsFresh, PageIsFresh, CompletedIsFresh
<1> QED
  BY Zenon, <1>1, <1>3, <1>4, <1>5 DEF PullInv

\* A push: its page is the only one of its branch generation, and every
\* response that is on its way is older than the generation it claims.
LEMMA DispatchPushInv ==
    ASSUME PullInv, NEW r \in undelivered, DispatchPush(r)
    PROVE  PullInv'
<1> USE PullMaxRemote, PlainVariant
<1>1. /\ undelivered' = undelivered \ {r} /\ signalled' = remote
      /\ branchGen' = branchGen + 1 /\ gen' = gen + 1 /\ done' = gen + 1
      /\ UNCHANGED <<started, remote, version, fetch, resolutions>>
  BY Zenon DEF DispatchPush, ClaimGeneration, fetchVars
<1>2. job' = job
  BY Zenon DEF DispatchPush, ClaimGeneration, InsertUnique, PullInv, PullTypeOK
<1>3. /\ row' \in [sha : 0..remote, at : Nat]
      /\ row'.sha >= row.sha /\ row'.at = row.at
  <2>1. r \in 1..remote /\ row \in [sha : 0..remote, at : Nat] /\ remote \in Nat
    BY DEF PullInv, PullTypeOK, Remote
  <2>2. row' = IF row.sha = r - 1 THEN [row EXCEPT !.sha = r] ELSE row
    BY Zenon DEF DispatchPush
  <2> QED
    BY <2>1, <2>2
<1>4. /\ IsFiniteSet(undelivered') /\ branchGen' + Cardinality(undelivered') = remote
      /\ \E b \in Pages : b = branchGen + 1
  <2>1. /\ IsFiniteSet(undelivered') /\ Cardinality(undelivered') \in Nat
        /\ Cardinality(undelivered') = Cardinality(undelivered) - 1
        /\ Cardinality(undelivered) \in Nat
    <3>1. IsFiniteSet(undelivered)
      BY Zenon DEF PullInv, PagesInOrder
    <3> QED
      BY Zenon, <1>1, <3>1, FS_RemoveElement, FS_CardinalityType
  <2>2. /\ branchGen \in Nat /\ remote \in 0..MaxRemote
        /\ branchGen + Cardinality(undelivered) = remote
    BY Zenon DEF PullInv, PullTypeOK, PagesInOrder, Remote
  <2> QED
    BY <1>1, <2>1, <2>2 DEF Pages
<1>4a. PICK n \in Pages : n = branchGen + 1
  BY Zenon, <1>4
<1>5. /\ page' = [b \in Pages |-> page'[b]]
      /\ page'[n] = [status |-> "pending", job |-> "queued", target |-> gen + 1]
      /\ \A b \in Pages \ {n} :
           page'[b] = IF page[b].status = "pending"
                      THEN [page[b] EXCEPT !.status = "superseded"] ELSE page[b]
  <2>1. page' = [b \in Pages |->
                  CASE b = branchGen + 1 ->
                         [status |-> "pending", job |-> "queued",
                          target |-> gen + 1]
                    [] page[b].status = "pending" ->
                         [page[b] EXCEPT !.status = "superseded"]
                    [] OTHER -> page[b]]
    BY Zenon DEF DispatchPush
  <2>2. page[n].status # "pending"
    BY <1>4a DEF PullInv, PullTypeOK, PagesInOrder, NoPage
  <2> QED
    BY Zenon, <1>4a, <2>1, <2>2
<1>6. /\ page' \in [Pages -> [status : {"none", "pending", "superseded", "completed"},
                              job : JobStates, target : Nat]]
      /\ \A b \in Pages : b > branchGen + 1 => page'[b] = NoPage
  <2>1. page \in [Pages -> [status : {"none", "pending", "superseded", "completed"},
                            job : JobStates, target : Nat]]
        /\ gen \in Nat /\ branchGen \in Nat
    BY Zenon DEF PullInv, PullTypeOK
  <2>2. \A b \in Pages : b > branchGen + 1 => page[b] = NoPage
    BY <2>1 DEF PullInv, PagesInOrder, Pages
  <2>3. \A b \in Pages : b > branchGen + 1 => page'[b] = NoPage
    BY <1>4a, <1>5, <2>1, <2>2 DEF NoPage, Pages
  <2>4. \A b \in Pages : page'[b] \in
          [status : {"none", "pending", "superseded", "completed"},
           job : JobStates, target : Nat]
    BY <1>5, <2>1 DEF JobStates
  <2> QED
    BY Zenon, <1>5, <2>3, <2>4
<1>7. PullTypeOK'
  BY <1>1, <1>2, <1>3, <1>6 DEF PullInv, PullTypeOK, Remote
<1>8. QueueInOrder'
  BY <1>1, <1>2 DEF PullInv, PullTypeOK, QueueInOrder
<1>9. PagesInOrder'
  <2>1. \A b \in Pages : b > branchGen + 1 => fetch'[b].pc = "idle"
    BY <1>1 DEF PullInv, PullTypeOK, PagesInOrder, Pages
  <2>2. page'[n].status = "pending" /\ page'[n].target = gen + 1
    BY <1>5
  <2> QED
    BY <1>4a, <1>1, <1>4, <1>6, <2>1, <2>2 DEF PagesInOrder, PullInv, PullTypeOK
<1>10. FetchesInOrder'
  BY Zenon, <1>1 DEF PullInv, FetchesInOrder
<1>11. RowInOrder'
  <2>1. row.sha \in 0..MaxRemote /\ row'.sha \in 0..MaxRemote /\ row.at \in Nat
    BY <1>3 DEF PullInv, PullTypeOK, Remote
  <2> QED
    BY <1>3, <2>1, PullStamp DEF PullInv, RowInOrder
<1>12. Fresh => Fresh'
  <2> SUFFICES ASSUME Fresh PROVE Fresh'
    BY Zenon
  <2>1. started'[Plain] < done' /\ started'[Plain] # gen'
    BY <1>1 DEF PullInv, PullTypeOK, QueueInOrder
  <2>2. \A b \in Pages : Fenced(b)' => b = n
    BY Zenon, <1>4a, <1>1 DEF Fenced
  <2>3. Fenced(n)' /\ page'[n].status = "pending"
    BY <1>4a, <1>1, <1>5 DEF Fenced
  <2>4. fetch'[n].pc = "idle"
    BY <1>4a, <1>1, <1>4 DEF PullInv, PullTypeOK, PagesInOrder
  <2>5. FetchedNotOlder' /\ PageIsFresh'
    BY <2>1, <2>2, <2>3, <2>4, <1>1 DEF FetchedNotOlder, PageIsFresh, PullInv, PullTypeOK
  <2>6. DirectIsFresh' /\ CompletedIsFresh'
    BY Zenon, <1>4a, <1>4, <2>1, <2>3 DEF DirectIsFresh, CompletedIsFresh
  <2> QED
    BY Zenon, <1>1, <2>5, <2>6 DEF Fresh
<1> QED
  BY Zenon, <1>1, <1>7, <1>8, <1>9, <1>10, <1>11, <1>12 DEF PullInv

\* The reconciler touches only the direct job.
LEMMA ReconcileInv ==
    ASSUME PullInv, Reconcile
    PROVE  PullInv'
<1>1. UNCHANGED <<gen, done, started, remote, undelivered, signalled, row, version,
                  branchGen, page, fetch, resolutions>>
  BY Zenon DEF Reconcile, ListOutstanding, ReinsertPointer, remoteVars, storeVars,
         branchVars, fetchVars
<1>2. /\ job' \in [Variants -> JobStates]
      /\ job[Plain] = "running" => job'[Plain] = "running"
  BY Zenon, PlainVariant DEF Reconcile, ListOutstanding, ReinsertPointer, InsertUnique, PullInv,
                      PullTypeOK, JobStates
<1>3. PullTypeOK'
  BY Zenon, <1>1, <1>2 DEF PullInv, PullTypeOK
<1>4. QueueInOrder'
  BY Zenon, <1>1, <1>2 DEF PullInv, QueueInOrder
<1>5. PagesInOrder' /\ FetchesInOrder' /\ RowInOrder'
  BY Zenon, <1>1 DEF PullInv, PagesInOrder, FetchesInOrder, RowInOrder
<1>6. Fresh => Fresh'
  BY Zenon, <1>1 DEF Fresh, FetchedNotOlder, DirectIsFresh, PageIsFresh, CompletedIsFresh,
              Current, Fenced
<1> QED
  BY Zenon, <1>1, <1>3, <1>4, <1>5, <1>6 DEF PullInv

-----------------------------------------------------------------------------
(* Fetching                                                                *)

\* What an execution holds keeps its type and its place in the order.
LEMMA FetchMoves ==
    ASSUME PullInv, NEW f \in Fetchers,
           fetch' = [fetch EXCEPT ![f] = fetch'[f]],
           fetch'[f] \in [pc : FetchStates, obs : Nat, got : Remote, same : BOOLEAN, tries : Nat],
           fetch'[f].obs <= version', version <= version', version' \in Nat,
           fetch'[f].got <= remote', remote' = remote,
           f # Membership => fetch'[f].same = FALSE
    PROVE  /\ fetch' \in [Fetchers -> [pc : FetchStates, obs : Nat, got : Remote,
                                       same : BOOLEAN, tries : Nat]]
           /\ \A g \in Fetchers \ {f} : fetch'[g] = fetch[g]
           /\ FetchesInOrder'
<1>1. fetch \in [Fetchers -> [pc : FetchStates, obs : Nat, got : Remote,
                              same : BOOLEAN, tries : Nat]]
      /\ version \in Nat
  BY Zenon DEF PullInv, PullTypeOK
<1>2. \A g \in Fetchers \ {f} : fetch'[g] = fetch[g]
  BY Zenon, <1>1
<1>3. fetch' \in [Fetchers -> [pc : FetchStates, obs : Nat, got : Remote,
                               same : BOOLEAN, tries : Nat]]
  BY Zenon, <1>1
<1>4. \A g \in Fetchers : fetch[g].obs \in Nat /\ fetch[g].got \in Nat
  BY <1>1, PullMaxRemote DEF Remote
<1>5. FetchesInOrder'
  BY <1>1, <1>2, <1>4 DEF PullInv, FetchesInOrder
<1> QED
  BY Zenon, <1>2, <1>3, <1>5

\* So does beginning an observation.
LEMMA BeginObservationInv ==
    ASSUME PullInv, NEW f \in Fetchers, BeginObservation(f)
    PROVE  PullInv'
<1>1. /\ fetch[f].pc = "started"
      /\ fetch' = [fetch EXCEPT ![f].pc = "observed", ![f].obs = version]
      /\ UNCHANGED <<gen, done, job, started, remote, undelivered, signalled, row, version,
                     branchGen, page, resolutions>>
  BY Zenon DEF BeginObservation, queueVars, remoteVars, storeVars, branchVars
<1>2. /\ fetch[f] \in [pc : FetchStates, obs : Nat, got : Remote, same : BOOLEAN, tries : Nat]
      /\ version \in Nat /\ DOMAIN fetch = Fetchers
  BY Zenon DEF PullInv, PullTypeOK
<1>3. /\ fetch' = [fetch EXCEPT ![f] = fetch'[f]]
      /\ fetch'[f] = [pc |-> "observed", obs |-> version, got |-> fetch[f].got,
                      same |-> fetch[f].same, tries |-> fetch[f].tries]
  BY Zenon, <1>1, <1>2
<1>4. /\ fetch[f].got \in Remote /\ fetch[f].same \in BOOLEAN /\ fetch[f].tries \in Nat
      /\ fetch[f].got <= remote /\ (f # Membership => fetch[f].same = FALSE)
  BY Zenon, <1>2 DEF PullInv, FetchesInOrder
<1>5. /\ fetch' \in [Fetchers -> [pc : FetchStates, obs : Nat, got : Remote,
                                  same : BOOLEAN, tries : Nat]]
      /\ \A g \in Fetchers \ {f} : fetch'[g] = fetch[g]
      /\ FetchesInOrder'
  <2>1. /\ fetch'[f] \in [pc : FetchStates, obs : Nat, got : Remote, same : BOOLEAN, tries : Nat]
        /\ fetch'[f].obs <= version' /\ version <= version' /\ version' \in Nat
        /\ fetch'[f].got <= remote' /\ remote' = remote
        /\ f # Membership => fetch'[f].same = FALSE
    BY <1>1, <1>2, <1>3, <1>4 DEF FetchStates
  <2> QED
    BY Zenon, <1>3, <2>1, FetchMoves
<1>6. PullTypeOK'
  BY Zenon, <1>1, <1>5 DEF PullInv, PullTypeOK
<1>7. QueueInOrder' /\ RowInOrder'
  BY Zenon, <1>1, <1>3, <1>5, FetcherSets DEF PullInv, QueueInOrder, RowInOrder
<1>8. PagesInOrder'
  BY Zenon, <1>1, <1>3, <1>5, FetcherSets DEF PullInv, PagesInOrder
<1>9. fetch'[f].pc = "observed" /\ Current(f)'
  BY <1>1, <1>3 DEF Current
<1>10. resolutions = 0 /\ Fresh => Fresh'
  <2> SUFFICES ASSUME Fresh PROVE Fresh'
    BY Zenon
  <2>1. f # Membership
    BY Zenon, <1>1 DEF Fresh
  <2>2. FetchedNotOlder'
    BY <1>1, <1>5, <1>9, FetcherSets DEF Fresh, FetchedNotOlder, Current, Fenced
  <2>3. DirectIsFresh'
    BY Zenon, <1>1, <1>5, <1>9, FetcherSets DEF Fresh, DirectIsFresh
  <2>4. PageIsFresh'
    BY ZenonT(120), <1>1, <1>5, <1>9, FetcherSets DEF Fresh, PageIsFresh, Current, Fenced
  <2>5. CompletedIsFresh'
    BY Zenon, <1>1 DEF Fresh, CompletedIsFresh, Fenced
  <2> QED
    BY Zenon, <1>5, <2>1, <2>2, <2>3, <2>4, <2>5, FetcherSets DEF Fresh
<1> QED
  BY Zenon, <1>1, <1>5, <1>6, <1>7, <1>8, <1>10 DEF PullInv

\* So does the answer to a fetch.
LEMMA FetchInv ==
    ASSUME PullInv, NEW f \in Fetchers, Fetch(f)
    PROVE  PullInv'
<1>1. /\ fetch[f].pc = "observed"
      /\ UNCHANGED <<gen, done, job, started, remote, undelivered, signalled, row, version,
                     branchGen, page, resolutions>>
  BY Zenon DEF Fetch, queueVars, remoteVars, storeVars, branchVars
<1>2. PICK same \in BOOLEAN :
        /\ fetch' = [fetch EXCEPT ![f].pc = "fetched", ![f].got = remote, ![f].same = same]
        /\ f # Membership => same = FALSE
  BY Zenon DEF Fetch
<1>3. /\ fetch[f] \in [pc : FetchStates, obs : Nat, got : Remote, same : BOOLEAN, tries : Nat]
      /\ version \in Nat /\ DOMAIN fetch = Fetchers /\ remote \in Remote
      /\ row.sha <= remote /\ signalled <= remote
  BY PullMaxRemote DEF PullInv, PullTypeOK, Remote
<1>4. /\ fetch' = [fetch EXCEPT ![f] = fetch'[f]]
      /\ fetch'[f] = [pc |-> "fetched", obs |-> fetch[f].obs, got |-> remote,
                      same |-> same, tries |-> fetch[f].tries]
  BY Zenon, <1>2, <1>3
<1>5. /\ fetch' \in [Fetchers -> [pc : FetchStates, obs : Nat, got : Remote,
                                  same : BOOLEAN, tries : Nat]]
      /\ \A g \in Fetchers \ {f} : fetch'[g] = fetch[g]
      /\ FetchesInOrder'
  <2>1. fetch[f].obs \in Nat /\ fetch[f].tries \in Nat /\ fetch[f].obs <= version
        /\ remote <= remote /\ version <= version
    BY <1>3, PullMaxRemote DEF PullInv, FetchesInOrder, Remote
  <2>2. /\ fetch'[f] \in [pc : FetchStates, obs : Nat, got : Remote, same : BOOLEAN, tries : Nat]
        /\ fetch'[f].obs <= version' /\ version <= version' /\ version' \in Nat
        /\ fetch'[f].got <= remote' /\ remote' = remote
        /\ f # Membership => fetch'[f].same = FALSE
    BY Zenon, <1>1, <1>2, <1>3, <1>4, <2>1 DEF FetchStates
  <2> QED
    BY Zenon, <1>4, <2>2, FetchMoves
<1>6. PullTypeOK'
  BY Zenon, <1>1, <1>5 DEF PullInv, PullTypeOK
<1>7. QueueInOrder' /\ RowInOrder'
  BY Zenon, <1>1, <1>4, <1>5, FetcherSets DEF PullInv, QueueInOrder, RowInOrder
<1>8. PagesInOrder'
  BY Zenon, <1>1, <1>4, <1>5, FetcherSets DEF PullInv, PagesInOrder
<1>9. /\ fetch'[f].pc = "fetched" /\ Current(f)' = Current(f)
      /\ fetch'[f].got >= row.sha /\ fetch'[f].got >= signalled
  BY <1>1, <1>3, <1>4 DEF Current
<1>10. resolutions = 0 /\ Fresh => Fresh'
  <2> SUFFICES ASSUME Fresh PROVE Fresh'
    BY Zenon
  <2>1. f # Membership
    BY Zenon, <1>1 DEF Fresh
  <2>2. FetchedNotOlder'
    BY Zenon, <1>1, <1>5, <1>9, FetcherSets DEF Fresh, FetchedNotOlder, Current, Fenced
  <2>3. DirectIsFresh'
    BY Zenon, <1>1, <1>5, <1>9, FetcherSets DEF Fresh, DirectIsFresh
  <2>4. PageIsFresh'
    BY ZenonT(120), <1>1, <1>5, <1>9, FetcherSets DEF Fresh, PageIsFresh, Current, Fenced
  <2>5. CompletedIsFresh'
    BY Zenon, <1>1 DEF Fresh, CompletedIsFresh, Fenced
  <2> QED
    BY Zenon, <1>5, <2>1, <2>2, <2>3, <2>4, <2>5, FetcherSets DEF Fresh
<1> QED
  BY Zenon, <1>1, <1>5, <1>6, <1>7, <1>8, <1>10 DEF PullInv

\* The write: a row whose updated_at is no newer than its SHA's is replaced by
\* every response that is not older.
LEMMA ApplyWrites ==
    ASSUME PullInv, NEW f \in Fetchers, ApplyPullRequest(f), remote' = remote
    PROVE  /\ row' \in [sha : 0..remote, at : Nat] /\ RowInOrder'
           /\ version' = version + 1 /\ version' \in Nat
           /\ f # Membership /\ fetch[f].got >= row.sha => row'.sha = fetch[f].got
<1>1. /\ fetch[f].got \in 0..remote /\ remote \in 0..MaxRemote /\ version \in Nat
      /\ row \in [sha : 0..remote, at : Nat]
      /\ f # Membership => fetch[f].same = FALSE
  BY PullMaxRemote DEF PullInv, PullTypeOK, FetchesInOrder, Remote
<1>2. /\ fetch[f].got \in 0..MaxRemote /\ Stamp[fetch[f].got] \in Nat
      /\ row.sha \in 0..MaxRemote /\ Stamp[row.sha] \in Nat /\ row.at \in Nat
  BY <1>1, PullMaxRemote, PullStamp
<1>3. IF fetch[f].same \/ Stamp[fetch[f].got] < row.at
      THEN row' = row
      ELSE row' = [sha |-> fetch[f].got, at |-> Stamp[fetch[f].got]]
  BY Zenon DEF ApplyPullRequest
<1>4. version' = version + 1 /\ version' \in Nat
  BY <1>1 DEF ApplyPullRequest
<1>5. row' \in [sha : 0..remote, at : Nat]
  BY <1>1, <1>2, <1>3
<1>6. RowInOrder'
  BY <1>2, <1>3 DEF PullInv, RowInOrder
<1>7. ASSUME f # Membership, fetch[f].got >= row.sha
      PROVE  row'.sha = fetch[f].got
  <2>1. Stamp[fetch[f].got] >= row.at
    BY <1>2, <1>7, PullStamp DEF PullInv, RowInOrder
  <2> QED
    BY <1>1, <1>2, <1>3, <1>7, <2>1
<1> QED
  BY Zenon, <1>4, <1>5, <1>6, <1>7

\* A fresh execution.
LEMMA IdleFetchType ==
    ASSUME NEW pc \in FetchStates, NEW x, x = [IdleFetch EXCEPT !.pc = pc]
    PROVE  /\ x \in [pc : FetchStates, obs : Nat, got : Remote, same : BOOLEAN, tries : Nat]
           /\ x.pc = pc /\ x.obs = 0 /\ x.got = 0 /\ x.same = FALSE
<1>1. IdleFetch \in [pc : {"idle"}, obs : {0}, got : {0}, same : {FALSE}, tries : {0}]
  BY Zenon DEF IdleFetch
<1>2. 0 \in Remote
  BY PullMaxRemote DEF Remote
<1>3. x = [IdleFetch EXCEPT !.pc = pc]
  BY Zenon
<1>4. x.pc = pc
  BY Zenon, <1>1, <1>3
<1>5. x.obs = 0
  BY Zenon, <1>1, <1>3
<1>6. x.got = 0
  BY Zenon, <1>1, <1>3
<1>7. x.same = FALSE
  BY Zenon, <1>1, <1>3
<1>8. IdleFetch \in [pc : FetchStates, obs : Nat, got : Remote, same : BOOLEAN, tries : Nat]
  BY Zenon, <1>2 DEF IdleFetch, FetchStates
<1>9. x \in [pc : FetchStates, obs : Nat, got : Remote, same : BOOLEAN, tries : Nat]
  BY Zenon, <1>3, <1>8
<1> QED
  BY Zenon, <1>4, <1>5, <1>6, <1>7, <1>9

\* An execution begins or ends.
LEMMA FetchResets ==
    ASSUME PullInv, NEW f \in Fetchers, NEW pc \in FetchStates,
           \/ fetch' = [fetch EXCEPT ![f] = [IdleFetch EXCEPT !.pc = pc]]
           \/ fetch' = [fetch EXCEPT ![f] = IdleFetch] /\ pc = "idle",
           version <= version', version' \in Nat, remote' = remote
    PROVE  /\ fetch' \in [Fetchers -> [pc : FetchStates, obs : Nat, got : Remote,
                                       same : BOOLEAN, tries : Nat]]
           /\ fetch'[f].pc = pc
           /\ \A g \in Fetchers \ {f} : fetch'[g] = fetch[g]
           /\ FetchesInOrder'
<1>1. DOMAIN fetch = Fetchers /\ remote \in Nat
  BY PullMaxRemote DEF PullInv, PullTypeOK, Remote
<1>2. /\ fetch'[f] \in [pc : FetchStates, obs : Nat, got : Remote, same : BOOLEAN, tries : Nat]
      /\ fetch'[f].obs = 0 /\ fetch'[f].got = 0 /\ fetch'[f].same = FALSE
      /\ fetch'[f].pc = pc
  <2>1. CASE fetch' = [fetch EXCEPT ![f] = [IdleFetch EXCEPT !.pc = pc]]
    <3>1. fetch'[f] = [IdleFetch EXCEPT !.pc = pc]
      BY Zenon, <1>1, <2>1
    <3> QED
      BY <3>1, IdleFetchType, ZenonT(120)
  <2>2. CASE fetch' = [fetch EXCEPT ![f] = IdleFetch] /\ pc = "idle"
    <3>1. fetch'[f] = IdleFetch
      BY Zenon, <1>1, <2>2
    <3>2. 0 \in Remote
      BY PullMaxRemote DEF Remote
    <3>3. IdleFetch \in [pc : FetchStates, obs : Nat, got : Remote, same : BOOLEAN, tries : Nat]
      BY Zenon, <3>2 DEF IdleFetch, FetchStates
    <3>4. IdleFetch.obs = 0 /\ IdleFetch.got = 0 /\ IdleFetch.same = FALSE /\ IdleFetch.pc = "idle"
      BY Zenon DEF IdleFetch
    <3> QED
      BY Zenon, <2>2, <3>1, <3>3, <3>4
  <2> QED
    BY Zenon, <2>1, <2>2
<1>3. fetch'[f].obs <= version' /\ fetch'[f].got <= remote'
  BY <1>1, <1>2
<1>4. fetch' = [fetch EXCEPT ![f] = fetch'[f]]
  BY Zenon, <1>1
<1> QED
  BY Zenon, <1>2, <1>3, <1>4, FetchMoves

-----------------------------------------------------------------------------
(* The direct refresh                                                      *)

\* So does the start of a direct refresh.
LEMMA StartDirectInv ==
    ASSUME PullInv, StartDirect
    PROVE  PullInv'
<1>1. /\ job' = [job EXCEPT ![Plain] = "running"]
      /\ started' = [started EXCEPT ![Plain] = gen]
      /\ fetch' = [fetch EXCEPT ![Direct] = [IdleFetch EXCEPT !.pc = "started"]]
      /\ UNCHANGED <<gen, done, remote, undelivered, signalled, row, version,
                     branchGen, page, resolutions>>
  BY Zenon DEF StartDirect, Start, remoteVars, storeVars, branchVars
<1>2. /\ fetch' \in [Fetchers -> [pc : FetchStates, obs : Nat, got : Remote,
                                  same : BOOLEAN, tries : Nat]]
      /\ fetch'[Direct].pc = "started"
      /\ \A g \in Fetchers \ {Direct} : fetch'[g] = fetch[g]
      /\ FetchesInOrder'
  <2>1. "started" \in FetchStates /\ version <= version' /\ version' \in Nat
    BY <1>1 DEF FetchStates, PullInv, PullTypeOK
  <2> QED
    BY Zenon, <1>1, <2>1, FetchResets, FetcherSets
<1>3. /\ job' \in [Variants -> JobStates] /\ started' \in [Variants -> Nat]
      /\ job'[Plain] = "running" /\ started'[Plain] = gen
  BY Zenon, <1>1, PlainVariant DEF PullInv, PullTypeOK, JobStates
<1>4. PullTypeOK'
  BY Zenon, <1>1, <1>2, <1>3 DEF PullInv, PullTypeOK
<1>5. QueueInOrder' /\ RowInOrder'
  BY <1>1, <1>2, <1>3 DEF PullInv, PullTypeOK, QueueInOrder, RowInOrder
<1>6. PagesInOrder'
  BY Zenon, <1>1, <1>2, FetcherSets DEF PullInv, PagesInOrder
<1>7. Fresh => Fresh'
  <2> SUFFICES ASSUME Fresh PROVE Fresh'
    BY Zenon
  <2>1. FetchedNotOlder' /\ DirectIsFresh'
    BY Zenon, <1>1, <1>2, FetcherSets DEF Fresh, FetchedNotOlder, DirectIsFresh, Current, Fenced
  <2>2. PageIsFresh' /\ CompletedIsFresh'
    BY Zenon, <1>1, <1>2, FetcherSets DEF Fresh, PageIsFresh, CompletedIsFresh, Current, Fenced
  <2> QED
    BY Zenon, <1>2, <2>1, <2>2, FetcherSets DEF Fresh
<1> QED
  BY Zenon, <1>1, <1>2, <1>4, <1>5, <1>6, <1>7 DEF PullInv

\* One field of an execution's record changes.
LEMMA FetchStepsTo ==
    ASSUME PullInv, NEW f \in Fetchers, NEW pc \in FetchStates,
           fetch' = [fetch EXCEPT ![f].pc = pc],
           version <= version', version' \in Nat, remote' = remote
    PROVE  /\ fetch' \in [Fetchers -> [pc : FetchStates, obs : Nat, got : Remote,
                                       same : BOOLEAN, tries : Nat]]
           /\ fetch'[f].pc = pc
           /\ \A g \in Fetchers \ {f} : fetch'[g] = fetch[g]
           /\ FetchesInOrder'
<1>1. /\ DOMAIN fetch = Fetchers /\ version \in Nat /\ remote \in Nat
      /\ fetch[f] \in [pc : FetchStates, obs : Nat, got : Remote, same : BOOLEAN, tries : Nat]
      /\ fetch[f].obs <= version /\ fetch[f].got <= remote
      /\ f # Membership => fetch[f].same = FALSE
  BY PullMaxRemote DEF PullInv, PullTypeOK, FetchesInOrder, Remote
<1>2. /\ fetch' = [fetch EXCEPT ![f] = fetch'[f]]
      /\ fetch'[f] = [pc |-> pc, obs |-> fetch[f].obs, got |-> fetch[f].got,
                      same |-> fetch[f].same, tries |-> fetch[f].tries]
  BY Zenon, <1>1
<1>3. /\ fetch'[f] \in [pc : FetchStates, obs : Nat, got : Remote, same : BOOLEAN, tries : Nat]
      /\ fetch'[f].obs <= version' /\ fetch'[f].got <= remote'
      /\ f # Membership => fetch'[f].same = FALSE
  BY <1>1, <1>2
<1> QED
  BY Zenon, <1>2, <1>3, FetchMoves

\* An execution whose comparing transaction is over.
LEMMA ApplySteps ==
    ASSUME PullInv, NEW f \in Fetchers, fetch[f].pc = "fetched",
           fetch' = [fetch EXCEPT ![f].pc = "applied"],
           UNCHANGED <<row, version>> \/ ApplyPullRequest(f),
           UNCHANGED <<gen, done, job, started, remote, undelivered, signalled,
                       branchGen, page, resolutions>>
    PROVE  /\ PullTypeOK' /\ QueueInOrder' /\ PagesInOrder' /\ FetchesInOrder' /\ RowInOrder'
           /\ fetch'[f].pc = "applied"
           /\ \A g \in Fetchers \ {f} : fetch'[g] = fetch[g]
<1>1. row' \in [sha : 0..remote, at : Nat] /\ RowInOrder' /\ version' \in Nat /\ version <= version'
  <2>1. version \in Nat /\ row \in [sha : 0..remote, at : Nat] /\ RowInOrder
    BY Zenon DEF PullInv, PullTypeOK
  <2>2. CASE UNCHANGED <<row, version>>
    BY <2>1, <2>2 DEF RowInOrder
  <2>3. CASE ApplyPullRequest(f)
    BY <2>1, <2>3, ApplyWrites
  <2> QED
    BY Zenon, <2>2, <2>3
<1>2. /\ fetch' \in [Fetchers -> [pc : FetchStates, obs : Nat, got : Remote,
                                  same : BOOLEAN, tries : Nat]]
      /\ fetch'[f].pc = "applied"
      /\ \A g \in Fetchers \ {f} : fetch'[g] = fetch[g]
      /\ FetchesInOrder'
  <2>1. "applied" \in FetchStates
    BY Zenon DEF FetchStates
  <2> QED
    BY Zenon, <1>1, <2>1, FetchStepsTo
<1>3. PullTypeOK'
  BY Zenon, <1>1, <1>2 DEF PullInv, PullTypeOK
<1>4. QueueInOrder' /\ PagesInOrder'
  BY Zenon, <1>2, FetcherSets DEF PullInv, QueueInOrder, PagesInOrder
<1> QED
  BY Zenon, <1>1, <1>2, <1>3, <1>4

\* The write of the direct job: unless a page has superseded it, its response
\* is no older than the row, and as new as the last signal when that signal
\* is the one it started from.
LEMMA ApplyDirectInv ==
    ASSUME PullInv, ApplyDirect
    PROVE  PullInv' /\ (resolutions' = 0 => row'.sha >= row.sha)
<1>1. /\ fetch[Direct].pc = "fetched" /\ Current(Direct)
      /\ fetch' = [fetch EXCEPT ![Direct].pc = "applied"]
      /\ UNCHANGED <<gen, done, job, started, remote, undelivered, signalled,
                     branchGen, page, resolutions>>
      /\ (Superseded /\ UNCHANGED <<row, version>>)
         \/ (~Superseded /\ ApplyPullRequest(Direct))
  BY Zenon DEF ApplyDirect, queueVars, remoteVars, branchVars, storeVars
<1>2. /\ PullTypeOK' /\ QueueInOrder' /\ PagesInOrder' /\ FetchesInOrder' /\ RowInOrder'
      /\ fetch'[Direct].pc = "applied"
      /\ \A g \in Fetchers \ {Direct} : fetch'[g] = fetch[g]
  BY Zenon, <1>1, FetcherSets, ApplySteps
<1> SUFFICES ASSUME resolutions = 0
             PROVE  Fresh' /\ row'.sha >= row.sha
  BY Zenon, <1>1, <1>2 DEF PullInv
<1>3. /\ Fresh /\ gen \in Nat /\ done \in Nat /\ started[Plain] \in Nat /\ row.sha \in Nat
      /\ row'.sha \in Nat /\ version \in Nat /\ signalled \in Nat
      /\ done <= gen /\ started[Plain] <= gen
  BY <1>2, PlainVariant DEF PullInv, PullTypeOK, QueueInOrder
<1>4. CASE Superseded /\ UNCHANGED <<row, version>>
  <2>1. started[Plain] # gen
    BY Zenon, <1>3, <1>4 DEF Superseded
  <2>2. FetchedNotOlder' /\ DirectIsFresh'
    BY Zenon, <1>1, <1>2, <1>3, <1>4, <2>1, FetcherSets
       DEF Fresh, FetchedNotOlder, DirectIsFresh, Current, Fenced
  <2>3. PageIsFresh' /\ CompletedIsFresh'
    BY <1>1, <1>2, <1>3, <1>4, FetcherSets DEF Fresh, PageIsFresh, CompletedIsFresh,
                                               Current, Fenced
  <2> QED
    BY <1>2, <1>3, <1>4, <2>2, <2>3, FetcherSets DEF Fresh
<1>5. CASE ~Superseded /\ ApplyPullRequest(Direct)
  <2>1. done <= started[Plain]
    BY <1>3, <1>5 DEF Superseded
  <2>2. fetch[Direct].got >= row.sha
    BY Zenon, <1>1, <1>3, <2>1 DEF Fresh, FetchedNotOlder
  <2>3. row'.sha = fetch[Direct].got /\ version' = version + 1
    BY Zenon, <1>1, <1>5, <2>2, ApplyWrites, FetcherSets
  <2>4. row'.sha >= row.sha /\ (started[Plain] = gen => row'.sha >= signalled)
    BY Zenon, <1>1, <1>3, <2>2, <2>3 DEF Fresh, DirectIsFresh
  <2>5. \A b \in Pages : Fenced(b) => row'.sha >= signalled
    BY SMTT(60), <1>3, <2>1, <2>4 DEF PullInv, PullTypeOK, PagesInOrder, Fenced
  <2>6. FetchedNotOlder'
    <3>1. \A g \in Fetchers : ~(fetch'[g].pc = "fetched" /\ Current(g)')
      BY <1>2, <1>3, <2>3 DEF PullInv, PullTypeOK, FetchesInOrder, Current
    <3> QED
      BY Zenon, <3>1, FetcherSets DEF FetchedNotOlder
  <2>7. DirectIsFresh'
    BY Zenon, <1>1, <1>2, <2>4 DEF DirectIsFresh
  <2>8. PageIsFresh'
    BY Zenon, <1>1, <1>2, <1>3, <2>5, FetcherSets DEF Fresh, PageIsFresh, Fenced
  <2>9. CompletedIsFresh'
    BY <1>1, <1>3, <2>4 DEF Fresh, CompletedIsFresh, Fenced
  <2> QED
    BY Zenon, <1>2, <1>3, <2>4, <2>6, <2>7, <2>8, <2>9, FetcherSets DEF Fresh
<1> QED
  BY Zenon, <1>1, <1>4, <1>5

\* So does the retry of an observation.
LEMMA RetryObservationInv ==
    ASSUME PullInv, RetryObservation
    PROVE  PullInv'
<1>1. /\ fetch[Direct].pc = "fetched"
      /\ fetch' = [fetch EXCEPT ![Direct].pc = "started", ![Direct].tries = @ + 1]
      /\ UNCHANGED <<gen, done, job, started, remote, undelivered, signalled, row, version,
                     branchGen, page, resolutions>>
  BY Zenon DEF RetryObservation, queueVars, remoteVars, storeVars, branchVars
<1>2. /\ fetch[Direct] \in [pc : FetchStates, obs : Nat, got : Remote, same : BOOLEAN,
                            tries : Nat]
      /\ DOMAIN fetch = Fetchers /\ version \in Nat
      /\ fetch[Direct].obs <= version /\ fetch[Direct].got <= remote
      /\ fetch[Direct].same = FALSE
  BY Zenon, FetcherSets DEF PullInv, PullTypeOK, FetchesInOrder
<1>3. /\ fetch' = [fetch EXCEPT ![Direct] = fetch'[Direct]]
      /\ fetch'[Direct] = [pc |-> "started", obs |-> fetch[Direct].obs,
                           got |-> fetch[Direct].got, same |-> fetch[Direct].same,
                           tries |-> fetch[Direct].tries + 1]
  BY Zenon, <1>1, <1>2, FetcherSets
<1>4. /\ fetch' \in [Fetchers -> [pc : FetchStates, obs : Nat, got : Remote,
                                  same : BOOLEAN, tries : Nat]]
      /\ \A g \in Fetchers \ {Direct} : fetch'[g] = fetch[g]
      /\ FetchesInOrder'
  <2>1. /\ fetch'[Direct] \in [pc : FetchStates, obs : Nat, got : Remote, same : BOOLEAN,
                               tries : Nat]
        /\ fetch'[Direct].obs <= version' /\ version <= version' /\ version' \in Nat
        /\ fetch'[Direct].got <= remote' /\ remote' = remote
        /\ fetch'[Direct].same = FALSE
    BY <1>1, <1>2, <1>3 DEF FetchStates
  <2> QED
    BY Zenon, <1>3, <2>1, FetchMoves, FetcherSets
<1>5. PullTypeOK'
  BY Zenon, <1>1, <1>4 DEF PullInv, PullTypeOK
<1>6. QueueInOrder' /\ RowInOrder' /\ PagesInOrder'
  BY Zenon, <1>1, <1>4, FetcherSets DEF PullInv, QueueInOrder, RowInOrder, PagesInOrder
<1>7. Fresh => Fresh'
  <2> SUFFICES ASSUME Fresh PROVE Fresh'
    BY Zenon
  <2>1. fetch'[Direct].pc = "started"
    BY <1>3
  <2>2. FetchedNotOlder' /\ DirectIsFresh'
    BY Zenon, <1>1, <1>4, <2>1, FetcherSets
       DEF Fresh, FetchedNotOlder, DirectIsFresh, Current, Fenced
  <2>3. PageIsFresh' /\ CompletedIsFresh'
    BY Zenon, <1>1, <1>4, FetcherSets DEF Fresh, PageIsFresh, CompletedIsFresh, Current, Fenced
  <2> QED
    BY Zenon, <1>4, <2>2, <2>3, FetcherSets DEF Fresh
<1> QED
  BY Zenon, <1>1, <1>4, <1>5, <1>6, <1>7 DEF PullInv

\* The direct job ends: what it completes, it has shown.
LEMMA DirectEndsInv ==
    ASSUME PullInv, CompleteDirect \/ FailDirect
    PROVE  PullInv'
<1>1. /\ fetch' = [fetch EXCEPT ![Direct] = IdleFetch]
      /\ UNCHANGED <<gen, started, remote, undelivered, signalled, row, version,
                     branchGen, page, resolutions>>
  BY Zenon DEF CompleteDirect, FailDirect, CompleteRefresh, RetryJob, DiscardJob, remoteVars,
         storeVars, branchVars
<1>2. job' \in [Variants -> JobStates]
  BY Zenon DEF CompleteDirect, FailDirect, CompleteRefresh, RetryJob, DiscardJob, PullInv,
         PullTypeOK, JobStates
<1>3. \/ done' = done
      \/ fetch[Direct].pc = "applied" /\ done' = started[Plain] /\ started[Plain] > done
  BY Zenon DEF CompleteDirect, FailDirect, CompleteRefresh, RetryJob, DiscardJob
<1>4. /\ gen \in Nat /\ done \in Nat /\ started[Plain] \in Nat /\ done' \in Nat
      /\ done <= done' /\ done' <= gen
  BY <1>3, PlainVariant DEF PullInv, PullTypeOK, QueueInOrder
<1>5. /\ fetch' \in [Fetchers -> [pc : FetchStates, obs : Nat, got : Remote,
                                  same : BOOLEAN, tries : Nat]]
      /\ fetch'[Direct].pc = "idle"
      /\ \A g \in Fetchers \ {Direct} : fetch'[g] = fetch[g]
      /\ FetchesInOrder'
  <2>1. "idle" \in FetchStates /\ version <= version' /\ version' \in Nat
    BY <1>1 DEF FetchStates, PullInv, PullTypeOK
  <2> QED
    BY Zenon, <1>1, <2>1, FetchResets, FetcherSets
<1>6. PullTypeOK'
  BY Zenon, <1>1, <1>2, <1>4, <1>5 DEF PullInv, PullTypeOK
<1>7. QueueInOrder' /\ RowInOrder'
  BY Zenon, <1>1, <1>4, <1>5 DEF PullInv, QueueInOrder, RowInOrder
<1>8. PagesInOrder'
  <2>1. \A b \in Pages : page[b].target \in Nat
    BY Zenon DEF PullInv, PullTypeOK
  <2> QED
    BY <1>1, <1>4, <1>5, <2>1, FetcherSets DEF PullInv, PagesInOrder
<1>9. Fresh => Fresh'
  <2> SUFFICES ASSUME Fresh PROVE Fresh'
    BY Zenon
  <2>1. FetchedNotOlder' /\ DirectIsFresh'
    BY Zenon, <1>1, <1>5, FetcherSets DEF Fresh, FetchedNotOlder, DirectIsFresh, Current, Fenced
  <2>2. PageIsFresh'
    BY Zenon, <1>1, <1>5, FetcherSets DEF Fresh, PageIsFresh, Current, Fenced
  <2>3. CompletedIsFresh'
    BY Zenon, <1>1, <1>3 DEF Fresh, DirectIsFresh, CompletedIsFresh, Fenced
  <2> QED
    BY Zenon, <1>5, <2>1, <2>2, <2>3, FetcherSets DEF Fresh
<1> QED
  BY Zenon, <1>1, <1>5, <1>6, <1>7, <1>8, <1>9 DEF PullInv

-----------------------------------------------------------------------------
(* The page of a branch push                                               *)

\* One page's job, status and execution change, and the status only when the
\* page, still pending and current, has been applied.
LEMMA PageMoves ==
    ASSUME PullInv, NEW b \in Pages, NEW pc \in {"idle", "started"},
           page[b].job # "none" \/ fetch[b].pc # "idle",
           UNCHANGED <<gen, done, job, started, remote, undelivered, signalled, row, version,
                       branchGen, resolutions>>,
           \/ fetch' = [fetch EXCEPT ![b] = [IdleFetch EXCEPT !.pc = pc]]
           \/ fetch' = [fetch EXCEPT ![b] = IdleFetch] /\ pc = "idle"
           \/ fetch' = fetch,
           page' = [page EXCEPT ![b] = page'[b]],
           page'[b].job \in JobStates,
           page'[b] = [status |-> page'[b].status, job |-> page'[b].job,
                       target |-> page[b].target],
           \/ page'[b].status = page[b].status
           \/ page'[b].status = "completed" /\ fetch[b].pc = "applied" /\ branchGen = b
    PROVE  PullInv'
<1>1. /\ fetch' \in [Fetchers -> [pc : FetchStates, obs : Nat, got : Remote,
                                  same : BOOLEAN, tries : Nat]]
      /\ fetch'[b].pc \in {"idle", "started"} \/ fetch'[b] = fetch[b]
      /\ \A g \in Fetchers \ {b} : fetch'[g] = fetch[g]
      /\ FetchesInOrder'
  <2>1. pc \in FetchStates /\ version <= version' /\ version' \in Nat /\ b \in Fetchers
    BY FetcherSets DEF FetchStates, PullInv, PullTypeOK
  <2>2. CASE fetch' = fetch
    BY Zenon, <2>2 DEF PullInv, PullTypeOK, FetchesInOrder
  <2> QED
    BY ZenonT(120), <2>1, <2>2, FetchResets
<1>2. /\ DOMAIN page = Pages
      /\ page[b] \in [status : {"none", "pending", "superseded", "completed"},
                      job : JobStates, target : Nat]
      /\ \A c \in Pages \ {b} : page'[c] = page[c]
      /\ page'[b].target = page[b].target
  BY DEF PullInv, PullTypeOK
<1>3. /\ page' \in [Pages -> [status : {"none", "pending", "superseded", "completed"},
                             job : JobStates, target : Nat]]
  <2>1. page'[b] \in [status : {"none", "pending", "superseded", "completed"},
                      job : JobStates, target : Nat]
    BY Zenon, <1>2
  <2> QED
    BY Zenon, <1>2, <2>1 DEF PullInv, PullTypeOK
<1>4. \A c \in Pages : Fenced(c)' = Fenced(c)
  BY ZenonT(120), <1>2 DEF Fenced
<1>5. PullTypeOK'
  BY Zenon, <1>1, <1>3 DEF PullInv, PullTypeOK
<1>6. QueueInOrder' /\ RowInOrder'
  BY Zenon, <1>1, FetcherSets DEF PullInv, QueueInOrder, RowInOrder
<1>7. PagesInOrder'
  <2>1. ~(b > branchGen)
    BY DEF PullInv, PagesInOrder, NoPage
  <2>2. b = branchGen => page'[b].status \in {"pending", "completed"}
    BY Zenon DEF PullInv, PagesInOrder
  <2>3. \A c \in Pages : c > branchGen => page'[c] = NoPage /\ fetch'[c].pc = "idle"
    BY <1>1, <1>2, <2>1, FetcherSets DEF PullInv, PagesInOrder
  <2>4. \A c \in Pages : c = branchGen =>
          page'[c].status \in {"pending", "completed"} /\ page'[c].target <= done
    BY Zenon, <1>2, <2>2 DEF PullInv, PagesInOrder
  <2> QED
    BY Zenon, <2>3, <2>4 DEF PullInv, PagesInOrder
<1>8. Fresh => Fresh'
  <2> SUFFICES ASSUME Fresh PROVE Fresh'
    BY Zenon
  <2>1. FetchedNotOlder' /\ DirectIsFresh'
    BY ZenonT(120), <1>1, <1>4, FetcherSets DEF Fresh, FetchedNotOlder, DirectIsFresh, Current
  <2>2. PageIsFresh'
    <3> SUFFICES ASSUME NEW c \in Pages, Fenced(c)
                 PROVE  /\ fetch'[c].pc = "fetched" => fetch'[c].got >= signalled
                        /\ fetch'[c].pc \in {"observed", "fetched"} /\ ~Current(c)'
                             => row.sha >= signalled
                        /\ fetch'[c].pc = "applied" => row.sha >= signalled
                        /\ page'[c].status = "completed" => row.sha >= signalled
      BY Zenon, <1>4 DEF PageIsFresh
    <3>1. page'[c].status = "completed" => page[c].status = "completed" \/ fetch[c].pc = "applied"
      BY Zenon, <1>2
    <3> QED
      BY <1>1, <3>1, FetcherSets DEF Fresh, PageIsFresh, Current
  <2>3. CompletedIsFresh'
    BY Zenon, <1>4 DEF Fresh, CompletedIsFresh
  <2> QED
    BY Zenon, <1>1, <2>1, <2>2, <2>3, FetcherSets DEF Fresh
<1> QED
  BY Zenon, <1>1, <1>5, <1>6, <1>7, <1>8 DEF PullInv

\* So does every step of a branch page job.
LEMMA PageJobInv ==
    ASSUME PullInv, NEW b \in Pages, StartPage(b) \/ CompletePage(b) \/ FailPage(b)
    PROVE  PullInv'
<1>1. /\ DOMAIN page = Pages
      /\ page[b] \in [status : {"none", "pending", "superseded", "completed"},
                      job : JobStates, target : Nat]
  BY Zenon DEF PullInv, PullTypeOK
<1>2. UNCHANGED <<gen, done, job, started, remote, undelivered, signalled, row, version,
                  branchGen, resolutions>>
  BY Zenon DEF StartPage, CompletePage, FailPage, queueVars, remoteVars, storeVars
<1>3. CASE StartPage(b)
  <2>1. /\ page[b].job = "queued"
        /\ \E next \in {"running", "none"} : page' = [page EXCEPT ![b].job = next]
        /\ \/ fetch' = [fetch EXCEPT ![b] = [IdleFetch EXCEPT !.pc = "started"]]
           \/ fetch' = fetch
    BY Zenon, <1>3 DEF StartPage
  <2>2. /\ page' = [page EXCEPT ![b] = page'[b]] /\ page'[b].job \in JobStates
        /\ page'[b] = [status |-> page'[b].status, job |-> page'[b].job,
                       target |-> page[b].target]
        /\ page'[b].status = page[b].status
    BY Zenon, <1>1, <2>1 DEF JobStates
  <2> QED
    BY Zenon, <1>2, <2>1, <2>2, PageMoves
<1>4. CASE FailPage(b)
  <2>1. /\ page[b].job = "running"
        /\ \E next \in {"queued", "none"} : page' = [page EXCEPT ![b].job = next]
        /\ fetch' = [fetch EXCEPT ![b] = IdleFetch]
    BY Zenon, <1>4 DEF FailPage
  <2>2. /\ page' = [page EXCEPT ![b] = page'[b]] /\ page'[b].job \in JobStates
        /\ page'[b] = [status |-> page'[b].status, job |-> page'[b].job,
                       target |-> page[b].target]
        /\ page'[b].status = page[b].status
    BY Zenon, <1>1, <2>1 DEF JobStates
  <2> QED
    BY Zenon, <1>2, <2>1, <2>2, PageMoves
<1>5. CASE CompletePage(b)
  <2>1. /\ fetch[b].pc = "applied"
        /\ fetch' = [fetch EXCEPT ![b] = IdleFetch]
        /\ page' = [page EXCEPT ![b].job = "none",
                                ![b].status = IF branchGen = b /\ @ = "pending"
                                              THEN "completed" ELSE @]
    BY Zenon, <1>5 DEF CompletePage
  <2>2. /\ page' = [page EXCEPT ![b] = page'[b]] /\ page'[b].job \in JobStates
        /\ page'[b] = [status |-> page'[b].status, job |-> page'[b].job,
                       target |-> page[b].target]
        /\ \/ page'[b].status = page[b].status
           \/ page'[b].status = "completed" /\ branchGen = b
    BY Zenon, <1>1, <2>1 DEF JobStates
  <2> QED
    BY Zenon, <1>2, <2>1, <2>2, PageMoves
<1> QED
  BY Zenon, <1>3, <1>4, <1>5

\* The write of a page: a fenced response is as new as the last signal, and
\* one that another write has overtaken finds that signal in the row.
LEMMA ApplyPageInv ==
    ASSUME PullInv, NEW b \in Pages, ApplyPage(b)
    PROVE  PullInv' /\ (resolutions' = 0 => row'.sha >= row.sha)
<1>1. /\ fetch[b].pc = "fetched"
      /\ fetch' = [fetch EXCEPT ![b].pc = "applied"]
      /\ UNCHANGED <<gen, done, job, started, remote, undelivered, signalled,
                     branchGen, page, resolutions>>
      /\ (~(Current(b) /\ Fenced(b)) /\ UNCHANGED <<row, version>>)
         \/ (Current(b) /\ Fenced(b) /\ ApplyPullRequest(b))
  BY Zenon DEF ApplyPage, queueVars, remoteVars, branchVars, storeVars
<1>2. /\ PullTypeOK' /\ QueueInOrder' /\ PagesInOrder' /\ FetchesInOrder' /\ RowInOrder'
      /\ fetch'[b].pc = "applied"
      /\ \A g \in Fetchers \ {b} : fetch'[g] = fetch[g]
  BY Zenon, <1>1, FetcherSets, ApplySteps
<1> SUFFICES ASSUME resolutions = 0
             PROVE  Fresh' /\ row'.sha >= row.sha
  BY Zenon, <1>1, <1>2 DEF PullInv
<1>3. /\ Fresh /\ row.sha \in Nat /\ row'.sha \in Nat /\ version \in Nat
      /\ signalled \in Nat
  BY <1>2 DEF PullInv, PullTypeOK
<1>4. CASE ~(Current(b) /\ Fenced(b)) /\ UNCHANGED <<row, version>>
  <2>1. FetchedNotOlder' /\ DirectIsFresh'
    BY Zenon, <1>1, <1>2, <1>3, <1>4, FetcherSets
       DEF Fresh, FetchedNotOlder, DirectIsFresh, Current, Fenced
  <2>2. Fenced(b) => row.sha >= signalled
    BY Zenon, <1>1, <1>3, <1>4 DEF Fresh, PageIsFresh
  <2>3. PageIsFresh'
    BY ZenonT(120), <1>1, <1>2, <1>3, <1>4, <2>2, FetcherSets DEF Fresh, PageIsFresh, Current, Fenced
  <2>4. CompletedIsFresh'
    BY Zenon, <1>1, <1>3, <1>4 DEF Fresh, CompletedIsFresh, Fenced
  <2> QED
    <3>1. fetch'[Membership].pc = "idle"
      BY Zenon, <1>1, <1>2, <1>3, <1>4, FetcherSets DEF Fresh
    <3>2. row'.sha >= row.sha
      BY <1>3, <1>4
    <3> QED
      BY Zenon, <2>1, <2>3, <2>4, <3>1, <3>2 DEF Fresh
<1>5. CASE Current(b) /\ Fenced(b) /\ ApplyPullRequest(b)
  <2>1. fetch[b].got >= row.sha /\ fetch[b].got >= signalled
    BY Zenon, <1>1, <1>3, <1>5 DEF Fresh, FetchedNotOlder, PageIsFresh
  <2>2. row'.sha = fetch[b].got /\ version' = version + 1
    BY Zenon, <1>1, <1>5, <2>1, ApplyWrites, FetcherSets
  <2>3. row'.sha >= row.sha /\ row'.sha >= signalled
    BY Zenon, <2>1, <2>2
  <2>4. FetchedNotOlder'
    <3>1. \A g \in Fetchers : ~(fetch'[g].pc = "fetched" /\ Current(g)')
      BY <1>2, <1>3, <2>2 DEF PullInv, PullTypeOK, FetchesInOrder, Current
    <3> QED
      BY Zenon, <3>1, FetcherSets DEF FetchedNotOlder
  <2>5. DirectIsFresh'
    BY Zenon, <1>1, <1>2, <1>3, <2>3, FetcherSets DEF Fresh, DirectIsFresh
  <2>6. PageIsFresh' /\ CompletedIsFresh'
    BY Zenon, <1>1, <1>2, <1>3, <2>3, FetcherSets DEF Fresh, PageIsFresh, CompletedIsFresh, Fenced
  <2> QED
    BY Zenon, <1>2, <1>3, <2>3, <2>4, <2>5, <2>6, FetcherSets DEF Fresh
<1> QED
  BY Zenon, <1>1, <1>4, <1>5

-----------------------------------------------------------------------------
(* The stack-membership resolution                                         *)

\* So does every step of a membership resolution.
LEMMA MembershipInv ==
    ASSUME PullInv, StartMembership \/ ApplyMembership
    PROVE  PullInv' /\ resolutions' # 0
<1>1. /\ UNCHANGED <<gen, done, job, started, remote, undelivered, signalled, branchGen, page>>
      /\ \E pc \in {"idle", "started"} :
           fetch' = [fetch EXCEPT ![Membership] = [IdleFetch EXCEPT !.pc = pc]]
      /\ UNCHANGED <<row, version>> \/ ApplyPullRequest(Membership)
  BY Zenon DEF StartMembership, ApplyMembership, queueVars, remoteVars, branchVars, storeVars
<1>2. resolutions' \in Nat /\ resolutions' # 0
  BY DEF StartMembership, ApplyMembership, PullInv, PullTypeOK, Fresh
<1>3. row' \in [sha : 0..remote, at : Nat] /\ RowInOrder' /\ version' \in Nat /\ version <= version'
  <2>1. version \in Nat /\ row \in [sha : 0..remote, at : Nat] /\ RowInOrder
    BY Zenon DEF PullInv, PullTypeOK
  <2>2. CASE UNCHANGED <<row, version>>
    BY <2>1, <2>2 DEF RowInOrder
  <2>3. CASE ApplyPullRequest(Membership)
    BY <1>1, <2>1, <2>3, ApplyWrites, FetcherSets
  <2> QED
    BY Zenon, <1>1, <2>2, <2>3
<1>4. /\ fetch' \in [Fetchers -> [pc : FetchStates, obs : Nat, got : Remote,
                                  same : BOOLEAN, tries : Nat]]
      /\ \A g \in Fetchers \ {Membership} : fetch'[g] = fetch[g]
      /\ FetchesInOrder'
  <2>1. {"idle", "started"} \subseteq FetchStates
    BY Zenon DEF FetchStates
  <2> QED
    BY Zenon, <1>1, <1>3, <2>1, FetchResets, FetcherSets
<1>5. PullTypeOK'
  BY Zenon, <1>1, <1>2, <1>3, <1>4 DEF PullInv, PullTypeOK
<1>6. QueueInOrder' /\ PagesInOrder'
  BY Zenon, <1>1, <1>4, FetcherSets DEF PullInv, QueueInOrder, PagesInOrder
<1> QED
  BY Zenon, <1>2, <1>3, <1>4, <1>5, <1>6 DEF PullInv

-----------------------------------------------------------------------------
(* The theorems                                                            *)

\* Every step preserves the invariant.
LEMMA PullStepInv ==
    ASSUME PullInv, [PullNext]_prVars
    PROVE  PullInv'
<1>1. CASE UNCHANGED prVars
  <2>1. UNCHANGED <<gen, done, job, started, remote, undelivered, signalled, row, version,
                    branchGen, page, fetch, resolutions>>
    BY Zenon, <1>1 DEF prVars, queueVars, remoteVars, storeVars, branchVars, fetchVars
  <2>2. PullTypeOK' /\ QueueInOrder' /\ PagesInOrder' /\ FetchesInOrder' /\ RowInOrder'
    BY Zenon, <2>1 DEF PullInv, PullTypeOK, QueueInOrder, PagesInOrder, FetchesInOrder, RowInOrder
  <2>3. Fresh => Fresh'
    BY Zenon, <2>1 DEF Fresh, FetchedNotOlder, DirectIsFresh, PageIsFresh, CompletedIsFresh,
                Current, Fenced
  <2> QED
    BY Zenon, <2>1, <2>2, <2>3 DEF PullInv
<1>2. CASE \E f \in Fetchers : BeginObservation(f) \/ Fetch(f)
  BY Zenon, <1>2, BeginObservationInv, FetchInv
<1>3. CASE \E b \in Pages : PageStep(b)
  BY Zenon, <1>3, PageJobInv, ApplyPageInv DEF PageStep
<1>4. CASE \E r \in undelivered : DispatchPush(r)
  BY Zenon, <1>4, DispatchPushInv
<1>5. CASE RemotePush \/ DispatchDirect \/ Reconcile
  BY Zenon, <1>5, RemotePushInv, DispatchDirectInv, ReconcileInv
<1>6. CASE StartDirect \/ ApplyDirect \/ RetryObservation \/ CompleteDirect \/ FailDirect
  BY Zenon, <1>6, StartDirectInv, ApplyDirectInv, RetryObservationInv, DirectEndsInv
<1>7. CASE StartMembership \/ ApplyMembership
  BY Zenon, <1>7, MembershipInv
<1> QED
  BY Zenon, <1>1, <1>2, <1>3, <1>4, <1>5, <1>6, <1>7 DEF PullNext

\* A step of the system without membership resolutions never moves the row to
\* an older version.
LEMMA PullStepMonotone ==
    ASSUME PullInv, [PullNext]_prVars, resolutions' = 0
    PROVE  row'.sha >= row.sha
<1>1. row.sha \in Nat
  BY DEF PullInv, PullTypeOK
<1>2. CASE \E r \in undelivered : DispatchPush(r)
  <2>1. PICK r \in undelivered : row' = IF row.sha = r - 1 THEN [row EXCEPT !.sha = r] ELSE row
    BY Zenon, <1>2 DEF DispatchPush
  <2>2. r \in Nat /\ row \in [sha : 0..remote, at : Nat]
    BY DEF PullInv, PullTypeOK
  <2> QED
    BY <1>1, <2>1, <2>2
<1>3. CASE ApplyDirect
  BY Zenon, <1>3, ApplyDirectInv
<1>4. CASE \E b \in Pages : ApplyPage(b)
  BY Zenon, <1>4, ApplyPageInv
<1>5. CASE StartMembership \/ ApplyMembership
  BY Zenon, <1>5, MembershipInv
<1>6. CASE row' = row
  BY <1>1, <1>6
<1>7. CASE \E f \in Fetchers : BeginObservation(f) \/ Fetch(f)
  BY Zenon, <1>6, <1>7 DEF BeginObservation, Fetch, storeVars
<1>8. CASE \E b \in Pages : StartPage(b) \/ CompletePage(b) \/ FailPage(b)
  BY Zenon, <1>6, <1>8 DEF StartPage, CompletePage, FailPage, storeVars
<1>9. CASE \/ UNCHANGED prVars \/ RemotePush \/ DispatchDirect \/ Reconcile \/ StartDirect
           \/ RetryObservation \/ CompleteDirect \/ FailDirect
  BY Zenon, <1>6, <1>9 DEF prVars, RemotePush, DispatchDirect, Reconcile, StartDirect,
                    RetryObservation, CompleteDirect, FailDirect, storeVars
<1> QED
  BY Zenon, <1>2, <1>3, <1>4, <1>5, <1>7, <1>8, <1>9 DEF PullNext, PageStep

\* The inductive invariant of the three fetchers.
THEOREM PullInvariant == PullSpec => []PullInv
<1>1. PullInit => PullInv
  BY Zenon, PullInitInv
<1>2. PullInv /\ [PullNext]_prVars => PullInv'
  BY Zenon, PullStepInv
<1> QED
  BY <1>1, <1>2, PTL DEF PullSpec

\* C-C2: in every execution, for any number of pushes, signals, failed jobs and
\* equal timestamps, the cached SHA never goes back to an older remote version
\* while no membership resolution has run.
THEOREM RowNeverRegresses == PullSpec => CacheNeverRegresses
<1>1. PullInv /\ [PullNext]_prVars => [resolutions' = 0 => row'.sha >= row.sha]_prVars
  BY Zenon, PullStepMonotone
<1> QED
  BY <1>1, PullInvariant, PTL DEF PullSpec, CacheNeverRegresses

\* C-I4, C-Q1: in every execution, a system with no outstanding generation, no
\* live job and no pending page shows at least what GitHub had when the last
\* signal was dispatched.
THEOREM RestShowsTheLastSignal == PullSpec => []QuiescentIsFresh
<1>1. PullInv => QuiescentIsFresh
  <2> SUFFICES ASSUME PullInv, Quiescent, resolutions = 0
               PROVE  row.sha >= signalled
    BY Zenon DEF QuiescentIsFresh
  <2>1. gen = done
    BY DEF Quiescent, Outstanding, PullInv, PullTypeOK, QueueInOrder
  <2>2. CASE \E b \in Pages : Fenced(b)
    BY Zenon, <2>2 DEF PullInv, Fresh, PageIsFresh, PagesInOrder, Quiescent, Fenced
  <2>3. CASE \A b \in Pages : ~Fenced(b)
    BY Zenon, <2>1, <2>3 DEF PullInv, Fresh, CompletedIsFresh
  <2> QED
    BY Zenon, <2>2, <2>3
<1> QED
  BY <1>1, PullInvariant, PTL

\* The direct job, the pushes' claims and the reconciler take only steps of the
\* refresh queue, so that the queue's theorems hold of the composition.
THEOREM PullImplementsQueue == PullSpec => QueueSpec
<1>1. PullInit => QueueInit
  BY Zenon DEF PullInit
<1>2. [PullNext]_prVars => [QueueNext]_queueVars
  <2> SUFFICES ASSUME [PullNext]_prVars PROVE [QueueNext]_queueVars
    BY Zenon
  <2>1. CASE DispatchDirect
    BY Zenon, <2>1 DEF DispatchDirect, QueueNext
  <2>2. CASE \E r \in undelivered : DispatchPush(r)
    BY Zenon, <2>2 DEF DispatchPush, QueueNext
  <2>3. CASE StartDirect \/ CompleteDirect \/ FailDirect
    BY Zenon, <2>3, PlainVariant DEF StartDirect, CompleteDirect, FailDirect, QueueNext
  <2>4. CASE Reconcile
    BY Zenon, <2>4 DEF Reconcile, QueueNext
  <2>5. CASE UNCHANGED prVars \/ RemotePush \/ ApplyDirect \/ RetryObservation
             \/ StartMembership \/ ApplyMembership
    BY Zenon, <2>5 DEF prVars, RemotePush, ApplyDirect, RetryObservation, StartMembership,
                ApplyMembership
  <2>6. CASE \E f \in Fetchers : BeginObservation(f) \/ Fetch(f)
    BY Zenon, <2>6 DEF BeginObservation, Fetch
  <2>7. CASE \E b \in Pages : PageStep(b)
    BY Zenon, <2>7 DEF PageStep, StartPage, ApplyPage, CompletePage, FailPage
  <2> QED
    BY Zenon, <2>1, <2>2, <2>3, <2>4, <2>5, <2>6, <2>7 DEF PullNext
<1> QED
  BY <1>1, <1>2, PTL DEF PullSpec, QueueSpec
=============================================================================
