-------------------------- MODULE ReconcileProofs --------------------------
(***************************************************************************)
(* The loops that repair the cache without webhooks, for every set of rows *)
(* and every history of GitHub: no row outlives its staleness bound, a     *)
(* sweep sees what stays listed, and only drift is reported.               *)
(***************************************************************************)
EXTENDS StalenessSchedule, ListingSweep, DriftDetector, FiniteSetTheorems,
        WellFoundedInduction, TLAPS

-----------------------------------------------------------------------------
(* The staleness schedule.  The bound is not inductive: a row is safe      *)
(* either because its job completes in time or because the next kickoff    *)
(* still finds it young enough to be started at once.                      *)

\* The inductive invariant.
ScheduleInv ==
    /\ age \in [Entities -> Nat]
    /\ due \in [Entities -> Nat \cup {NoJob}]
    /\ sinceKick \in 0 .. Cadence
    /\ \A e \in Entities :
         \/ due[e] # NoJob /\ age[e] + due[e] <= Bound
         \/ age[e] <= DueAge - 1 + sinceKick

\* The shares of the bound are integers with room to spare (Config.validate).
LEMMA PlanIsSound ==
    /\ Bound \in Nat /\ Cadence \in Nat /\ CompletionHeadroom \in Nat
    /\ DueAge \in Nat /\ DueAge > 0
    /\ DueAge + Cadence + CompletionHeadroom = Bound
<1>1. Cadence \in Int /\ CompletionHeadroom \in Int
  BY ScheduleAssumption DEF Cadence, CompletionHeadroom
<1> HIDE DEF Cadence, CompletionHeadroom
<1> QED
  BY <1>1, ScheduleAssumption DEF DueAge

\* spreadRefreshSchedule never starts a job after its latest start, unless
\* that has passed already; then it starts now.
LEMMA SpreadMeetsDeadline ==
    ASSUME NEW i \in Nat, NEW n \in Nat, NEW latest \in Int
    PROVE  /\ Spread(i, n, latest) \in Nat
           /\ latest >= 0 => Spread(i, n, latest) <= latest
<1>1. CASE n < 2
  BY Zenon, <1>1 DEF Spread
<1>2. CASE ~(n < 2)
  <2> DEFINE even == (Cadence * i) \div (n - 1)
  <2>1. even \in Int
    BY <1>2, PlanIsSound
  <2> HIDE DEF even
  <2>2. Spread(i, n, latest) =
          IF (IF even > latest THEN latest ELSE even) < 0 THEN 0
          ELSE IF even > latest THEN latest ELSE even
    BY Zenon, <1>2 DEF Spread, even
  <2> QED
    BY <2>1, <2>2
<1> QED
  BY Zenon, <1>1, <1>2

\* Sizes and positions are naturals.
LEMMA IndexTypes ==
    ASSUME NEW S \in SUBSET Entities, NEW e \in Entities
    PROVE  /\ Cardinality(S) \in Nat
           /\ StaleIndex(S, e) \in Nat
           /\ ListIndex(S, e) \in Nat
<1>1. \A T \in SUBSET Entities : Cardinality(T) \in Nat
  BY ZenonT(120), ScheduleAssumption, FS_Subset, FS_CardinalityType
<1>2. /\ {f \in S : age[f] > age[e] \/ (age[f] = age[e] /\ f < e)} \in SUBSET Entities
      /\ {f \in S : f < e} \in SUBSET Entities
  BY Zenon
<1> QED
  BY Zenon, <1>1, <1>2 DEF StaleIndex, ListIndex

\* Inserting a refresh gives a row a job, and never delays one it has.
LEMMA InsertOnlyExpedites ==
    ASSUME NEW d \in Nat \cup {NoJob}, NEW start \in Nat
    PROVE  /\ Expedited(d, start) \in Nat
           /\ d # NoJob => Expedited(d, start) <= d
           /\ d = NoJob => Expedited(d, start) = start + CompletionHeadroom
  BY PlanIsSound DEF Expedited, NoJob

\* A kickoff keeps every row in time, whatever starts it gives the stale rows,
\* as long as each leaves the completion headroom before its deadline.
LEMMA EnqueueStaleStep ==
    ASSUME ScheduleInv, NEW start, EnqueueStale(start),
           \A e \in Stale :
             /\ start[e] \in Nat
             /\ Bound - age[e] - CompletionHeadroom >= 0
                  => start[e] <= Bound - age[e] - CompletionHeadroom
    PROVE  ScheduleInv'
<1> USE PlanIsSound
<1>0. /\ age \in [Entities -> Nat] /\ due \in [Entities -> Nat \cup {NoJob}]
      /\ sinceKick \in 0 .. Cadence
      /\ \A e \in Entities :
           \/ due[e] # NoJob /\ age[e] + due[e] <= Bound
           \/ age[e] <= DueAge - 1 + sinceKick
  BY Zenon DEF ScheduleInv
<1>2. /\ age' = age /\ sinceKick = Cadence /\ sinceKick' = 0
      /\ due' = [e \in Entities |->
                   IF e \in Stale THEN Expedited(due[e], start[e]) ELSE due[e]]
  BY Zenon DEF EnqueueStale, InsertRefreshes
<1>3. ASSUME NEW e \in Entities
      PROVE  /\ due'[e] \in Nat \cup {NoJob}
             /\ \/ due'[e] # NoJob /\ age[e] + due'[e] <= Bound
                \/ age[e] <= DueAge - 1
  <2>1. age[e] \in Nat /\ due[e] \in Nat \cup {NoJob}
    BY Zenon, <1>0
  <2>2. CASE e \notin Stale
    BY <1>2, <2>1, <2>2 DEF Stale
  <2>3. CASE e \in Stale
    <3>1. due'[e] = Expedited(due[e], start[e])
      BY Zenon, <1>2, <2>3
    <3>2. /\ start[e] \in Nat
          /\ Bound - age[e] - CompletionHeadroom >= 0
               => start[e] <= Bound - age[e] - CompletionHeadroom
      BY Zenon, <2>3
    <3>3. due'[e] \in Nat /\ due'[e] # NoJob
      <4>1. Expedited(due[e], start[e]) \in Nat
        BY ZenonT(120), <2>1, <3>2, InsertOnlyExpedites
      <4> QED
        BY <3>1, <4>1 DEF NoJob
    <3>4. CASE due[e] # NoJob /\ age[e] + due[e] <= Bound
      <4>1. due'[e] <= due[e]
        BY ZenonT(120), <2>1, <3>1, <3>2, <3>4, InsertOnlyExpedites
      <4>2. due[e] \in Nat
        BY Zenon, <2>1, <3>4
      <4> QED
        BY <2>1, <3>3, <3>4, <4>1, <4>2
    <3>5. CASE age[e] <= DueAge - 1 + sinceKick
      <4>1. Bound - age[e] - CompletionHeadroom >= 0
        BY <1>2, <2>1, <3>5
      <4>2. start[e] + CompletionHeadroom <= Bound - age[e]
        BY <2>1, <3>2, <4>1
      <4>3. due'[e] <= start[e] + CompletionHeadroom
        BY <2>1, <3>1, <3>2 DEF Expedited, NoJob
      <4> QED
        BY <2>1, <3>2, <3>3, <4>2, <4>3
    <3> QED
      BY Zenon, <1>0, <3>4, <3>5
  <2> QED
    BY Zenon, <2>2, <2>3
<1> QED
  BY <1>0, <1>2, <1>3 DEF ScheduleInv

\* Every step preserves the invariant.
LEMMA ScheduleInvStep == ScheduleInv /\ [Next]_scheduleVars => ScheduleInv'
<1> SUFFICES ASSUME ScheduleInv, [Next]_scheduleVars PROVE ScheduleInv'
  BY Zenon
<1> USE PlanIsSound
<1>0. /\ age \in [Entities -> Nat] /\ due \in [Entities -> Nat \cup {NoJob}]
      /\ sinceKick \in 0 .. Cadence
      /\ \A e \in Entities :
           \/ due[e] # NoJob /\ age[e] + due[e] <= Bound
           \/ age[e] <= DueAge - 1 + sinceKick
  BY Zenon DEF ScheduleInv
<1>s. Stale \in SUBSET Entities
  BY Zenon DEF Stale
<1>1. CASE KickoffOpen
  <2> DEFINE start == [e \in Stale |->
                         Spread(StaleIndex(Stale, e), Cardinality(Stale),
                                Bound - age[e] - CompletionHeadroom)]
  <2>1. ASSUME NEW e \in Stale
        PROVE  /\ start[e] \in Nat
               /\ Bound - age[e] - CompletionHeadroom >= 0
                    => start[e] <= Bound - age[e] - CompletionHeadroom
    <3> DEFINE latest == Bound - age[e] - CompletionHeadroom
               i == StaleIndex(Stale, e)
               n == Cardinality(Stale)
    <3>1. latest \in Int
      BY <1>0, <1>s
    <3>2. i \in Nat /\ n \in Nat
      BY Zenon, <1>s, IndexTypes
    <3>3. start[e] = Spread(i, n, latest)
      BY Zenon
    <3> HIDE DEF start, latest, i, n
    <3>4. Spread(i, n, latest) \in Nat /\ (latest >= 0 => Spread(i, n, latest) <= latest)
      BY Zenon, <3>1, <3>2, SpreadMeetsDeadline
    <3> QED
      BY Zenon, <3>3, <3>4 DEF latest
  <2>2. EnqueueStale(start)
    BY Zenon, <1>1 DEF KickoffOpen
  <2> HIDE DEF start
  <2> QED
    BY Zenon, <2>1, <2>2, EnqueueStaleStep
<1>6. CASE KickoffTracked
  <2> DEFINE start == [e \in Stale |-> 0]
  <2>1. ASSUME NEW e \in Stale
        PROVE  /\ start[e] \in Nat
               /\ Bound - age[e] - CompletionHeadroom >= 0
                    => start[e] <= Bound - age[e] - CompletionHeadroom
    BY Zenon, <1>0, <1>s
  <2>2. EnqueueStale(start)
    BY Zenon, <1>6 DEF KickoffTracked
  <2> HIDE DEF start
  <2> QED
    BY Zenon, <2>1, <2>2, EnqueueStaleStep
<1>2. ASSUME NEW S \in SUBSET Entities, FanOut(S) PROVE ScheduleInv'
  <2> DEFINE start(e) == Spread(ListIndex(S, e), Cardinality(S),
                                Bound - CompletionHeadroom)
  <2>1. \A e \in Entities : start(e) \in Nat
    <3> TAKE e \in Entities
    <3>1. Bound - CompletionHeadroom \in Int
      OBVIOUS
    <3>2. ListIndex(S, e) \in Nat /\ Cardinality(S) \in Nat
      BY Zenon, IndexTypes
    <3> QED
      BY ZenonT(120), <3>1, <3>2, SpreadMeetsDeadline
  <2> HIDE DEF start
  <2>2. /\ age' = age /\ sinceKick' = sinceKick
        /\ due' = [e \in Entities |->
                     IF e \in S THEN Expedited(due[e], start(e)) ELSE due[e]]
    BY Zenon, <1>2 DEF FanOut, InsertRefreshes, start
  <2>3. ASSUME NEW e \in Entities
        PROVE  /\ due'[e] \in Nat \cup {NoJob}
               /\ due[e] # NoJob => due'[e] # NoJob /\ due'[e] <= due[e]
    <3>1. due[e] \in Nat \cup {NoJob} /\ start(e) \in Nat
      BY Zenon, <1>0, <2>1
    <3>2. CASE e \in S
      <4>1. due'[e] = Expedited(due[e], start(e))
        BY Zenon, <2>2, <3>2
      <4>2. /\ Expedited(due[e], start(e)) \in Nat
            /\ due[e] # NoJob => Expedited(due[e], start(e)) <= due[e]
        BY Zenon, <3>1, InsertOnlyExpedites
      <4>3. \A n \in Nat : n # NoJob
        BY DEF NoJob
      <4> QED
        BY Zenon, <4>1, <4>2, <4>3
    <3>3. CASE e \notin S
      BY <2>2, <3>1, <3>3 DEF NoJob
    <3> QED
      BY Zenon, <3>2, <3>3
  <2>4. ASSUME NEW e \in Entities
        PROVE  \/ due'[e] # NoJob /\ age[e] + due'[e] <= Bound
               \/ age[e] <= DueAge - 1 + sinceKick
    <3>1. age[e] \in Nat /\ due[e] \in Nat \cup {NoJob}
      BY Zenon, <1>0
    <3>2. CASE due[e] # NoJob /\ age[e] + due[e] <= Bound
      BY <2>3, <3>1, <3>2 DEF NoJob
    <3>3. CASE age[e] <= DueAge - 1 + sinceKick
      BY Zenon, <3>3
    <3> QED
      BY Zenon, <1>0, <3>2, <3>3
  <2>5. due' \in [Entities -> Nat \cup {NoJob}]
    BY Zenon, <2>2, <2>3
  <2> QED
    BY Zenon, <1>0, <2>2, <2>4, <2>5 DEF ScheduleInv
<1>3. ASSUME NEW e \in Entities, RefreshCompletes(e) PROVE ScheduleInv'
  <2>1. /\ age' = [age EXCEPT ![e] = 0] /\ sinceKick' = sinceKick
    BY Zenon, <1>3 DEF RefreshCompletes
  <2>2. PICK next \in {NoJob, CompletionHeadroom} : due' = [due EXCEPT ![e] = next]
    BY ZenonT(120), <1>3 DEF RefreshCompletes
  <2>3. 0 <= DueAge - 1 + sinceKick
    BY <1>0
  <2>4. age' \in [Entities -> Nat] /\ due' \in [Entities -> Nat \cup {NoJob}]
    BY Zenon, <1>0, <2>1, <2>2
  <2>5. ASSUME NEW f \in Entities
        PROVE  \/ due'[f] # NoJob /\ age'[f] + due'[f] <= Bound
               \/ age'[f] <= DueAge - 1 + sinceKick
    <3>1. CASE f = e
      BY Zenon, <1>0, <2>1, <2>3, <3>1
    <3>2. CASE f # e
      BY Zenon, <1>0, <2>1, <2>2, <3>2
    <3> QED
      BY Zenon, <3>1, <3>2
  <2> QED
    BY Zenon, <1>0, <2>1, <2>4, <2>5 DEF ScheduleInv
<1>4. CASE Tick
  <2>1. /\ age' = [e \in Entities |-> age[e] + 1]
        /\ due' = [e \in Entities |-> IF due[e] = NoJob THEN NoJob ELSE due[e] - 1]
        /\ sinceKick < Cadence /\ sinceKick' = sinceKick + 1
        /\ \A e \in Entities : due[e] # 0
    BY Zenon, <1>4 DEF Tick
  <2>2. ASSUME NEW e \in Entities
        PROVE  /\ due'[e] \in Nat \cup {NoJob} /\ age'[e] \in Nat
               /\ \/ due'[e] # NoJob /\ age'[e] + due'[e] <= Bound
                  \/ age'[e] <= DueAge - 1 + sinceKick'
    <3>1. age[e] \in Nat /\ due[e] \in Nat \cup {NoJob} /\ due[e] # 0
      BY Zenon, <1>0, <2>1
    <3>2. CASE due[e] # NoJob /\ age[e] + due[e] <= Bound
      BY <2>1, <3>1, <3>2 DEF NoJob
    <3>3. CASE age[e] <= DueAge - 1 + sinceKick
      BY <1>0, <2>1, <3>1, <3>3 DEF NoJob
    <3> QED
      BY Zenon, <1>0, <3>2, <3>3
  <2> QED
    BY <1>0, <2>1, <2>2 DEF ScheduleInv
<1>5. CASE UNCHANGED scheduleVars
  BY Zenon, <1>5 DEF ScheduleInv, scheduleVars
<1> QED
  BY Zenon, <1>1, <1>2, <1>3, <1>4, <1>5, <1>6 DEF Next

\* C-R1 (scheduleForBound, spreadRefreshSchedule, enqueueStalePullRequests,
\* InsertRefreshesTxReturning): whatever the configured bound and however
\* pages and events fan out, no tracked row is ever older than its bound, as
\* long as kickoffs are on time and a refresh takes no more than the headroom.
THEOREM StalenessIsBounded == Spec => []WithinStalenessBound
<1>1. Init => ScheduleInv
  BY PlanIsSound DEF Init, ScheduleInv, NoJob
<1>2. ScheduleInv => WithinStalenessBound
  <2> SUFFICES ASSUME ScheduleInv, NEW e \in Entities PROVE age[e] <= Bound
    BY Zenon DEF WithinStalenessBound
  <2>1. /\ age[e] \in Nat /\ due[e] \in Nat \cup {NoJob} /\ sinceKick \in 0 .. Cadence
        /\ \/ due[e] # NoJob /\ age[e] + due[e] <= Bound
           \/ age[e] <= DueAge - 1 + sinceKick
    BY Zenon DEF ScheduleInv
  <2> QED
    BY <2>1, PlanIsSound
<1> QED
  BY <1>1, <1>2, ScheduleInvStep, PTL DEF Spec

-----------------------------------------------------------------------------
(* The listing sweep.  While nothing is removed, whatever the running pass *)
(* has not seen lies on a page it has still to ask for; a removal can      *)
(* spoil that for one pass, and only another one lets the sweep complete.  *)

FetchedPages == [etag : SUBSET (Pulls \X Nat), next : Int]
PageJobs == [state : {"none", "queued", "fetched", "finishing"}, page : FetchedPages,
             changed : BOOLEAN]

SweepTypeOK ==
    /\ listed \in SUBSET Pulls /\ throughout \in SUBSET listed /\ seen \in SUBSET Pulls
    /\ version \in [Pulls -> Nat] /\ removals \in Nat
    /\ row \in [exists : BOOLEAN, cursor : Int, started : BOOLEAN, done : BOOLEAN,
                passNew : Nat]
    /\ job \in [Pages -> PageJobs]
    /\ row.started = row.exists
    /\ row.done => row.started

\* A sweep that vouches for anything only takes pages it asked for itself.
OwnPages ==
    throughout # {} /\ row.started =>
      /\ \A c \in Pages : job[c].state = "fetched" =>
           /\ c = row.cursor
           /\ job[c].page.next \in {End, c + 1}
           /\ c = 1 => KeysOf(job[c].page) # {}
      /\ ~row.done /\ seen = {} => row.cursor = 1

Rank(e) == Cardinality({f \in listed : f < e})

\* The pass has still to meet e, on the page just fetched or on a later one.
Ahead(e) ==
    LET c == row.cursor
    IN  /\ (c - 1) * PageSize <= Rank(e)
        /\ c \in Pages /\ job[c].state = "fetched" =>
             \/ e \in KeysOf(job[c].page)
             \/ job[c].page.next = c + 1 /\ c * PageSize <= Rank(e)

FirstPass == row.passNew = Cardinality(seen)

MissesNothing == \A e \in throughout \ seen : Ahead(e)

\* One removal spoils the pass it falls into, the first or one that had
\* nothing left to see.
SweepWillSee ==
    Running /\ OverlapPasses =>
      /\ removals = 0 => throughout \subseteq seen \/ (FirstPass /\ MissesNothing)
      /\ removals = 1 => throughout \subseteq seen \/ FirstPass \/ MissesNothing

SweepInv == SweepTypeOK /\ OwnPages /\ SweepWillSee /\ SweepSeesStableEntities

\* A stored page, or one to be stored, links to the next or ends the listing.
LinkedPages ==
    /\ pages \in [Pages -> FetchedPages]
    /\ \A c \in Pages : pages[c] # NoPage => pages[c].next \in {End, c + 1}
    /\ \A c \in Pages : job[c].state = "fetched" => job[c].page.next \in {End, c + 1}

\* A set of natural numbers has a least one.
LEMMA HasLeast ==
  ASSUME NEW S, S \subseteq Nat, S # {}
  PROVE  \E m \in S : \A f \in S : ~(f < m)
<1>1. PICK R : R = OpToRel(<, Nat)
  BY Zenon
<1>2. IsWellFoundedOn(R, Nat)
  BY <1>1, NatLessThanWellFounded, Zenon
<1>3. PICK m \in S : \A f \in S : ~(<<f, m>> \in R)
  BY <1>2, WFMin, Zenon
<1>4. \A x, y \in Nat : x < y => <<x, y>> \in R
  BY <1>1 DEF OpToRel
<1> QED
  BY <1>3, <1>4, Zenon

\* Pages are numbered from one.
LEMMA PagesAreNumbers == Pages \subseteq Nat \ {0}
<1>1. PICK n : n = 1 + Cardinality(Pulls) \div PageSize
  BY Zenon
<1>2. \A c \in 1 .. n : c \in Nat \ {0}
  OBVIOUS
<1> QED
  BY <1>1, <1>2, Zenon DEF Pages

\* A listing is finite.
LEMMA ListedIsFinite ==
  ASSUME NEW S \in SUBSET Pulls
  PROVE  IsFiniteSet(S) /\ Cardinality(S) \in Nat /\ S \subseteq Nat
BY SweepConstants, FS_Subset, FS_CardinalityType, Zenon

\* Positions are numbers, below the length of the listing.
LEMMA RankIsPosition ==
  ASSUME listed \in SUBSET Pulls, NEW e \in listed
  PROVE  Rank(e) \in Nat /\ Rank(e) < Cardinality(listed)
<1>1. PICK T : T = {f \in listed : f < e}
  BY Zenon
<1>0. e \in Nat /\ ~(e < e)
  BY SweepConstants
<1>2. T \in SUBSET Pulls /\ T \in SUBSET listed /\ e \notin T /\ e \in Nat
  BY <1>0, <1>1, Zenon
<1>3. /\ IsFiniteSet(listed) /\ Cardinality(T) \in Nat /\ Cardinality(listed) \in Nat
      /\ Cardinality(T) <= Cardinality(listed)
      /\ Cardinality(listed) = Cardinality(T) => listed = T
  BY <1>2, ListedIsFinite, FS_Subset, Zenon
<1>4. Rank(e) = Cardinality(T) /\ Cardinality(listed) # Cardinality(T)
  BY <1>1, <1>2, <1>3, Zenon DEF Rank
<1> QED
  BY <1>3, <1>4

\* An addition to the listing moves nobody forward.
LEMMA RankGrows ==
  ASSUME listed \in SUBSET Pulls, NEW e \in listed, listed' \in SUBSET Pulls,
         listed \subseteq listed'
  PROVE  Rank(e)' \in Nat /\ Rank(e) <= Rank(e)'
<1>1. PICK T, U : T = {f \in listed : f < e} /\ U = {f \in listed' : f < e}
  BY Zenon
<1>2. T \in SUBSET U /\ U \in SUBSET Pulls
  BY <1>1, Zenon
<1>3. IsFiniteSet(U) /\ Cardinality(U) \in Nat /\ Cardinality(T) <= Cardinality(U)
  BY <1>2, ListedIsFinite, FS_Subset, Zenon
<1>4. Rank(e) = Cardinality(T) /\ Rank(e)' = Cardinality(U)
  BY <1>1, Zenon DEF Rank
<1> QED
  BY <1>3, <1>4, Zenon

\* A page holds the entities of its range of positions; the validator names them.
LEMMA PageIsRange ==
  ASSUME SweepTypeOK, NEW c \in Pages
  PROVE  /\ PageKeys(c) = {e \in listed : (c - 1) * PageSize <= Rank(e) /\ Rank(e) < c * PageSize}
         /\ KeysOf(PageNow(c)) = PageKeys(c)
         /\ PageNow(c) \in FetchedPages
         /\ PageNow(c).next \in {End, c + 1}
<1>1. PageKeys(c) = {e \in listed : (c - 1) * PageSize <= Rank(e) /\ Rank(e) < c * PageSize}
  BY Zenon DEF PageKeys, Rank
<1>2. PICK K : K = PageKeys(c)
  BY Zenon
<1>3. K \subseteq Pulls
  BY <1>1, <1>2, Zenon DEF SweepTypeOK
<1>4. NextCursor(c) \in {End, c + 1} /\ NextCursor(c) \in Int
  BY PagesAreNumbers DEF NextCursor, End
<1>5. PICK P : P = {<<e, version[e]>> : e \in K}
  BY Zenon
<1>6. {k[1] : k \in P} = K
  <2>1. \A e \in K : <<e, version[e]>> \in P /\ <<e, version[e]>>[1] = e
    BY <1>5
  <2>2. ASSUME NEW k \in P PROVE k[1] \in K
    <3>1. PICK e \in K : k = <<e, version[e]>>
      BY <1>5, Zenon
    <3> QED
      BY <3>1
  <2>3. \A e \in K : e \in {k[1] : k \in P}
    BY <2>1, Zenon
  <2>4. \A x \in {k[1] : k \in P} : x \in K
    BY <2>2, Zenon
  <2> QED
    BY <2>3, <2>4, Zenon
<1>7. P \in SUBSET (Pulls \X Nat)
  BY <1>3, <1>5 DEF SweepTypeOK
<1>8. PageNow(c) = [etag |-> P, next |-> NextCursor(c)]
  BY <1>2, <1>5, Zenon DEF PageNow
<1>9. KeysOf(PageNow(c)) = K
  BY <1>6, <1>8 DEF KeysOf
<1> QED
  BY <1>1, <1>2, <1>4, <1>7, <1>8, <1>9 DEF FetchedPages

\* What a fetch leaves ahead of the pass.
LEMMA FetchKeepsAhead ==
  ASSUME SweepTypeOK, NEW c \in Pages, NEW e \in listed, (c - 1) * PageSize <= Rank(e)
  PROVE  \/ e \in KeysOf(PageNow(c))
         \/ PageNow(c).next = c + 1 /\ c * PageSize <= Rank(e)
<1>1. CASE Rank(e) < c * PageSize
  <2>1. e \in PageKeys(c)
    BY <1>1, PageIsRange
  <2> QED
    BY <2>1, PageIsRange, Zenon
<1>2. CASE ~(Rank(e) < c * PageSize)
  <2>1. PICK r, n, m : r = Rank(e) /\ n = Cardinality(listed) /\ m = c * PageSize
    BY Zenon
  <2>2. r \in Nat /\ n \in Nat /\ r < n
    BY <2>1, RankIsPosition, ListedIsFinite, Zenon DEF SweepTypeOK
  <2>3. m \in Int
    BY <2>1, PagesAreNumbers, SweepConstants
  <2>4. m <= r /\ n > m
    BY <1>2, <2>1, <2>2, <2>3
  <2>5. PageNow(c).next = c + 1
    BY <2>1, <2>4, Zenon DEF PageNow, NextCursor
  <2> QED
    BY <2>1, <2>4, <2>5, Zenon
<1> QED
  BY <1>1, <1>2, Zenon

\* A 304 serves the keys of the current page; only its link may be old.
LEMMA ServedIsLinked ==
  ASSUME SweepTypeOK, LinkedPages, NEW c \in Pages
  PROVE  /\ ServedPage(c) \in FetchedPages /\ ServedPage(c).next \in {End, c + 1}
         /\ KeysOf(ServedPage(c)) = KeysOf(PageNow(c))
<1>1. CASE NotModified(c)
  <2>1. /\ ServedPage(c) = pages[c] /\ pages[c] # NoPage
        /\ ServedPage(c).etag = PageNow(c).etag
    BY <1>1, Zenon DEF ServedPage, NotModified, GetSweepPage
  <2>2. KeysOf(ServedPage(c)) = KeysOf(PageNow(c))
    BY <2>1, Zenon DEF KeysOf
  <2> QED
    BY <2>1, <2>2, Zenon DEF LinkedPages
<1>2. CASE ~NotModified(c)
  <2>1. ServedPage(c) = PageNow(c)
    BY <1>2, Zenon DEF ServedPage
  <2> QED
    BY <2>1, PageIsRange, Zenon
<1> QED
  BY <1>1, <1>2, Zenon

\* What the served page leaves ahead of the pass.
LEMMA ServedKeepsAhead ==
  ASSUME SweepTypeOK, LinkedPages, NEW c \in Pages, NEW e \in listed \ BehindOldEnd(c),
         (c - 1) * PageSize <= Rank(e)
  PROVE  \/ e \in KeysOf(ServedPage(c))
         \/ ServedPage(c).next = c + 1 /\ c * PageSize <= Rank(e)
<1>1. \/ e \in KeysOf(PageNow(c))
      \/ PageNow(c).next = c + 1 /\ c * PageSize <= Rank(e)
  BY FetchKeepsAhead, Zenon
<1>2. CASE NotModified(c)
  <2>1. c * PageSize <= Rank(e) => pages[c].next # End
    <3>1. ASSUME c * PageSize <= Rank(e) PROVE Rank(e) >= c * PageSize
      <4>1. PICK r, m : r = Rank(e) /\ m = c * PageSize
        BY Zenon
      <4>2. m <= r => r >= m
        OBVIOUS
      <4> QED
        BY <3>1, <4>1, <4>2, Zenon
    <3> QED
      BY <1>2, <3>1, Zenon DEF BehindOldEnd, GetSweepPage, Rank
  <2>2. ServedPage(c) = pages[c]
    BY <1>2, Zenon DEF ServedPage, GetSweepPage
  <2> QED
    BY <1>1, <2>1, <2>2, ServedIsLinked, Zenon
<1>3. CASE ~NotModified(c)
  BY <1>1, <1>3, Zenon DEF ServedPage
<1> QED
  BY <1>2, <1>3, Zenon

\* The first page of a listing is empty only if the listing is.
LEMMA FirstPageHasKeys ==
  ASSUME SweepTypeOK, listed # {}, 1 \in Pages
  PROVE  KeysOf(PageNow(1)) # {}
<1>1. PICK e \in listed : \A f \in listed : ~(f < e)
  BY HasLeast, ListedIsFinite, Zenon DEF SweepTypeOK
<1>2. {f \in listed : f < e} = {}
  BY <1>1, Zenon
<1>3. Rank(e) = 0
  BY <1>2, FS_EmptySet, Zenon DEF Rank
<1>4. (1 - 1) * PageSize <= Rank(e) /\ Rank(e) < 1 * PageSize
  BY <1>3, SweepConstants
<1>5. e \in PageKeys(1)
  BY <1>4, PageIsRange, Zenon
<1> QED
  BY <1>5, PageIsRange, Zenon

\* Nobody but River's page jobs and the cursor row decides what lies ahead.
LEMMA AheadStays ==
  ASSUME UNCHANGED <<listed, row>>, \A c \in Pages : job'[c].state = "fetched" =>
           job[c].state = "fetched" /\ job'[c].page = job[c].page
  PROVE  \A e : Ahead(e) => Ahead(e)'
<1> SUFFICES ASSUME NEW e, Ahead(e) PROVE Ahead(e)'
  BY Zenon
<1>1. PICK c : c = row.cursor /\ c = row'.cursor
  BY Zenon
<1>2. Rank(e)' = Rank(e)
  BY Zenon DEF Rank
<1> QED
  BY <1>1, <1>2, Zenon DEF Ahead, KeysOf

\* A step that moves neither the listing nor the sweep.
LEMMA SweepRests ==
  ASSUME SweepInv, UNCHANGED <<listed, version, row, seen, throughout, removals>>,
         job' \in [Pages -> PageJobs],
         \A c \in Pages : job'[c].state = "fetched" =>
           job[c].state = "fetched" /\ job'[c].page = job[c].page
  PROVE  SweepInv'
<1>1. SweepTypeOK'
  BY Zenon DEF SweepInv, SweepTypeOK
<1>2. OwnPages'
  BY Zenon DEF SweepInv, OwnPages, KeysOf
<1>3. SweepWillSee'
  BY AheadStays, Zenon DEF SweepInv, SweepWillSee, Running, FirstPass, MissesNothing
<1>4. SweepSeesStableEntities'
  BY Zenon DEF SweepInv, SweepSeesStableEntities
<1> QED
  BY <1>1, <1>2, <1>3, <1>4, Zenon DEF SweepInv

\* An entity leaves or joins the listing.
LEMMA SweepEdit ==
  ASSUME SweepInv, NEW x \in Pulls, Edit(x)
  PROVE  SweepInv'
<1>1. /\ listed' = IF x \in listed THEN listed \ {x} ELSE listed \cup {x}
      /\ version' = [version EXCEPT ![x] = @ + 1]
      /\ throughout' = throughout \ {x}
      /\ removals' = IF Running /\ x \in listed THEN removals + 1 ELSE removals
      /\ UNCHANGED <<row, seen, job>>
  BY Zenon DEF Edit
<1>2. SweepTypeOK'
  <2>1. listed' \in SUBSET Pulls /\ throughout' \in SUBSET listed'
    BY <1>1 DEF SweepInv, SweepTypeOK
  <2>2. version' \in [Pulls -> Nat] /\ removals' \in Nat
    BY <1>1 DEF SweepInv, SweepTypeOK
  <2> QED
    BY <1>1, <2>1, <2>2, Zenon DEF SweepInv, SweepTypeOK
<1>3. throughout' \subseteq throughout
  BY <1>1, Zenon
<1>4. OwnPages'
  <2>1. throughout' # {} => throughout # {}
    BY <1>3, Zenon
  <2> QED
    BY <1>1, <2>1, Zenon DEF SweepInv, OwnPages, KeysOf
<1>5. SweepSeesStableEntities'
  <2>1. row.done => removals' = removals
    BY <1>1, Zenon DEF Running
  <2> QED
    BY <1>1, <1>3, <2>1, Zenon DEF SweepInv, SweepSeesStableEntities
<1>6. SweepWillSee'
  <2> SUFFICES ASSUME Running, OverlapPasses
               PROVE  /\ removals' = 0 => throughout' \subseteq seen \/ (FirstPass /\ MissesNothing')
                      /\ removals' = 1 => throughout' \subseteq seen \/ FirstPass \/ MissesNothing'
    BY <1>1, Zenon DEF SweepWillSee, Running, FirstPass
  <2>1. CASE x \in listed
    <3>1. removals' = removals + 1 /\ removals \in Nat
      BY <1>1, <2>1 DEF SweepInv, SweepTypeOK
    <3>2. removals' # 0 /\ (removals' = 1 => removals = 0)
      BY <3>1
    <3> QED
      BY <1>3, <3>2, Zenon DEF SweepInv, SweepWillSee
  <2>2. CASE x \notin listed
    <3>1. removals' = removals
      BY <1>1, <2>2, Zenon
    <3>2. listed \subseteq listed'
      BY <1>1, <2>2, Zenon
    <3>3. ASSUME NEW e \in throughout', Ahead(e) PROVE Ahead(e)'
      <4>1. PICK c : c = row.cursor /\ c = row'.cursor
        BY <1>1, Zenon
      <4>2. e \in listed /\ c \in Int /\ listed \in SUBSET Pulls /\ listed' \in SUBSET Pulls
        BY <1>2, <1>3, <3>3, <4>1 DEF SweepInv, SweepTypeOK
      <4>3. PICK r, s, m, k : /\ r = Rank(e) /\ s = Rank(e)' /\ m = (c - 1) * PageSize
                              /\ k = c * PageSize
        BY Zenon
      <4>4. r \in Nat /\ s \in Nat /\ r <= s /\ m \in Int /\ k \in Int
        BY <3>2, <4>2, <4>3, RankIsPosition, RankGrows, SweepConstants
      <4>5. (m <= r => m <= s) /\ (k <= r => k <= s)
        BY <4>4
      <4> QED
        BY <1>1, <3>3, <4>1, <4>3, <4>5, Zenon DEF Ahead, KeysOf
    <3>4. MissesNothing => MissesNothing'
      BY <1>1, <1>3, <3>3, Zenon DEF MissesNothing
    <3> QED
      BY <1>3, <3>1, <3>4, Zenon DEF SweepInv, SweepWillSee
  <2> QED
    BY <2>1, <2>2, Zenon
<1> QED
  BY <1>2, <1>4, <1>5, <1>6, Zenon DEF SweepInv

\* The cursor of a name nobody owns is dropped.
LEMMA SweepReap ==
  ASSUME SweepInv, ReapScope
  PROVE  SweepInv'
<1>1. row' = NoRow /\ seen' = {} /\ UNCHANGED <<listed, version, throughout, removals, job>>
  BY Zenon DEF ReapScope, listingVars, historyVars
<1>2. ~row'.started /\ ~row'.done /\ ~Running'
  BY <1>1 DEF NoRow, Running
<1>3. SweepTypeOK'
  BY <1>1 DEF SweepInv, SweepTypeOK, NoRow, End
<1> QED
  BY <1>2, <1>3, Zenon DEF SweepInv, OwnPages, SweepWillSee, SweepSeesStableEntities

\* Inserting a page job fetches nothing.
LEMMA InsertFetchesNothing ==
  ASSUME NEW jobs \in [Pages -> PageJobs], NEW c
  PROVE  /\ InsertPage(jobs, c) \in [Pages -> PageJobs]
         /\ \A d \in Pages : InsertPage(jobs, c)[d].state = "fetched" =>
              jobs[d].state = "fetched" /\ InsertPage(jobs, c)[d].page = jobs[d].page
<1>1. CASE jobs[c].state # "none"
  BY <1>1, Zenon DEF InsertPage
<1>2. CASE jobs[c].state = "none"
  <2>1. PICK j : j = [jobs[c] EXCEPT !.state = "queued"]
    BY Zenon
  <2>2. InsertPage(jobs, c) = [jobs EXCEPT ![c] = j]
    BY <1>2, <2>1 DEF InsertPage
  <2>3. c \in Pages => j \in PageJobs /\ j.state = "queued"
    <3>1. ASSUME NEW i \in PageJobs
          PROVE  /\ [i EXCEPT !.state = "queued"] \in PageJobs
                 /\ [i EXCEPT !.state = "queued"].state = "queued"
      BY DEF PageJobs
    <3> QED
      BY <2>1, <3>1, Zenon
  <2>4. \A d \in Pages : InsertPage(jobs, c)[d] = IF d = c THEN j ELSE jobs[d]
    BY <2>2, Zenon
  <2>5. InsertPage(jobs, c) \in [Pages -> PageJobs]
    BY Zenon, <2>2, <2>3
  <2> QED
    BY <2>3, <2>4, <2>5
<1> QED
  BY <1>1, <1>2, Zenon

\* A kickoff starts a sweep or resumes it.
LEMMA SweepKickoff ==
  ASSUME SweepInv, StartOrResumeScope
  PROVE  SweepInv'
<1>1. UNCHANGED <<listed, version>> /\ job' = InsertPage(job, row'.cursor)
  BY Zenon DEF StartOrResumeScope, listingVars
<1>2. /\ job' \in [Pages -> PageJobs]
      /\ \A c \in Pages : job'[c].state = "fetched" =>
           job[c].state = "fetched" /\ job'[c].page = job[c].page
  <2>1. PICK d : d = row'.cursor
    BY Zenon
  <2>2. job \in [Pages -> PageJobs]
    BY Zenon DEF SweepInv, SweepTypeOK
  <2>3. PICK jobs : jobs = InsertPage(job, d)
    BY Zenon
  <2>4. /\ jobs \in [Pages -> PageJobs]
        /\ \A c \in Pages : jobs[c].state = "fetched" =>
             job[c].state = "fetched" /\ jobs[c].page = job[c].page
    BY <2>2, <2>3, InsertFetchesNothing, Zenon
  <2> QED
    BY <1>1, <2>1, <2>3, <2>4, Zenon
<1>3. CASE UNCHANGED <<row, seen, historyVars>>
  BY <1>1, <1>2, <1>3, SweepRests, Zenon DEF historyVars
<1>4. CASE StartSweepCursor /\ throughout' = Vouched /\ removals' = 0
  <2>1. /\ row' = [exists |-> TRUE, cursor |-> 1, started |-> TRUE, done |-> FALSE,
                   passNew |-> 0]
        /\ seen' = {} /\ throughout' \in {{}, listed}
        /\ throughout' # {} => \A c \in Pages : job[c].state # "fetched"
    BY <1>4, Zenon DEF StartSweepCursor, Vouched
  <2>2. SweepTypeOK'
    BY <1>1, <1>2, <1>4, <2>1 DEF SweepInv, SweepTypeOK
  <2>3. row'.cursor = 1 /\ ~row'.done /\ row'.passNew = 0
    BY <2>1
  <2>4. OwnPages'
    BY <1>2, <2>1, <2>3, Zenon DEF OwnPages
  <2>5. ASSUME NEW e \in throughout' PROVE Ahead(e)'
    <3>1. \A c \in Pages : job'[c].state # "fetched"
      BY <1>2, <2>1, <2>5, Zenon
    <3>2. Rank(e)' \in Nat
      <4>1. {f \in listed' : f < e} \in SUBSET Pulls
        BY <2>2, Zenon DEF SweepTypeOK
      <4> QED
        BY <4>1, ListedIsFinite, Zenon DEF Rank
    <3>3. (1 - 1) * PageSize <= Rank(e)'
      BY <3>2, SweepConstants
    <3> QED
      BY <2>3, <3>1, <3>3, Zenon DEF Ahead
  <2>6. FirstPass'
    BY <2>1, <2>3, FS_EmptySet, Zenon DEF FirstPass
  <2>7. SweepWillSee' /\ SweepSeesStableEntities'
    BY <2>3, <2>5, <2>6, Zenon DEF SweepWillSee, MissesNothing, SweepSeesStableEntities
  <2> QED
    BY <2>2, <2>4, <2>7, Zenon DEF SweepInv
<1> QED
  BY <1>3, <1>4, Zenon DEF StartOrResumeScope

\* The page a job asks for is the one the sweep waits for, or it is done.
LEMMA SweepFetch ==
  ASSUME SweepInv, LinkedPages, NEW c \in Pages, ReconcilePage(c)
  PROVE  SweepInv'
<1>1. /\ UNCHANGED <<listed, version, row, seen, removals>>
      /\ throughout' = throughout \ (IF OwnsCursor(c) THEN BehindOldEnd(c) ELSE {})
  BY Zenon DEF ReconcilePage, listingVars
<1>2. job \in [Pages -> PageJobs] /\ NoPageJob \in PageJobs
  <2>1. job \in [Pages -> PageJobs]
    BY Zenon DEF SweepInv, SweepTypeOK
  <2>2. NoPageJob \in PageJobs
    BY SMTT(60) DEF NoPageJob, PageJobs, FetchedPages, NoPage
  <2> QED
    BY Zenon, <2>1, <2>2
<1>3. CASE ~OwnsCursor(c)
  <2>1. PICK j : j = [NoPageJob EXCEPT !.state = "finishing"]
    BY Zenon
  <2>2. job' = [job EXCEPT ![c] = j]
    BY <1>3, <2>1 DEF ReconcilePage
  <2>3. j \in PageJobs /\ j.state # "fetched"
    BY <1>2, <2>1 DEF PageJobs
  <2>4. /\ job' \in [Pages -> PageJobs]
        /\ \A d \in Pages : job'[d].state = "fetched" =>
             job[d].state = "fetched" /\ job'[d].page = job[d].page
    BY <1>2, <2>2, <2>3
  <2>5. throughout' = throughout
    BY <1>1, <1>3, Zenon
  <2> QED
    BY <1>1, <2>4, <2>5, SweepRests, Zenon
<1>4. CASE OwnsCursor(c)
  <2>0. throughout' = throughout \ BehindOldEnd(c)
    BY <1>1, <1>4, Zenon
  <2>1. PICK got, j : got = ServedPage(c) /\ j = [state |-> "fetched", page |-> got,
                                                 changed |-> ~NotModified(c)]
    BY Zenon
  <2>2. job' = [job EXCEPT ![c] = j] /\ row.cursor = c /\ ~row.done
    BY <1>4, <2>1, Zenon DEF ReconcilePage, OwnsCursor
  <2>3. /\ got \in FetchedPages /\ got.next \in {End, c + 1} /\ SweepTypeOK
        /\ c = 1 /\ throughout # {} => KeysOf(got) # {}
    <3>1. throughout # {} => listed # {}
      BY DEF SweepInv, SweepTypeOK
    <3> QED
      BY <2>1, <3>1, ServedIsLinked, FirstPageHasKeys, Zenon DEF SweepInv
  <2>4. j \in PageJobs /\ j.page = got /\ j.state = "fetched"
    <3>1. NotModified(c) \in BOOLEAN
      BY Zenon DEF NotModified
    <3> QED
      BY <2>1, <2>3, <3>1 DEF PageJobs
  <2>5. job' \in [Pages -> PageJobs] /\ \A d \in Pages : job'[d] = IF d = c THEN j ELSE job[d]
    BY <1>2, <2>2, <2>4
  <2>6. SweepTypeOK'
    <3>1. throughout' \in SUBSET listed'
      BY <1>1, <2>0, Zenon DEF SweepInv, SweepTypeOK
    <3> QED
      BY <1>1, <2>5, <3>1, Zenon DEF SweepInv, SweepTypeOK
  <2>7. OwnPages'
    <3>0. throughout' # {} => throughout # {}
      BY <2>0, Zenon
    <3>1. ASSUME throughout # {}, row.started, NEW d \in Pages, job'[d].state = "fetched"
          PROVE  /\ d = row.cursor
                 /\ job'[d].page.next \in {End, d + 1}
                 /\ d = 1 => KeysOf(job'[d].page) # {}
      <4>1. CASE d = c
        BY <2>2, <2>3, <2>4, <2>5, <3>1, <4>1, Zenon
      <4>2. CASE d # c
        BY <2>2, <2>5, <3>1, <4>2, Zenon DEF SweepInv, OwnPages
      <4> QED
        BY <4>1, <4>2, Zenon
    <3> QED
      BY <1>1, <3>0, <3>1, Zenon DEF SweepInv, OwnPages, KeysOf
  <2>8. ASSUME NEW e \in throughout', Ahead(e) PROVE Ahead(e)'
    <3>1. e \in listed \ BehindOldEnd(c) /\ (c - 1) * PageSize <= Rank(e)
      BY <2>0, <2>2, <2>8, Zenon DEF Ahead, SweepInv, SweepTypeOK
    <3>2. e \in KeysOf(got) \/ (got.next = c + 1 /\ c * PageSize <= Rank(e))
      BY <2>1, <2>3, <3>1, ServedKeepsAhead, Zenon
    <3>3. Rank(e)' = Rank(e) /\ row'.cursor = c /\ job'[c].page = got
      BY <1>1, <2>2, <2>4, <2>5, Zenon DEF Rank
    <3> QED
      BY <3>1, <3>2, <3>3, Zenon DEF Ahead
  <2>9. throughout' \subseteq throughout /\ (MissesNothing => MissesNothing')
    BY <1>1, <2>0, <2>8, Zenon DEF MissesNothing
  <2>10. SweepWillSee'
    BY <1>1, <2>9, Zenon DEF SweepInv, SweepWillSee, FirstPass, Running
  <2>11. SweepSeesStableEntities'
    BY <1>1, <2>9, Zenon DEF SweepInv, SweepSeesStableEntities
  <2> QED
    BY <2>6, <2>7, <2>10, <2>11, Zenon DEF SweepInv
<1> QED
  BY <1>3, <1>4, Zenon

\* What one pass still had ahead when its last page was fetched was on it.
LEMMA LastPageHasTheRest ==
  ASSUME SweepInv, NEW c \in Pages, row.cursor = c, job[c].state = "fetched",
         job[c].page.next = End, MissesNothing
  PROVE  throughout \subseteq seen \cup KeysOf(job[c].page)
<1>1. End # c + 1
  BY PagesAreNumbers DEF End
<1> QED
  BY <1>1, Zenon DEF MissesNothing, Ahead

\* The page of the sweep's cursor is persisted.
LEMMA SweepPersist ==
  ASSUME SweepInv, NEW c \in Pages, PersistPage(c), OwnsCursor(c)
  PROVE  SweepInv'
<1>1. PICK got, keys, new, passNew :
        /\ got = job[c].page /\ keys = KeysOf(got) /\ new = keys \ seen
        /\ passNew = row.passNew + Cardinality(new)
  BY Zenon
<1>2. PICK again, last, rest :
        /\ again = StartsOverlap(got.next, passNew)
        /\ last = (got.next = End /\ ~again)
        /\ rest = [job EXCEPT ![c] = [NoPageJob EXCEPT !.state = "finishing"]]
  BY Zenon
<1>3. /\ job[c].state = "fetched" /\ row.exists /\ row.cursor = c /\ ~row.done
      /\ seen' = seen \cup new
      /\ row' = IF again THEN RestartSweepCursorPass
                ELSE IF last THEN CompleteSweepCursor ELSE AdvanceSweepCursor(got.next, passNew)
      /\ job' = IF last THEN rest ELSE InsertPage(rest, row'.cursor)
      /\ UNCHANGED <<listed, version, throughout, removals>>
  BY <1>1, <1>2, Zenon DEF PersistPage, OwnsCursor, InsertSweepSeenKeys, listingVars, historyVars
<1>4. /\ got \in FetchedPages /\ got.next \in Int /\ keys \in SUBSET Pulls /\ new \in SUBSET Pulls
      /\ job \in [Pages -> PageJobs]
  <2>1. job[c] \in PageJobs /\ job \in [Pages -> PageJobs]
    BY Zenon DEF SweepInv, SweepTypeOK
  <2>2. got \in FetchedPages
    BY <1>1, <2>1 DEF PageJobs
  <2>3. got.next \in Int /\ \A k \in got.etag : k[1] \in Pulls
    BY <2>2 DEF FetchedPages
  <2>4. keys \in SUBSET Pulls
    BY <1>1, <2>3, Zenon DEF KeysOf
  <2> QED
    BY <1>1, <2>1, <2>2, <2>3, <2>4, Zenon
<1>5. /\ IsFiniteSet(new) /\ Cardinality(new) \in Nat /\ passNew \in Nat
      /\ IsFiniteSet(seen) /\ Cardinality(seen) \in Nat /\ row.passNew \in Nat
      /\ seen \in SUBSET Pulls /\ seen' = seen \cup keys
  <2>1. seen \in SUBSET Pulls /\ row.passNew \in Nat
    BY DEF SweepInv, SweepTypeOK
  <2>2. /\ IsFiniteSet(new) /\ Cardinality(new) \in Nat
        /\ IsFiniteSet(seen) /\ Cardinality(seen) \in Nat
    BY <1>4, <2>1, ListedIsFinite, Zenon
  <2>3. passNew \in Nat
    BY <1>1, <2>1, <2>2
  <2>4. seen' = seen \cup keys
    BY <1>1, <1>3, Zenon
  <2> QED
    BY <2>1, <2>2, <2>3, <2>4, Zenon
<1>6. /\ rest \in [Pages -> PageJobs]
      /\ \A d \in Pages : rest[d].state = "fetched" => d # c /\ job[d].state = "fetched"
  <2>1. PICK j : j = [NoPageJob EXCEPT !.state = "finishing"]
    BY Zenon
  <2>2. j \in PageJobs /\ j.state # "fetched"
    <3>1. NoPageJob \in PageJobs
      BY DEF NoPageJob, PageJobs, FetchedPages, NoPage
    <3> QED
      BY <2>1, <3>1 DEF PageJobs
  <2>3. rest = [job EXCEPT ![c] = j]
    BY <1>2, <2>1, Zenon
  <2> QED
    BY <1>4, <2>2, <2>3
<1>7. /\ job' \in [Pages -> PageJobs]
      /\ \A d \in Pages : job'[d].state = "fetched" => d # c /\ job[d].state = "fetched"
  <2>1. PICK n, jobs : n = row'.cursor /\ jobs = InsertPage(rest, n)
    BY Zenon
  <2>2. /\ jobs \in [Pages -> PageJobs]
        /\ \A d \in Pages : jobs[d].state = "fetched" => rest[d].state = "fetched"
    BY <1>6, <2>1, InsertFetchesNothing, Zenon
  <2> QED
    BY <1>3, <1>6, <2>1, <2>2, Zenon
<1>8. /\ row' = [row EXCEPT !.cursor = row'.cursor, !.done = row'.done, !.passNew = row'.passNew]
      /\ again => row'.cursor = 1 /\ row'.done = FALSE /\ row'.passNew = 0
      /\ last => row'.cursor = 0 /\ row'.done = TRUE /\ row'.passNew = 0
      /\ ~again /\ ~last => row'.cursor = got.next /\ row'.done = FALSE /\ row'.passNew = passNew
  <2>1. row \in [exists : BOOLEAN, cursor : Int, started : BOOLEAN, done : BOOLEAN,
                passNew : Nat]
    BY DEF SweepInv, SweepTypeOK
  <2>2. CASE again
    BY Zenon, <1>2, <1>3, <2>1, <2>2 DEF RestartSweepCursorPass
  <2>3. CASE last
    BY Zenon, <1>2, <1>3, <2>1, <2>3 DEF CompleteSweepCursor, End
  <2>4. CASE ~again /\ ~last
    BY Zenon, <1>2, <1>3, <2>1, <2>4 DEF AdvanceSweepCursor
  <2> QED
    BY <2>2, <2>3, <2>4, Zenon
<1>9. SweepTypeOK'
  <2>1. row' \in [exists : BOOLEAN, cursor : Int, started : BOOLEAN, done : BOOLEAN,
                  passNew : Nat]
        /\ row'.started = row.started /\ row'.exists = row.exists
    <3>1. row'.cursor \in Int /\ row'.done \in BOOLEAN /\ row'.passNew \in Nat
      <4>1. 0 \in Int /\ 1 \in Int /\ 0 \in Nat
        OBVIOUS
      <4>2. CASE again
        BY <1>8, <4>1, <4>2, Zenon
      <4>3. CASE last
        BY <1>8, <4>1, <4>3, Zenon
      <4>4. CASE ~again /\ ~last
        BY <1>4, <1>5, <1>8, <4>4, Zenon
      <4> QED
        BY <4>2, <4>3, <4>4, Zenon
    <3>2. row \in [exists : BOOLEAN, cursor : Int, started : BOOLEAN, done : BOOLEAN,
                   passNew : Nat]
      BY DEF SweepInv, SweepTypeOK
    <3> QED
      BY Zenon, <1>8, <3>1, <3>2
  <2>2. seen' \in SUBSET Pulls
    BY <1>4, <1>5
  <2> QED
    BY Zenon, <1>3, <1>7, <2>1, <2>2 DEF SweepInv, SweepTypeOK
<1>10. row'.started
  BY Zenon, <1>3, <1>9, <1>8 DEF SweepInv, SweepTypeOK
<1>11. CASE throughout = {}
  BY <1>3, <1>9, <1>11, Zenon DEF SweepInv, OwnPages, SweepWillSee, SweepSeesStableEntities
<1>12. CASE throughout # {}
  <2>1. /\ row.started /\ got.next \in {End, c + 1} /\ (c = 1 => keys # {})
        /\ \A d \in Pages : job'[d].state # "fetched"
        /\ seen = {} => c = 1
    BY <1>1, <1>3, <1>7, <1>12, ZenonT(120) DEF SweepInv, OwnPages, SweepTypeOK
  <2>2. seen' # {}
    BY <1>5, <2>1, Zenon
  <2>3. OwnPages'
    BY <2>1, <2>2, Zenon DEF OwnPages
  <2>4. MissesNothing /\ got.next = End => throughout \subseteq seen'
    BY <1>1, <1>3, <1>5, LastPageHasTheRest, Zenon
  <2>5. OverlapPasses =>
          /\ removals = 0 => throughout \subseteq seen \/ (FirstPass /\ MissesNothing)
          /\ removals = 1 => throughout \subseteq seen \/ FirstPass \/ MissesNothing
    BY <1>3, <2>1, Zenon DEF SweepInv, SweepWillSee, Running
  <2>6. CASE again
    <3>1. got.next = End /\ ~last
      BY <1>2, <2>6, Zenon DEF StartsOverlap
    <3>2. ASSUME NEW e PROVE Ahead(e)'
      <4>1. {f \in listed' : f < e} \in SUBSET Pulls
        BY <1>9, Zenon DEF SweepTypeOK
      <4>2. Rank(e)' \in Nat
        BY <4>1, ListedIsFinite, Zenon DEF Rank
      <4>3. (1 - 1) * PageSize <= Rank(e)'
        BY <4>2, SweepConstants
      <4> QED
        BY <1>8, <2>1, <2>6, <4>3, Zenon DEF Ahead
    <3>3. MissesNothing'
      BY <3>2, Zenon DEF MissesNothing
    <3>4. removals = 0 /\ OverlapPasses => throughout \subseteq seen'
      BY <1>5, <2>4, <2>5, <3>1, Zenon
    <3>5. SweepWillSee' /\ SweepSeesStableEntities'
      BY <1>3, <1>8, <2>6, <3>3, <3>4, Zenon DEF SweepWillSee, SweepSeesStableEntities
    <3> QED
      BY <1>9, <2>3, <3>5, Zenon DEF SweepInv
  <2>7. CASE ~again /\ ~last
    <3>1. got.next = c + 1 /\ row'.cursor = c + 1 /\ row'.passNew = passNew /\ ~row'.done
      BY <1>2, <1>8, <2>1, <2>7, Zenon
    <3>2. FirstPass => FirstPass'
      <4>1. seen \cap new = {}
        BY <1>1, Zenon
      <4>2. PICK m, n, i, j : /\ m = Cardinality(seen) /\ n = Cardinality(new)
                              /\ i = Cardinality(seen \cap new) /\ j = Cardinality(seen \cup new)
        BY Zenon
      <4>3. i = 0 /\ j = m + n - i
        BY <1>5, <4>1, <4>2, FS_EmptySet, FS_Union, Zenon
      <4>4. row.passNew = m => passNew = j
        BY <1>1, <1>5, <4>2, <4>3
      <4> QED
        BY <1>3, <3>1, <4>2, <4>4, Zenon DEF FirstPass
    <3>3. ASSUME NEW e \in throughout \ seen', Ahead(e) PROVE Ahead(e)'
      <4>1. e \notin keys /\ e \notin seen
        BY <1>5, <3>3, Zenon
      <4>2. c * PageSize <= Rank(e)
        BY <1>1, <1>3, <3>3, <4>1, Zenon DEF Ahead
      <4>3. Rank(e)' = Rank(e)
        BY <1>3, Zenon DEF Rank
      <4>4. (c + 1) - 1 = c
        BY PagesAreNumbers
      <4>5. ((c + 1) - 1) * PageSize <= Rank(e)'
        BY <4>2, <4>3, <4>4, Zenon
      <4> QED
        BY <2>1, <3>1, <4>5, Zenon DEF Ahead
    <3>4. MissesNothing => MissesNothing'
      BY <1>3, <1>5, <3>3, Zenon DEF MissesNothing
    <3>5. throughout \subseteq seen => throughout' \subseteq seen'
      BY <1>3, <1>5, Zenon
    <3>6. SweepWillSee' /\ SweepSeesStableEntities'
      BY <1>3, <2>5, <3>1, <3>2, <3>4, <3>5, ZenonT(120) DEF SweepWillSee, SweepSeesStableEntities
    <3> QED
      BY <1>9, <2>3, <3>6, Zenon DEF SweepInv
  <2>8. CASE last
    <3>1. ~Running' /\ got.next = End
      BY <1>2, <1>8, <2>8, Zenon DEF Running
    <3>2. ASSUME OverlapPasses, removals <= 1 PROVE throughout \subseteq seen'
      <4>1. passNew = 0
        <5>1. ~(passNew > 0)
          BY <1>2, <2>8, <3>1, <3>2, Zenon DEF StartsOverlap
        <5> QED
          BY <1>5, <5>1
      <4>2. Cardinality(new) = 0 /\ row.passNew = 0
        BY <1>1, <1>5, <4>1
      <4>3. new = {}
        BY <1>5, <4>2, FS_EmptySet, Zenon
      <4>4. seen # {}
        BY <1>1, <2>1, <4>3, Zenon
      <4>5. ~FirstPass
        BY <1>5, <4>2, <4>4, FS_EmptySet, Zenon DEF FirstPass
      <4>6. removals \in {0, 1}
        BY <3>2 DEF SweepInv, SweepTypeOK
      <4> QED
        BY <1>5, <2>4, <2>5, <3>1, <3>2, <4>5, <4>6, Zenon
    <3>3. SweepWillSee' /\ SweepSeesStableEntities'
      BY <1>3, <3>1, <3>2, Zenon DEF SweepWillSee, SweepSeesStableEntities
    <3> QED
      BY <1>9, <2>3, <3>3, Zenon DEF SweepInv
  <2> QED
    BY <2>6, <2>7, <2>8, Zenon
<1> QED
  BY <1>11, <1>12, Zenon

\* The other steps of a page job touch no page that was fetched, or drop it.
LEMMA SweepJobs ==
  ASSUME SweepInv, NEW c \in Pages,
         PageFails(c) \/ PageDiscarded(c) \/ PageCompleted(c)
           \/ (PersistPage(c) /\ ~OwnsCursor(c))
  PROVE  SweepInv'
<1>1. PICK j : /\ j \in {NoPageJob, [NoPageJob EXCEPT !.state = "queued"],
                         [NoPageJob EXCEPT !.state = "finishing"]}
               /\ job' = [job EXCEPT ![c] = j]
               /\ UNCHANGED <<listed, version, row, seen, throughout, removals>>
  BY Zenon DEF PageFails, PageDiscarded, PageCompleted, PersistPage, listingVars, historyVars
<1>2. j \in PageJobs /\ j.state # "fetched"
  <2>1. NoPageJob \in PageJobs /\ NoPageJob.state # "fetched"
    BY DEF NoPageJob, PageJobs, FetchedPages, NoPage
  <2> QED
    BY <1>1, <2>1 DEF PageJobs
<1>3. /\ job' \in [Pages -> PageJobs]
      /\ \A d \in Pages : job'[d].state = "fetched" =>
           job[d].state = "fetched" /\ job'[d].page = job[d].page
  BY <1>1, <1>2 DEF SweepInv, SweepTypeOK
<1> QED
  BY <1>1, <1>3, SweepRests, Zenon

\* Every step preserves the invariant.
LEMMA SweepStep == SweepInv /\ LinkedPages /\ [SweepNext]_sweepVars => SweepInv'
<1> SUFFICES ASSUME SweepInv, LinkedPages, [SweepNext]_sweepVars PROVE SweepInv'
  BY Zenon
<1>1. CASE \E e \in Pulls : Edit(e)
  BY <1>1, SweepEdit, Zenon
<1>2. CASE Rename \/ (\E e \in Pulls : Refresh(e)) \/ UNCHANGED sweepVars
  <2>1. UNCHANGED <<listed, version, row, seen, throughout, removals, job>>
    BY <1>2, Zenon DEF Rename, Refresh, sweepVars, listingVars, historyVars
  <2>2. job \in [Pages -> PageJobs]
    BY Zenon DEF SweepInv, SweepTypeOK
  <2> QED
    BY <2>1, <2>2, SweepRests, Zenon
<1>3. CASE \E c \in Pages : PageFails(c) \/ PageDiscarded(c) \/ PageCompleted(c)
  BY <1>3, SweepJobs, Zenon
<1>4. CASE \E c \in Pages : PersistPage(c)
  BY <1>4, SweepJobs, SweepPersist, Zenon
<1>5. CASE \E c \in Pages : ReconcilePage(c)
  BY <1>5, SweepFetch, Zenon
<1>6. CASE ReapScope \/ StartOrResumeScope
  BY <1>6, SweepReap, SweepKickoff, Zenon
<1> QED
  BY <1>1, <1>2, <1>3, <1>4, <1>5, <1>6, Zenon DEF SweepNext, Sweeping, Kickoff, PageJob

\* A page is fetched with its link, and stored with it.
LEMMA LinksStay == SweepInv /\ LinkedPages /\ [SweepNext]_sweepVars => LinkedPages'
<1> SUFFICES ASSUME SweepInv, LinkedPages, [SweepNext]_sweepVars PROVE LinkedPages'
  BY Zenon
<1>0. /\ job \in [Pages -> PageJobs] /\ pages \in [Pages -> FetchedPages]
      /\ \A c \in Pages : pages[c] # NoPage => pages[c].next \in {End, c + 1}
      /\ \A c \in Pages : job[c].state = "fetched" => job[c].page.next \in {End, c + 1}
  BY Zenon DEF SweepInv, SweepTypeOK, LinkedPages
<1>1. ASSUME UNCHANGED pages,
             \A c \in Pages : job'[c].state = "fetched" =>
               job[c].state = "fetched" /\ job'[c].page = job[c].page
      PROVE  LinkedPages'
  BY <1>0, <1>1, Zenon DEF LinkedPages
<1>2. CASE (\E e \in Pulls : Edit(e) \/ Refresh(e)) \/ Rename \/ UNCHANGED sweepVars
  <2>1. UNCHANGED <<pages, job>>
    BY <1>2, Zenon DEF Edit, Refresh, Rename, sweepVars
  <2> QED
    BY <1>1, <2>1, Zenon
<1>3. CASE ReapScope
  <2>1. pages' = [c \in Pages |-> NoPage] /\ UNCHANGED job
    BY <1>3, Zenon DEF ReapScope
  <2>2. NoPage \in FetchedPages
    BY DEF NoPage, FetchedPages
  <2> QED
    BY <1>0, <2>1, <2>2 DEF LinkedPages
<1>4. CASE StartOrResumeScope
  <2>1. PICK d : d = row'.cursor /\ job' = InsertPage(job, d) /\ UNCHANGED pages
    BY <1>4, Zenon DEF StartOrResumeScope
  <2> QED
    BY <1>0, <1>1, <2>1, InsertFetchesNothing, Zenon
<1>5. CASE \E c \in Pages : PageFails(c) \/ PageDiscarded(c) \/ PageCompleted(c)
                              \/ (PersistPage(c) /\ ~OwnsCursor(c))
  <2>0. PICK c \in Pages : PageFails(c) \/ PageDiscarded(c) \/ PageCompleted(c)
                              \/ (PersistPage(c) /\ ~OwnsCursor(c))
    BY <1>5, Zenon
  <2>1. PICK j :
          /\ j \in {NoPageJob, [NoPageJob EXCEPT !.state = "queued"],
                    [NoPageJob EXCEPT !.state = "finishing"]}
          /\ job' = [job EXCEPT ![c] = j] /\ UNCHANGED pages
    BY <2>0, Zenon DEF PageFails, PageDiscarded, PageCompleted, PersistPage
  <2>2. j.state # "fetched"
    BY <2>1 DEF NoPageJob
  <2>3. \A d \in Pages : job'[d] = IF d = c THEN j ELSE job[d]
    BY <1>0, <2>1, Zenon
  <2> QED
    BY <1>1, <2>1, <2>2, <2>3, Zenon
<1>6. CASE \E c \in Pages : ReconcilePage(c)
  <2>1. PICK c \in Pages : ReconcilePage(c)
    BY <1>6, Zenon
  <2>2. PICK j : /\ job' = [job EXCEPT ![c] = j] /\ UNCHANGED pages
                 /\ j = IF ~OwnsCursor(c) THEN [NoPageJob EXCEPT !.state = "finishing"]
                        ELSE [state |-> "fetched", page |-> ServedPage(c),
                              changed |-> ~NotModified(c)]
    BY <2>1, Zenon DEF ReconcilePage
  <2>3. j.state = "fetched" => j.page = ServedPage(c)
    BY <2>2 DEF NoPageJob
  <2>4. j.state = "fetched" => j.page.next \in {End, c + 1}
    BY <2>3, ServedIsLinked, Zenon DEF SweepInv
  <2>5. \A d \in Pages : job'[d] = IF d = c THEN j ELSE job[d]
    BY <1>0, <2>2, Zenon
  <2> QED
    BY <1>0, <2>2, <2>4, <2>5, Zenon DEF LinkedPages
<1>7. CASE \E c \in Pages : PersistPage(c) /\ OwnsCursor(c)
  <2>1. PICK c \in Pages : PersistPage(c) /\ OwnsCursor(c)
    BY <1>7, Zenon
  <2>2. PICK rest, d :
          /\ job[c].state = "fetched" /\ pages' = [pages EXCEPT ![c] = job[c].page]
          /\ rest = [job EXCEPT ![c] = [NoPageJob EXCEPT !.state = "finishing"]]
          /\ d = row'.cursor /\ job' \in {rest, InsertPage(rest, d)}
    BY <2>1, Zenon DEF PersistPage, UpsertSweepPage
  <2>3. PICK j : j = [NoPageJob EXCEPT !.state = "finishing"]
    BY Zenon
  <2>4. j \in PageJobs /\ j.state # "fetched"
    <3>1. NoPageJob \in PageJobs
      BY DEF NoPageJob, PageJobs, FetchedPages, NoPage
    <3> QED
      BY <2>3, <3>1 DEF PageJobs
  <2>5. /\ rest \in [Pages -> PageJobs]
        /\ \A b \in Pages : rest[b].state = "fetched" =>
             job[b].state = "fetched" /\ rest[b].page = job[b].page
    <3>1. rest = [job EXCEPT ![c] = j]
      BY <2>2, <2>3, Zenon
    <3> QED
      BY <1>0, <2>4, <3>1
  <2>6. \A b \in Pages : InsertPage(rest, d)[b].state = "fetched" =>
          rest[b].state = "fetched" /\ InsertPage(rest, d)[b].page = rest[b].page
    BY <2>5, InsertFetchesNothing, Zenon
  <2>7. \A b \in Pages : job'[b].state = "fetched" =>
          job[b].state = "fetched" /\ job'[b].page = job[b].page
    BY <2>2, <2>5, <2>6, Zenon
  <2>8. job[c].page \in FetchedPages /\ job[c].page.next \in {End, c + 1}
    <3>1. job[c] \in PageJobs
      BY <1>0, Zenon
    <3>2. job[c].page \in FetchedPages
      BY <3>1 DEF PageJobs
    <3> QED
      BY <1>0, <2>2, <3>2, Zenon
  <2>9. /\ pages' \in [Pages -> FetchedPages]
        /\ \A b \in Pages : pages'[b] = IF b = c THEN job[c].page ELSE pages[b]
    BY <1>0, <2>2, <2>8, Zenon
  <2> QED
    BY <1>0, <2>7, <2>8, <2>9, Zenon DEF LinkedPages
<1> QED
  BY <1>2, <1>3, <1>4, <1>5, <1>6, <1>7, Zenon DEF SweepNext, Sweeping, Kickoff, PageJob

\* Before the first sweep the invariant holds.
LEMMA SweepStart == SweepInit => SweepInv /\ LinkedPages
<1> SUFFICES ASSUME SweepInit PROVE SweepInv /\ LinkedPages
  BY Zenon
<1>1. row = NoRow /\ throughout = {} /\ job = [c \in Pages |-> NoPageJob]
  BY Zenon DEF SweepInit
<1>2. SweepTypeOK
  <2>1. NoPageJob \in PageJobs
    BY DEF NoPageJob, PageJobs, FetchedPages, NoPage
  <2>2. listed \in SUBSET Pulls /\ seen = {} /\ version \in [Pulls -> Nat] /\ removals = 0
    BY SweepConstants DEF SweepInit
  <2> QED
    BY <1>1, <2>1, <2>2 DEF SweepTypeOK, NoRow, End
<1>3. ~row.started /\ ~row.done
  BY <1>1 DEF NoRow
<1>4. LinkedPages
  <2>1. pages = [c \in Pages |-> NoPage] /\ NoPage \in FetchedPages
    BY DEF SweepInit, FetchedPages, NoPage
  <2>2. NoPageJob.state # "fetched"
    BY DEF NoPageJob
  <2> QED
    BY <1>1, <2>1, <2>2 DEF LinkedPages
<1> QED
  BY <1>1, <1>2, <1>3, <1>4, Zenon DEF SweepInv, OwnPages, SweepWillSee, SweepSeesStableEntities, Running

\* persistPage, RestartSweepCursorPass: for every listing, page size and number
\* of edits, failures and renames, a completed pull-request sweep that met at
\* most one removal has seen every entity that was listed throughout it and
\* that no 304 hid behind an end of the listing that is out of date.
THEOREM StableEntitiesAreSeen == SweepSpec => []SweepSeesStableEntities
<1>1. SweepInv => SweepSeesStableEntities
  BY Zenon DEF SweepInv
<1> QED
  BY <1>1, SweepStart, SweepStep, LinksStay, PTL DEF SweepSpec

-----------------------------------------------------------------------------
(* The drift detector.  Versions only grow, so a row whose version is the  *)
(* sampled one when it is reread was not written since GitHub was asked.   *)

Values == {0, 1}
Work == [step : {"none", "queued", "fetched", "applied"}, gen : Int, value : Values, obs : Int]
Findings == [e : Sources, cached : Values, upstream : Values, heal : Int, escalated : BOOLEAN]

DriftTypeOK ==
    /\ up \in [Sources -> Values] /\ cache \in [Sources -> Values]
    /\ writes \in [Sources -> Nat] /\ issued \in [Sources -> Int]
    /\ undelivered \in SUBSET [e : Sources, after : Values]
    /\ worker \in [Sources -> Work] /\ page \in [Sources -> Work]
    /\ findings \in SUBSET Findings
    /\ pass \in Seq([e : Sources, seen : Nat])

\* Every version was the row's at some time before.
PassIsPast == \A i \in 1 .. Len(pass) : pass[i].seen <= writes[pass[i].e]

\* The inspection, step by step: what it read still holds while the version
\* is the one it started from and no push rewrites the row.
SampleInv ==
    sample.step # "none" =>
      /\ pass # <<>>
      /\ sample.e \in Sources /\ sample.seen \in Nat
      /\ sample.seen <= writes[sample.e]
      /\ sample.value \in Values /\ sample.upstream \in Values
      /\ sample.step \in {"fetched", "observed", "reread", "compared"} /\ writes[sample.e] = sample.seen
           /\ ~sample.hinted
           => (sample.diverged <=> cache[sample.e] # sample.upstream)
      /\ sample.step \in {"observed", "reread", "compared"}
           => sample.obs \in Nat /\ sample.seen <= sample.obs /\ sample.obs <= writes[sample.e]
      /\ sample.step \in {"reread", "compared"}
           => /\ sample.obs = sample.seen
              /\ writes[sample.e] = sample.seen /\ ~sample.hinted
                   => sample.value = cache[sample.e]

Inspections == [step : {"none", "quiescent", "fetched", "observed", "reread", "compared"},
                e : Int, seen : Int, value : Int, upstream : Int, obs : Int,
                diverged : BOOLEAN, hinted : BOOLEAN]

DriftInv == DriftTypeOK /\ PassIsPast /\ sample \in Inspections /\ SampleInv

\* A step that leaves the rows and the inspection alone.
LEMMA InspectionStays ==
  ASSUME DriftInv, UNCHANGED <<cache, writes, pass, sample>>, DriftTypeOK'
  PROVE  DriftInv'
BY Zenon DEF DriftInv, PassIsPast, SampleInv

\* A step that writes rows: a version grows with its row, or the inspection
\* of that row is marked.
LEMMA RowsMove ==
  ASSUME DriftInv, DriftTypeOK', UNCHANGED pass, sample' \in Inspections,
         sample' = sample \/ sample' = [sample EXCEPT !.hinted = TRUE],
         \A e \in Sources :
           /\ writes[e] <= writes'[e]
           /\ writes'[e] = writes[e] => e # sample.e \/ cache'[e] = cache[e] \/ sample'.hinted
  PROVE  DriftInv'
<1>1. \A e \in Sources : writes[e] \in Nat /\ writes'[e] \in Nat
  BY Zenon DEF DriftInv, DriftTypeOK
<1>2. PassIsPast'
  <2> SUFFICES ASSUME NEW i \in 1 .. Len(pass) PROVE pass[i].seen <= writes'[pass[i].e]
    BY Zenon DEF PassIsPast
  <2>1. pass[i] \in [e : Sources, seen : Nat] /\ pass[i].seen <= writes[pass[i].e]
    <3>1. PICK R : R = [e : Sources, seen : Nat]
      BY Zenon
    <3>2. pass \in Seq(R)
      BY <3>1, Zenon DEF DriftInv, DriftTypeOK
    <3>3. pass[i] \in R
      BY <3>2
    <3> QED
      BY <3>1, <3>3, Zenon DEF DriftInv, PassIsPast
  <2>2. PICK x, n : x = pass[i].e /\ n = pass[i].seen
    BY Zenon
  <2>3. x \in Sources /\ n \in Nat /\ n <= writes[x]
    BY <2>1, <2>2, Zenon
  <2>4. PICK v, w : v = writes[x] /\ w = writes'[x]
    BY Zenon
  <2>5. v \in Nat /\ w \in Nat /\ v <= w /\ n <= v
    BY <1>1, <2>3, <2>4, Zenon
  <2>6. n <= w
    BY <2>3, <2>5
  <2> QED
    BY <2>2, <2>4, <2>6, Zenon
<1>3. /\ sample'.step = sample.step /\ sample'.e = sample.e /\ sample'.seen = sample.seen
      /\ sample'.value = sample.value /\ sample'.upstream = sample.upstream
      /\ sample'.obs = sample.obs /\ sample'.diverged = sample.diverged
      /\ ~sample'.hinted => ~sample.hinted
  <2>1. CASE sample' = sample
    BY <2>1, Zenon
  <2>2. CASE sample' = [sample EXCEPT !.hinted = TRUE]
    <3>1. sample \in Inspections
      BY Zenon DEF DriftInv
    <3> QED
      BY <2>2, <3>1, Zenon DEF Inspections
  <2> QED
    BY <2>1, <2>2, Zenon
<1>4. SampleInv'
  <2> SUFFICES ASSUME sample.step # "none" PROVE SampleInv'
    BY <1>3, Zenon DEF SampleInv
  <2>1. PICK e, w, v, c, d : /\ e = sample.e /\ w = writes[e] /\ v = writes'[e]
                             /\ c = cache[e] /\ d = cache'[e]
    BY Zenon
  <2>2. /\ e \in Sources /\ w \in Nat /\ v \in Nat /\ w <= v
        /\ v = w /\ ~sample'.hinted => d = c
    BY <1>1, <2>1, Zenon DEF DriftInv, SampleInv
  <2>3. SampleInv' <=>
          /\ pass # <<>> /\ sample.e \in Sources /\ sample.seen \in Nat /\ sample.seen <= v
          /\ sample.value \in Values /\ sample.upstream \in Values
          /\ sample.step \in {"fetched", "observed", "reread", "compared"} /\ v = sample.seen
               /\ ~sample'.hinted
               => (sample.diverged <=> d # sample.upstream)
          /\ sample.step \in {"observed", "reread", "compared"}
               => sample.obs \in Nat /\ sample.seen <= sample.obs /\ sample.obs <= v
          /\ sample.step \in {"reread", "compared"}
               => /\ sample.obs = sample.seen
                  /\ v = sample.seen /\ ~sample'.hinted => sample.value = d
    BY <1>3, <2>1, Zenon DEF SampleInv
  <2>4. /\ pass # <<>> /\ sample.e \in Sources /\ sample.seen \in Nat /\ sample.seen <= w
        /\ sample.value \in Values /\ sample.upstream \in Values
        /\ sample.step \in {"fetched", "observed", "reread", "compared"} /\ w = sample.seen
             /\ ~sample.hinted
             => (sample.diverged <=> c # sample.upstream)
        /\ sample.step \in {"observed", "reread", "compared"}
             => sample.obs \in Nat /\ sample.seen <= sample.obs /\ sample.obs <= w
        /\ sample.step \in {"reread", "compared"}
             => /\ sample.obs = sample.seen
                /\ w = sample.seen /\ ~sample.hinted => sample.value = c
    BY <2>1, Zenon DEF DriftInv, SampleInv
  <2>5. sample.seen <= v /\ (v = sample.seen => w = v)
    BY <2>2, <2>4
  <2>6. sample.obs \in Nat /\ sample.obs <= w => sample.obs <= v
    BY <2>2
  <2> QED
    BY <1>3, <2>2, <2>3, <2>4, <2>5, <2>6, ZenonT(60)
<1> QED
  BY <1>2, <1>4, Zenon DEF DriftInv

\* A job that has read GitHub.
LEMMA FetchedIsWork ==
  ASSUME DriftTypeOK, NEW e \in Sources, NEW gen \in Int
  PROVE  Fetched(e, gen) \in Work
<1>1. up[e] \in Values /\ writes[e] \in Int
  BY DEF DriftTypeOK
<1> QED
  BY <1>1, Zenon DEF Fetched, Work

\* A refresh or a page job is applied: the version of its row grows.
LEMMA RefreshIsApplied ==
  ASSUME DriftInv, NEW x \in Sources, ApplyRefresh(x) \/ ApplyBranchPage(x)
  PROVE  DriftInv'
<1>1. /\ UNCHANGED <<up, undelivered, issued, findings, pass, sample>>
      /\ UNCHANGED <<cache, writes>> \/ \E v \in {worker[x].value, page[x].value} : Write(x, v)
  BY Zenon DEF ApplyRefresh, ApplyBranchPage, githubVars, cacheVars, detectorVars
<1>2. /\ worker \in [Sources -> Work] /\ page \in [Sources -> Work] /\ DriftTypeOK
      /\ worker[x] \in Work /\ page[x] \in Work
      /\ cache \in [Sources -> Values] /\ writes \in [Sources -> Nat]
  BY Zenon DEF DriftInv, DriftTypeOK
<1>3. worker[x].value \in Values /\ page[x].value \in Values /\ worker[x].gen \in Int
  BY <1>2, Zenon DEF Work
<1>4. /\ cache' \in [Sources -> Values] /\ writes' \in [Sources -> Nat]
      /\ \A e \in Sources : /\ writes[e] <= writes'[e]
                            /\ writes'[e] = writes[e] => cache'[e] = cache[e]
  <2>1. CASE UNCHANGED <<cache, writes>>
    BY <1>2, <2>1
  <2>2. CASE \E v \in {worker[x].value, page[x].value} : Write(x, v)
    <3>1. PICK v \in Values : Write(x, v)
      BY <1>3, <2>2, Zenon
    <3>2. PICK s \in Values : cache' = [cache EXCEPT ![x] = s]
      <4>1. 0 \in Values
        BY DEF Values
      <4> QED
        BY <3>1, <4>1, Zenon DEF Write
    <3>3. writes' = [writes EXCEPT ![x] = @ + 1]
      BY <3>1, Zenon DEF Write
    <3> QED
      BY <1>2, <3>2, <3>3
  <2> QED
    BY <1>1, <2>1, <2>2, Zenon
<1>5. worker' \in [Sources -> Work] /\ page' \in [Sources -> Work]
  <2>1. Fetched(x, worker[x].gen) \in Work
    BY <1>2, <1>3, FetchedIsWork, Zenon
  <2>2. [worker[x] EXCEPT !.step = "applied"] \in Work /\ NoWork \in Work
    <3>1. PICK w \in Work : w = worker[x]
      BY <1>2, Zenon
    <3>2. [w EXCEPT !.step = "applied"] \in Work
      BY DEF Work
    <3>3. NoWork \in Work
      BY DEF NoWork, Work, Values
    <3> QED
      BY <3>1, <3>2, <3>3, Zenon
  <2>3. \/ UNCHANGED worker /\ page' = [page EXCEPT ![x] = NoWork]
        \/ UNCHANGED page /\ \E w \in Work : worker' = [worker EXCEPT ![x] = w]
    BY <2>1, <2>2, Zenon DEF ApplyRefresh, ApplyBranchPage
  <2> QED
    BY <1>2, <2>2, <2>3, Zenon
<1>6. DriftTypeOK'
  BY <1>1, <1>2, <1>4, <1>5, Zenon DEF DriftTypeOK
<1>7. sample' = sample /\ sample' \in Inspections
  BY <1>1, Zenon DEF DriftInv
<1> QED
  BY <1>1, <1>4, <1>6, <1>7, RowsMove, Zenon

\* A push rewrites a row and leaves its version, but marks its inspection.
LEMMA PushIsDispatched ==
  ASSUME DriftInv, NEW x \in undelivered, DispatchPush(x)
  PROVE  DriftInv'
<1>1. /\ undelivered' = undelivered \ {x} /\ UNCHANGED <<up, writes, worker, findings, pass>>
      /\ cache' = IF cache[x.e] = 1 - x.after THEN [cache EXCEPT ![x.e] = x.after] ELSE cache
      /\ issued' = [issued EXCEPT ![x.e] = @ + 1]
      /\ page' = [page EXCEPT ![x.e] = [NoWork EXCEPT !.step = "queued", !.gen = issued'[x.e]]]
      /\ sample' = [sample EXCEPT !.hinted = @ \/ (sample.e = x.e /\ cache' # cache)]
  BY Zenon DEF DispatchPush, ApplyBranchHintTransition,
               AdvanceBranchReconciliationTargetGenerations
<1>2. /\ undelivered \in SUBSET [e : Sources, after : Values] /\ sample \in Inspections
      /\ cache \in [Sources -> Values] /\ issued \in [Sources -> Int]
      /\ page \in [Sources -> Work] /\ writes \in [Sources -> Nat] /\ DriftTypeOK
  BY Zenon DEF DriftInv, DriftTypeOK
<1>3. PICK e, a : e = x.e /\ a = x.after /\ e \in Sources /\ a \in Values
  BY <1>2, Zenon
<1>4. cache' \in [Sources -> Values] /\ \A d \in Sources : d # e => cache'[d] = cache[d]
  <2>1. cache' = cache \/ cache' = [cache EXCEPT ![e] = a]
    BY <1>1, <1>3, Zenon
  <2> QED
    BY <1>2, <1>3, <2>1, Zenon
<1>5. issued' \in [Sources -> Int]
  <2>1. issued' = [issued EXCEPT ![e] = @ + 1]
    BY <1>1, <1>3, Zenon
  <2> QED
    BY <1>2, <1>3, <2>1
<1>6. page' \in [Sources -> Work]
  <2>1. PICK g \in Int : g = issued'[e]
    BY <1>3, <1>5, Zenon
  <2>2. [NoWork EXCEPT !.step = "queued", !.gen = g] \in Work
    <3>1. NoWork \in Work
      BY DEF NoWork, Work, Values
    <3> QED
      BY <3>1, Zenon DEF Work
  <2>3. page' = [page EXCEPT ![e] = [NoWork EXCEPT !.step = "queued", !.gen = g]]
    BY <1>1, <1>3, <2>1, Zenon
  <2> QED
    BY <1>2, <1>3, <2>2, <2>3, Zenon
<1>7. DriftTypeOK'
  BY <1>1, <1>2, <1>4, <1>5, <1>6, Zenon DEF DriftTypeOK
<1>8. PICK b : b = (sample.hinted \/ (sample.e = e /\ cache' # cache))
  BY Zenon
<1>9. /\ b \in BOOLEAN /\ sample.hinted \in BOOLEAN
      /\ sample' = [sample EXCEPT !.hinted = b]
  BY <1>1, <1>2, <1>3, <1>8, Zenon DEF Inspections
<1>10. /\ sample' \in Inspections /\ sample'.hinted = b
       /\ sample' = sample \/ sample' = [sample EXCEPT !.hinted = TRUE]
  <2>1. sample' \in Inspections /\ sample'.hinted = b
    BY <1>2, <1>9, Zenon DEF Inspections
  <2>2. CASE b = TRUE
    BY <1>9, <2>1, <2>2, Zenon
  <2>3. CASE b = FALSE
    <3>1. sample.hinted = FALSE
      BY <1>8, <1>9, <2>3, Zenon
    <3>2. [sample EXCEPT !.hinted = FALSE] = sample
      BY <1>2, <3>1, Zenon DEF Inspections
    <3> QED
      BY <1>9, <2>1, <2>3, <3>2, Zenon
  <2> QED
    BY <1>9, <2>1, <2>2, <2>3, Zenon
<1>11. ASSUME NEW d \in Sources
       PROVE  /\ writes[d] <= writes'[d]
              /\ d # sample.e \/ cache'[d] = cache[d] \/ sample'.hinted
  <2>1. writes'[d] = writes[d] /\ writes[d] \in Nat
    BY <1>1, <1>2, Zenon
  <2>2. writes[d] <= writes'[d]
    BY <2>1
  <2> QED
    BY <1>4, <1>8, <1>10, <2>2, Zenon
<1> QED
  BY <1>1, <1>7, <1>10, <1>11, RowsMove, Zenon

\* No sample is under inspection.
LEMMA NoInspection == NoSample \in Inspections /\ NoSample.step = "none"
BY DEF NoSample, Inspections

\* An inspection ends and the pass goes on to the next row.
LEMMA InspectionEnds ==
  ASSUME DriftInv, pass # <<>>, EndSample, UNCHANGED <<cache, writes>>,
         UNCHANGED <<up, worker, page, undelivered>>, issued' \in [Sources -> Int], findings' \in SUBSET Findings
  PROVE  DriftInv'
<1>1. sample' = NoSample /\ pass' = Tail(pass)
  BY Zenon DEF EndSample
<1>2. PICK R : R = [e : Sources, seen : Nat]
  BY Zenon
<1>3. pass \in Seq(R)
  BY <1>2, Zenon DEF DriftInv, DriftTypeOK
<1>4. /\ pass' \in Seq(R) /\ Len(pass') = Len(pass) - 1 /\ Len(pass) \in Nat
      /\ \A i \in 1 .. Len(pass') : pass'[i] = pass[i + 1]
  BY <1>1, <1>3
<1>5. DriftTypeOK'
  BY <1>2, <1>4, Zenon DEF DriftInv, DriftTypeOK
<1>6. PassIsPast'
  <2> SUFFICES ASSUME NEW i \in 1 .. Len(pass') PROVE pass'[i].seen <= writes[pass'[i].e]
    BY Zenon DEF PassIsPast
  <2>1. i + 1 \in 1 .. Len(pass)
    BY <1>4
  <2>2. PICK k \in 1 .. Len(pass) : pass'[i] = pass[k]
    BY <1>4, <2>1, Zenon
  <2> QED
    BY <2>2, Zenon DEF DriftInv, PassIsPast
<1> QED
  BY <1>1, <1>5, <1>6, NoInspection, Zenon DEF DriftInv, SampleInv

\* The sampled rows and their versions.
LEMMA PassStarts ==
  ASSUME DriftInv, StartPass
  PROVE  DriftInv'
<1>1. UNCHANGED <<up, cache, writes, issued, worker, page, undelivered, findings, sample>> /\ sample.step = "none"
  BY Zenon DEF StartPass, githubVars, queueVars, cacheVars
<1>2. PICK s \in [1 .. Cardinality(Samples) -> Samples] :
        pass' = [i \in DOMAIN s |-> [e |-> s[i], seen |-> writes[s[i]]]]
  BY Zenon DEF StartPass
<1>3. Samples \in SUBSET Sources
  BY Zenon DEF Samples, SampleCachedEntitiesAfter, SampleCachedEntitiesThrough, FirstOf
<1>4. Cardinality(Samples) \in Nat
  BY <1>3, DriftConstants, FS_Subset, FS_CardinalityType, Zenon
<1>5. PICK n, T : n = Cardinality(Samples) /\ T = Samples
  BY Zenon
<1>6. n \in Nat /\ s \in [1 .. n -> T] /\ T \subseteq Sources
  BY <1>2, <1>3, <1>4, <1>5, Zenon
<1>7. PICK R : R = [e : Sources, seen : Nat]
  BY Zenon
<1>8. \A i \in 1 .. n : [e |-> s[i], seen |-> writes[s[i]]] \in R
  BY Zenon, <1>6, <1>7 DEF DriftInv, DriftTypeOK
<1>9. DOMAIN pass' = 1 .. n /\ \A i \in 1 .. n : pass'[i] = [e |-> s[i], seen |-> writes[s[i]]]
  BY Zenon, <1>2, <1>6
<1>10. pass' \in Seq(R) /\ Len(pass') = n
  <2>1. pass' \in [1 .. n -> R]
    BY <1>2, <1>6, <1>8
  <2> QED
    BY <1>6, <2>1
<1>11. PassIsPast'
  <2> SUFFICES ASSUME NEW i \in 1 .. n PROVE pass'[i].seen <= writes[pass'[i].e]
    BY <1>1, <1>10, Zenon DEF PassIsPast
  <2>1. s[i] \in Sources /\ writes[s[i]] \in Nat
    BY Zenon, <1>6 DEF DriftInv, DriftTypeOK
  <2>2. pass'[i].seen = writes[s[i]] /\ pass'[i].e = s[i]
    BY SMTT(60), <1>9
  <2> QED
    BY <2>1, <2>2
<1>12. DriftTypeOK'
  BY <1>1, <1>7, <1>10, Zenon DEF DriftInv, DriftTypeOK
<1> QED
  BY <1>1, <1>11, <1>12, Zenon DEF DriftInv, SampleInv

\* A step of an inspection alone preserves the invariant.
LEMMA InspectionMoves ==
  ASSUME DriftInv, UNCHANGED <<up, cache, writes, issued, worker, page, undelivered, findings, pass>>,
         sample' \in Inspections, SampleInv'
  PROVE  DriftInv'
BY Zenon DEF DriftInv, DriftTypeOK, PassIsPast

\* The steps of inspectSample before its transaction.
LEMMA InspectionStep ==
  ASSUME DriftInv,
         BeginSample \/ FullFetch \/ FetchFails \/ BeginObservation \/ Reread \/ Recheck
  PROVE  DriftInv'
<1> USE DEF githubVars, queueVars, cacheVars
<1>0. /\ sample \in Inspections /\ issued \in [Sources -> Int] /\ findings \in SUBSET Findings
      /\ up \in [Sources -> Values] /\ cache \in [Sources -> Values] /\ writes \in [Sources -> Nat]
  BY Zenon DEF DriftInv, DriftTypeOK
<1>00. Values \subseteq Int /\ Sources \subseteq Int
  BY DriftConstants DEF Values
<1>1. CASE BeginSample
  <2>1. /\ pass # <<>> /\ sample.step = "none"
        /\ UNCHANGED <<up, cache, writes, issued, worker, page, undelivered, findings>>
    BY <1>1, Zenon DEF BeginSample
  <2>2. CASE EndSample
    BY <1>0, <2>1, <2>2, InspectionEnds, Zenon
  <2>3. CASE sample' = [NoSample EXCEPT !.step = "quiescent", !.e = Head(pass).e,
                                        !.seen = Head(pass).seen]
             /\ UNCHANGED pass
    <3>1. PICK R : R = [e : Sources, seen : Nat]
      BY Zenon
    <3>2. pass \in Seq(R)
      BY <3>1, Zenon DEF DriftInv, DriftTypeOK
    <3>3. Head(pass) = pass[1] /\ pass[1] \in R /\ 1 \in 1 .. Len(pass)
      BY <2>1, <3>2
    <3>4. PICK h : h = pass[1]
      BY Zenon
    <3>5. h.e \in Sources /\ h.seen \in Nat /\ h.seen <= writes[h.e] /\ h.e \in Int
      BY Zenon, <1>00, <3>1, <3>3, <3>4 DEF DriftInv, PassIsPast
    <3>6. sample' = [step |-> "quiescent", e |-> h.e, seen |-> h.seen, value |-> 0, upstream |-> 0,
                     obs |-> 0, diverged |-> FALSE, hinted |-> FALSE]
      BY ZenonT(120), <2>3, <3>3, <3>4 DEF NoSample
    <3>7. /\ sample' \in Inspections /\ sample'.step = "quiescent" /\ sample'.e = h.e
          /\ sample'.seen = h.seen /\ sample'.value = 0 /\ sample'.upstream = 0
      <4>1. 0 \in Int /\ h.seen \in Int
        BY <3>5
      <4>2. sample' \in Inspections
        BY Zenon, <3>5, <3>6, <4>1 DEF Inspections
      <4>3. /\ sample'.step = "quiescent" /\ sample'.e = h.e
            /\ sample'.seen = h.seen /\ sample'.value = 0 /\ sample'.upstream = 0
        BY <3>6
      <4> QED
        BY Zenon, <4>2, <4>3
    <3>8. SampleInv'
      BY <2>1, <2>3, <3>5, <3>7 DEF SampleInv, Values
    <3> QED
      BY <2>1, <2>3, <3>7, <3>8, InspectionMoves, Zenon
  <2> QED
    BY <1>1, <2>2, <2>3, Zenon DEF BeginSample
<1>2. CASE FullFetch
  <2>1. /\ sample.step = "quiescent"
        /\ sample' = [sample EXCEPT !.step = "fetched", !.upstream = up[sample.e],
                                    !.diverged = cache[sample.e] # up[sample.e],
                                    !.hinted = FALSE]
        /\ UNCHANGED <<up, cache, writes, issued, worker, page, undelivered, findings, pass>>
    BY <1>2, Zenon DEF FullFetch
  <2>2. sample.e \in Sources /\ up[sample.e] \in Values /\ up[sample.e] \in Int
    BY <1>0, <1>00, <2>1 DEF DriftInv, SampleInv
  <2>3. /\ sample' \in Inspections /\ sample'.step = "fetched" /\ sample'.e = sample.e
        /\ sample'.seen = sample.seen /\ sample'.value = sample.value
        /\ sample'.upstream = up[sample.e] /\ (sample'.diverged <=> cache[sample.e] # up[sample.e])
    BY Zenon, <1>0, <2>1, <2>2 DEF Inspections
  <2>4. SampleInv'
    BY Zenon, <2>1, <2>2, <2>3 DEF SampleInv, DriftInv
  <2> QED
    BY <2>1, <2>3, <2>4, InspectionMoves, Zenon
<1>3. CASE FetchFails
  <2>1. pass' = <<>> /\ sample' = NoSample /\ UNCHANGED <<up, cache, writes, issued, worker, page, undelivered, findings>>
    BY <1>3, Zenon DEF FetchFails
  <2>2. DriftTypeOK' /\ PassIsPast'
    BY SMTT(60), <2>1 DEF DriftInv, DriftTypeOK, PassIsPast
  <2> QED
    BY <2>1, <2>2, NoInspection, Zenon DEF DriftInv, SampleInv
<1>4. CASE BeginObservation
  <2>1. /\ sample.step = "fetched"
        /\ sample' = [sample EXCEPT !.step = "observed", !.obs = writes[sample.e]]
        /\ UNCHANGED <<up, cache, writes, issued, worker, page, undelivered, findings, pass>>
    BY <1>4, Zenon DEF BeginObservation
  <2>2. sample.e \in Sources /\ writes[sample.e] \in Nat
    BY <1>0, <2>1 DEF DriftInv, SampleInv
  <2>3. /\ sample' \in Inspections /\ sample'.step = "observed" /\ sample'.e = sample.e
        /\ sample'.seen = sample.seen /\ sample'.value = sample.value
        /\ sample'.upstream = sample.upstream /\ sample'.diverged = sample.diverged /\ sample'.hinted = sample.hinted
        /\ sample'.obs = writes[sample.e]
    <3>1. PICK w : w = writes[sample.e]
      BY Zenon
    <3>2. sample' = [sample EXCEPT !.step = "observed", !.obs = w] /\ w \in Int
      BY <2>1, <2>2, <3>1
    <3> QED
      BY Zenon, <1>0, <3>1, <3>2 DEF Inspections
  <2>4. SampleInv'
    BY <2>1, <2>2, <2>3 DEF SampleInv, DriftInv
  <2> QED
    BY <2>1, <2>3, <2>4, InspectionMoves, Zenon
<1>5. CASE Reread
  <2>1. /\ sample.step = "observed" /\ UNCHANGED <<up, cache, writes, issued, worker, page, undelivered, findings>>
    BY <1>5, Zenon DEF Reread
  <2>2. pass # <<>> /\ sample.e \in Sources
    BY <2>1 DEF DriftInv, SampleInv
  <2>3. CASE EndSample
    BY <1>0, <2>1, <2>2, <2>3, InspectionEnds, Zenon
  <2>4. CASE /\ ~RowMoved /\ UNCHANGED pass
             /\ sample' = [sample EXCEPT !.step = "reread",
                             !.value = GetCachedEntitySnapshot(sample.e).value]
    <3>1. writes[sample.e] = sample.seen
      BY <2>4 DEF RowMoved, GetCachedEntitySnapshot
    <3>2. sample' = [sample EXCEPT !.step = "reread", !.value = cache[sample.e]]
      BY <2>4 DEF GetCachedEntitySnapshot
    <3>3. cache[sample.e] \in Values /\ cache[sample.e] \in Int
      BY Zenon, <1>0, <1>00, <2>2
    <3>4. /\ sample' \in Inspections /\ sample'.step = "reread" /\ sample'.e = sample.e
          /\ sample'.seen = sample.seen /\ sample'.value = cache[sample.e]
          /\ sample'.upstream = sample.upstream /\ sample'.diverged = sample.diverged /\ sample'.hinted = sample.hinted
          /\ sample'.obs = sample.obs
      BY Zenon, <1>0, <3>2, <3>3 DEF Inspections
    <3>5. SampleInv'
      BY <2>1, <2>2, <2>4, <3>1, <3>3, <3>4 DEF SampleInv, DriftInv
    <3> QED
      BY <2>1, <2>4, <3>4, <3>5, InspectionMoves, Zenon
  <2> QED
    BY <1>5, <2>3, <2>4, Zenon DEF Reread
<1>6. CASE Recheck
  <2>1. /\ sample.step = "reread" /\ UNCHANGED <<up, cache, writes, issued, worker, page, undelivered, findings>>
    BY <1>6, Zenon DEF Recheck
  <2>2. pass # <<>>
    BY <2>1 DEF DriftInv, SampleInv
  <2>3. CASE EndSample
    BY <1>0, <2>1, <2>2, <2>3, InspectionEnds, Zenon
  <2>4. CASE sample' = [sample EXCEPT !.step = "compared"] /\ UNCHANGED pass
    <3>1. /\ sample' \in Inspections /\ sample'.step = "compared" /\ sample'.e = sample.e
          /\ sample'.seen = sample.seen /\ sample'.value = sample.value
          /\ sample'.upstream = sample.upstream /\ sample'.diverged = sample.diverged /\ sample'.hinted = sample.hinted
          /\ sample'.obs = sample.obs
      BY <1>0, <2>4 DEF Inspections
    <3>2. SampleInv'
      BY <2>1, <2>2, <2>4, <3>1 DEF SampleInv, DriftInv
    <3> QED
      BY <2>1, <2>4, <3>1, <3>2, InspectionMoves, Zenon
  <2> QED
    BY <1>6, <2>3, <2>4, Zenon DEF Recheck
<1> QED
  BY <1>1, <1>2, <1>3, <1>4, <1>5, <1>6, Zenon

\* A new finding is the difference of the inspection; the others are old.
LEMMA NewFindings ==
  ASSUME DriftInv, sample.step = "compared", RecordAndHeal
  PROVE  /\ issued' \in [Sources -> Int] /\ findings' \in SUBSET Findings
         /\ \A f \in findings' \ findings :
              \/ f.e = sample.e /\ f.cached = sample.value
              \/ \E g \in findings : g.e = f.e /\ [g EXCEPT !.escalated = TRUE] = f
<1>1. PICK open, heal : open = GetOpenDriftFindingByHash /\ heal = issued[sample.e] + 1
  BY Zenon
<1>2. /\ sample.e \in Sources /\ sample.value \in Values /\ sample.upstream \in Values
      /\ issued \in [Sources -> Int] /\ findings \in SUBSET Findings
  BY Zenon DEF DriftInv, DriftTypeOK, SampleInv
<1>3. open \subseteq findings
  BY <1>1, Zenon DEF GetOpenDriftFindingByHash
<1>4. \A g \in Findings : /\ [g EXCEPT !.escalated = TRUE] \in Findings
                          /\ [g EXCEPT !.escalated = TRUE].e = g.e
  BY Zenon DEF Findings
<1>5. CASE open # {}
  <2>1. /\ findings' = (findings \ open) \cup
             {IF HealCompleted(f) THEN EscalateOpenDriftFinding(f) ELSE f : f \in open}
        /\ UNCHANGED issued
    BY <1>1, <1>5, Zenon DEF RecordAndHeal
  <2>2. ASSUME NEW f \in findings'
        PROVE  f \in findings \/ \E g \in findings : f = [g EXCEPT !.escalated = TRUE]
    <3>1. CASE f \in findings
      BY <3>1, Zenon
    <3>2. CASE \E g \in open : f = IF HealCompleted(g) THEN EscalateOpenDriftFinding(g) ELSE g
      BY <1>3, <3>2, Zenon DEF EscalateOpenDriftFinding
    <3> QED
      BY <2>1, <2>2, <3>1, <3>2, Zenon
  <2>3. findings' \in SUBSET Findings
    BY <1>2, <1>4, <2>2, Zenon
  <2>4. ASSUME NEW f \in findings' \ findings
        PROVE  \E g \in findings : g.e = f.e /\ [g EXCEPT !.escalated = TRUE] = f
    <3>1. PICK g \in findings : f = [g EXCEPT !.escalated = TRUE]
      BY <2>2, <2>4, Zenon
    <3>2. g \in Findings
      BY <1>2, Zenon
    <3>3. f.e = g.e
      BY <1>4, <3>1, <3>2, Zenon
    <3> QED
      BY <3>1, <3>3, Zenon
  <2> QED
    BY <1>2, <2>1, <2>3, <2>4, Zenon
<1>6. CASE open = {}
  <2>1. PICK f : f = SetDriftFindingHealGeneration(InsertDriftFinding, heal)
    BY Zenon
  <2>2. findings' = findings \cup {f} /\ issued' = [issued EXCEPT ![sample.e] = heal]
    BY <1>1, <1>6, <2>1, Zenon DEF RecordAndHeal
  <2>3. heal \in Int
    BY <1>1, <1>2
  <2>4. f \in Findings /\ f.e = sample.e /\ f.cached = sample.value
    BY Zenon, <1>2, <2>1, <2>3 DEF SetDriftFindingHealGeneration, InsertDriftFinding, Findings
  <2>5. issued' \in [Sources -> Int]
    BY <1>2, <2>2, <2>3
  <2> QED
    BY <1>2, <2>2, <2>4, <2>5, Zenon
<1> QED
  BY <1>5, <1>6, Zenon

\* Every step preserves the invariant.
LEMMA DriftStep ==
  ASSUME DriftInv, [DriftNext]_driftVars
  PROVE  DriftInv'
<1> USE DEF githubVars, queueVars, cacheVars
<1>0. DriftTypeOK
  BY Zenon DEF DriftInv
<1>1. ASSUME NEW x \in Sources, Change(x)
      PROVE  DriftInv'
  <2>1. up' = [up EXCEPT ![x] = 1 - @]
        /\ undelivered' = undelivered \cup {[e |-> x, after |-> up'[x]]}
        /\ UNCHANGED <<cache, writes, issued, worker, page, findings, pass, sample>>
    BY <1>1, Zenon DEF Change, detectorVars
  <2>2. up' \in [Sources -> Values]
    <3>1. up \in [Sources -> Values] /\ up[x] \in Values
      BY <1>0, Zenon DEF DriftTypeOK
    <3>2. PICK v : v = 1 - up[x]
      BY Zenon
    <3>3. v \in Values
      BY <3>1, <3>2 DEF Values
    <3>4. up' = [up EXCEPT ![x] = v]
      BY <2>1, <3>2, Zenon
    <3> QED
      BY <3>1, <3>3, <3>4
  <2>3. undelivered' \in SUBSET [e : Sources, after : Values]
    <3>1. up'[x] \in Values /\ undelivered \in SUBSET [e : Sources, after : Values]
      BY <1>0, <2>2, Zenon DEF DriftTypeOK
    <3>2. [e |-> x, after |-> up'[x]] \in [e : Sources, after : Values]
      BY <3>1, Zenon
    <3> QED
      BY <2>1, <3>1, <3>2, Zenon
  <2> QED
    BY <1>0, <2>1, <2>2, <2>3, InspectionStays, Zenon DEF DriftTypeOK
<1>2. ASSUME NEW x \in undelivered, Deliver(x)
      PROVE  DriftInv'
  <2>1. /\ issued' = [issued EXCEPT ![x.e] = @ + 1] /\ undelivered' = undelivered \ {x}
        /\ UNCHANGED <<up, cache, writes, worker, page, findings, pass, sample>>
    BY <1>2, Zenon DEF Deliver, detectorVars
  <2>2. issued' \in [Sources -> Int]
    <3>1. PICK e \in Sources : e = x.e
      BY <1>0, Zenon DEF DriftTypeOK
    <3>2. issued' = [issued EXCEPT ![e] = @ + 1] /\ issued \in [Sources -> Int]
      BY <1>0, <2>1, <3>1, Zenon DEF DriftTypeOK
    <3> QED
      BY <3>1, <3>2
  <2> QED
    BY <1>0, <2>1, <2>2, InspectionStays, Zenon DEF DriftTypeOK
<1>3. ASSUME NEW x \in Sources, StartRefresh(x) \/ CompleteRefresh(x) \/ FetchBranchPage(x)
      PROVE  DriftInv'
  <2>1. UNCHANGED <<up, undelivered, cache, writes, issued, findings, pass, sample>>
    BY <1>3, Zenon DEF StartRefresh, CompleteRefresh, FetchBranchPage, detectorVars
  <2>2. worker' \in [Sources -> Work] /\ page' \in [Sources -> Work]
    <3>1. /\ worker \in [Sources -> Work] /\ page \in [Sources -> Work]
          /\ issued[x] \in Int /\ page[x] \in Work
      BY <1>0, Zenon DEF DriftTypeOK
    <3>2. page[x].gen \in Int
      BY <3>1, Zenon DEF Work
    <3>3. Fetched(x, issued[x]) \in Work /\ Fetched(x, page[x].gen) \in Work
      BY <1>0, <3>1, <3>2, FetchedIsWork, Zenon
    <3>4. NoWork \in Work
      BY DEF NoWork, Work, Values
    <3>5. \/ UNCHANGED page /\ \E w \in Work : worker' = [worker EXCEPT ![x] = w]
          \/ UNCHANGED worker /\ \E w \in Work : page' = [page EXCEPT ![x] = w]
      BY <1>3, <3>3, <3>4, Zenon DEF StartRefresh, CompleteRefresh, FetchBranchPage
    <3> QED
      BY <3>1, <3>5, Zenon
  <2> QED
    BY <1>0, <2>1, <2>2, InspectionStays, Zenon DEF DriftTypeOK
<1>4. CASE Commit
  <2>1. /\ sample.step = "compared" /\ EndSample
        /\ UNCHANGED <<up, cache, writes, worker, page, undelivered>>
    BY <1>4, Zenon DEF Commit
  <2>2. issued' \in [Sources -> Int] /\ findings' \in SUBSET Findings
    <3>1. CASE RecordAndHeal
      BY <2>1, <3>1, NewFindings, Zenon
    <3>2. CASE ResolveOpenDriftFindings
      BY <1>0, <3>2, Zenon DEF ResolveOpenDriftFindings, DriftTypeOK
    <3>3. CASE UNCHANGED <<findings, issued>>
      BY <1>0, <3>3, Zenon DEF DriftTypeOK
    <3> QED
      BY <1>4, <3>1, <3>2, <3>3, Zenon DEF Commit
  <2>3. pass # <<>>
    BY Zenon, <2>1 DEF DriftInv, SampleInv
  <2> QED
    BY <2>1, <2>2, <2>3, InspectionEnds, Zenon
<1>5. CASE UNCHANGED driftVars
  BY <1>0, <1>5, InspectionStays, Zenon DEF driftVars, DriftTypeOK
<1> QED
  BY <1>1, <1>2, <1>3, <1>4, <1>5, RefreshIsApplied, PushIsDispatched, PassStarts, InspectionStep, Zenon
     DEF DriftNext, Detecting, RefreshWorkers

\* Before the first write the invariant holds.
LEMMA DriftStart == DriftInit => DriftInv
<1> SUFFICES ASSUME DriftInit PROVE DriftInv
  BY Zenon
<1>1. DriftTypeOK
  BY DEF DriftInit, DriftTypeOK, NoWork, Work, Values
<1>2. PassIsPast
  BY DEF DriftInit, PassIsPast
<1>3. sample \in Inspections /\ sample.step = "none"
  BY SMTT(60) DEF DriftInit, Inspections, NoSample
<1> QED
  BY <1>1, <1>2, <1>3, Zenon DEF DriftInv, SampleInv

\* A finding is added by the transaction alone, while the version is the one
\* it observed, which is the sampled one; the row is then the one GitHub was
\* compared with unless a branch push rewrote it after GitHub was read.
THEOREM OnlyDriftIsReported == DriftSpec => FindingsAreReal
<1> DEFINE New == \A f \in findings' \ findings :
              (\A g \in findings : g.e = f.e => [g EXCEPT !.escalated = TRUE] # f)
                => sample.hinted \/ (sample.diverged /\ f.cached = cache[f.e])
<1>1. DriftInv /\ [DriftNext]_driftVars => [New]_driftVars
  <2> SUFFICES ASSUME DriftInv, DriftNext, NEW f \in findings' \ findings,
                      \A g \in findings : g.e = f.e => [g EXCEPT !.escalated = TRUE] # f
               PROVE  sample.hinted \/ (sample.diverged /\ f.cached = cache[f.e])
    BY Zenon
  <2>1. CASE Commit /\ RecordAndHeal /\ SemanticDiff /\ ~Superseded
    <3>1. sample.step = "compared" /\ writes[sample.e] = sample.obs /\ sample.value # sample.upstream
      BY <2>1, Zenon DEF Commit, Superseded, SemanticDiff
    <3>2. f.e = sample.e /\ f.cached = sample.value
      BY <2>1, <3>1, NewFindings, Zenon
    <3>3. sample.obs = sample.seen
      BY <3>1 DEF DriftInv, SampleInv
    <3>4. ~sample.hinted => /\ sample.value = cache[sample.e]
                            /\ sample.diverged <=> cache[sample.e] # sample.upstream
      BY <3>1, <3>3 DEF DriftInv, SampleInv
    <3> QED
      BY <3>1, <3>2, <3>4
  <2>2. CASE findings' \subseteq findings
    BY <2>2, Zenon
  <2> QED
    <3>1. CASE Commit
      BY <2>1, <2>2, <3>1, Zenon DEF Commit, ResolveOpenDriftFindings
    <3>2. CASE \/ StartPass \/ BeginSample \/ FullFetch \/ FetchFails \/ BeginObservation
               \/ Reread \/ Recheck
      BY <2>2, <3>2, Zenon DEF StartPass, BeginSample, FullFetch, FetchFails, BeginObservation,
                               Reread, Recheck
    <3>3. CASE \/ (\E e \in Sources : Change(e)) \/ RefreshWorkers
               \/ \E x \in undelivered : Deliver(x) \/ DispatchPush(x)
      BY <2>2, <3>3, Zenon DEF RefreshWorkers, Change, Deliver, DispatchPush, StartRefresh,
           ApplyRefresh, CompleteRefresh, FetchBranchPage, ApplyBranchPage, detectorVars
    <3> QED
      BY <3>1, <3>2, <3>3, Zenon DEF DriftNext, Detecting
<1> QED
  BY <1>1, DriftStart, DriftStep, PTL DEF DriftSpec, FindingsAreReal
=============================================================================
