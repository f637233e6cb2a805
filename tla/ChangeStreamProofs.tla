------------------------- MODULE ChangeStreamProofs -------------------------
(***************************************************************************)
(* The guarantees of the change stream, for any number of writers,         *)
(* watermarkers, sessions and streams.                                     *)
(*                                                                         *)
(* The properties are not inductive by themselves: NoGap rests on what     *)
(* each open snapshot knows (SnapshotOK), that on the fence                *)
(* (NoCommitBelowSafeSeq), and that on who may hold the fence when         *)
(* (FenceInv).  Together they are StreamInv, which survives the steps of   *)
(* writers, watermarkers and retention, then those of the sessions.        *)
(*                                                                         *)
(* The change stream also implements PublishedLog: commits, fences, leases *)
(* and pruning are stutters, a publication is an Append, a page is a Read  *)
(* and a bootstrap a Restart.  The step simulation needs StreamInv: that a *)
(* page is complete and that commits lie above safe_seq.                   *)
(***************************************************************************)
EXTENDS ChangeStream, TLAPS

\* Sequence values are issued in order, and a transaction that is not open
\* has nothing pending.
SeqInv ==
    /\ safeSeq <= lastSeq
    /\ events \subseteq committed
    /\ \A e \in committed : e.seq <= lastSeq
    /\ \A w \in Writers : \A e \in pending[w] : e.seq <= lastSeq
    /\ \A w \in Writers \ open : pending[w] = {}

\* The fence is held by the watermarker inside its transaction, no writer is
\* inside with it, and what it read was issued before.
FenceInv ==
    /\ \A p \in Watermarkers : wm[p].pc \in {"fenced", "read"} <=> fence = p
    /\ fence # None => open = {}
    /\ \A p \in Watermarkers : wm[p].pc = "read" => wm[p].target <= lastSeq

\* An event that retention deleted is at or below its stream's horizon.
PrunedWithinHorizon ==
    \A st \in Streams : \A e \in OnStream(committed, st) :
        e \notin events => e.seq <= horizon[st]

\* What an open snapshot guarantees: it holds every event up to its safe_seq,
\* pruned ones are below its horizon, and unless another session has updated
\* the cursor row since, its cursor is the current one.
SnapshotOK(s) ==
    session[s].pc # "idle" =>
      /\ session[s].stream \in Streams
      /\ session[s].snap.cursor <= session[s].snap.safe
      /\ session[s].snap.safe <= safeSeq
      /\ session[s].snap.events \subseteq OnStream(committed, session[s].stream)
      /\ \A e \in OnStream(committed, session[s].stream) :
           e.seq <= session[s].snap.safe => e \in session[s].snap.committed
      /\ \A e \in session[s].snap.committed :
           e \in session[s].snap.events \/ e.seq <= session[s].snap.horizon
      /\ session[s].stale = FALSE =>
           session[s].snap.cursor = cursor[session[s].stream]
      /\ session[s].pc = "locked" => session[s].stale = FALSE

\* The cursor row's lock is exclusive.
OneLockPerStream ==
    \A s, r \in Sessions :
        /\ session[s].pc = "locked"
        /\ session[r].pc = "locked"
        /\ session[s].stream = session[r].stream
        => s = r

\* The inductive invariant.
StreamInv ==
    /\ TypeOK
    /\ SeqInv
    /\ FenceInv
    /\ NoCommitBelowSafeSeq
    /\ HorizonWithinSafeSeq
    /\ PrunedWithinHorizon
    /\ NoGap
    /\ \A s \in Sessions : SnapshotOK(s)
    /\ OneLockPerStream

-----------------------------------------------------------------------------
(* Types                                                                   *)

\* Sequence bounds are types of every variable that holds a sequence value.
LEMMA Bounds == /\ 0 \in Seq0
                /\ Seq0 \subseteq Nat
                /\ MaxSeq \in Nat /\ MaxFaults \in Nat
                /\ \A e \in Event : e.seq \in Seq0 /\ e.seq \in Nat
  BY StreamMaxSeq, StreamMaxFaults DEF Seq0, Event

\* The empty database is well typed.
LEMMA TypeInit == Init => TypeOK
<1> SUFFICES ASSUME Init PROVE TypeOK
  BY Zenon
<1> USE Bounds DEF Init
<1>1. 0 \in 0..MaxFaults
  OBVIOUS
<1>2. wm \in [Watermarkers ->
               [pc : {"idle", "leased", "waiting", "fenced", "read"},
                prior : Seq0, target : Seq0]]
  BY Zenon DEF IdleMark
<1>3. IdleSession \in [pc : {"idle", "begun", "locked"},
                       mode : {"tail", "bootstrap"},
                       stream : Streams \cup {None}, stale : BOOLEAN,
                       snap : Snapshot]
  BY Zenon DEF IdleSession, EmptySnapshot, Snapshot
<1>4. leaseLive \in BOOLEAN
  BY Zenon
<1> QED
  BY Zenon, <1>1, <1>2, <1>3, <1>4 DEF TypeOK

\* A writer's step keeps the types.
LEMMA TypeWriter ==
    ASSUME TypeOK, NEW w \in Writers, WriterStep(w)
    PROVE  TypeOK'
<1> USE Bounds DEF TypeOK, markVars, clientVars
<1>1. CASE AcquireWriterFence(w)
  BY Zenon, <1>1 DEF AcquireWriterFence
<1>2. ASSUME NEW st \in Streams, InsertChangeEvent(w, st) PROVE TypeOK'
  <2>1. lastSeq + 1 \in Seq0 /\ lastSeq + 1 \in 1..MaxSeq
    BY <1>2 DEF InsertChangeEvent, Seq0
  <2>2. [seq |-> lastSeq + 1, stream |-> st] \in Event
    BY Zenon, <2>1 DEF Event
  <2>3. pending' \in [Writers -> SUBSET Event]
    BY Zenon, <1>2, <2>2 DEF InsertChangeEvent
  <2> QED
    BY Zenon, <1>2, <2>1, <2>3 DEF InsertChangeEvent
<1>3. CASE WriterCommit(w)
  BY Zenon, <1>3 DEF WriterCommit
<1>4. CASE WriterAbort(w)
  BY Zenon, <1>4 DEF WriterAbort
<1> QED
  BY Zenon, <1>1, <1>2, <1>3, <1>4 DEF WriterStep

\* A watermarker's step keeps the types.
LEMMA TypeWatermarker ==
    ASSUME TypeOK, NEW p \in Watermarkers, WatermarkerStep(p)
    PROVE  TypeOK'
<1> USE Bounds DEF TypeOK, writerVars, clientVars, IdleMark
<1>1. CASE AcquireOrRenew(p)
  <2>1. leaseLive' \in BOOLEAN
    BY <1>1, Zenon DEF AcquireOrRenew
  <2> QED
    BY Zenon, <1>1, <2>1 DEF AcquireOrRenew
<1>2. CASE RequestFence(p)
  BY Zenon, <1>2 DEF RequestFence
<1>3. CASE AcquireWatermarkFence(p)
  BY Zenon, <1>3 DEF AcquireWatermarkFence
<1>4. CASE FenceTimeout(p)
  BY <1>4 DEF FenceTimeout
<1>5. CASE ReadStreamWatermarkTarget(p)
  <2>1. \A t \in {0} \cup SeqsOf(events) : t \in Seq0
    BY DEF SeqsOf
  <2>2. wm' \in [Watermarkers ->
               [pc : {"idle", "leased", "waiting", "fenced", "read"},
                prior : Seq0, target : Seq0]]
    BY <1>5, <2>1 DEF ReadStreamWatermarkTarget
  <2> QED
    BY Zenon, <1>5, <2>2 DEF ReadStreamWatermarkTarget
<1>6. CASE PublishStreamWatermark(p)
  BY Zenon, <1>6 DEF PublishStreamWatermark
<1>7. CASE WatermarkerCrash(p)
  BY <1>7 DEF WatermarkerCrash
<1>8. CASE ReleaseLease(p)
  <2>1. leaseLive' \in BOOLEAN
    BY <1>8, Zenon DEF ReleaseLease
  <2> QED
    BY <1>8, <2>1 DEF ReleaseLease
<1> QED
  BY Zenon, <1>1, <1>2, <1>3, <1>4, <1>5, <1>6, <1>7, <1>8 DEF WatermarkerStep

\* The end of a session's transaction keeps the sessions well typed.
LEMMA TypeEnd ==
    ASSUME TypeOK, NEW s \in Sessions, EndWithUpdate(s) \/ EndWithoutUpdate(s)
    PROVE  session' \in [Sessions ->
               [pc : {"idle", "begun", "locked"},
                mode : {"tail", "bootstrap"},
                stream : Streams \cup {None}, stale : BOOLEAN,
                snap : Snapshot]]
<1> DEFINE Session == [pc : {"idle", "begun", "locked"},
                       mode : {"tail", "bootstrap"},
                       stream : Streams \cup {None}, stale : BOOLEAN,
                       snap : Snapshot]
<1>1. IdleSession \in Session
  BY Zenon, Bounds DEF IdleSession, EmptySnapshot, Snapshot
<1>2. \A r \in Sessions : session[r] \in Session
                          /\ [session[r] EXCEPT !.stale = TRUE] \in Session
  BY ZenonT(120) DEF TypeOK
<1>3. CASE EndWithUpdate(s)
  BY Zenon, <1>1, <1>2, <1>3 DEF EndWithUpdate
<1>4. CASE EndWithoutUpdate(s)
  BY Zenon, <1>1, <1>2, <1>4 DEF EndWithoutUpdate, TypeOK
<1> QED
  BY Zenon, <1>3, <1>4

\* A session's step keeps the types.
LEMMA TypeSession ==
    ASSUME TypeOK, NEW s \in Sessions, SessionStep(s),
           session[s].pc # "idle" => session[s].stream \in Streams
    PROVE  TypeOK'
<1>0. EndWithUpdate(s) \/ EndWithoutUpdate(s) => session' \in [Sessions ->
               [pc : {"idle", "begun", "locked"},
                mode : {"tail", "bootstrap"},
                stream : Streams \cup {None}, stale : BOOLEAN,
                snap : Snapshot]]
  BY Zenon, TypeEnd
<1> USE Bounds DEF TypeOK, writerVars, markVars
<1>1. ASSUME NEW st \in Streams, NEW mode \in {"tail", "bootstrap"},
             BeginSnapshot(s, st, mode)
      PROVE  TypeOK'
  <2>1. [cursor |-> cursor[st], safe |-> safeSeq, horizon |-> horizon[st],
         events |-> OnStream(events, st),
         committed |-> OnStream(committed, st)] \in Snapshot
    BY Zenon DEF Snapshot, OnStream
  <2> QED
    BY Zenon, <1>1, <2>1 DEF BeginSnapshot
<1>2. CASE GetConsumerCursorForUpdate(s)
  <2>1. IdleSession \in [pc : {"idle", "begun", "locked"},
                         mode : {"tail", "bootstrap"},
                         stream : Streams \cup {None}, stale : BOOLEAN,
                         snap : Snapshot]
    BY Zenon DEF IdleSession, EmptySnapshot, Snapshot
  <2>2. session' \in [Sessions ->
               [pc : {"idle", "begun", "locked"},
                mode : {"tail", "bootstrap"},
                stream : Streams \cup {None}, stale : BOOLEAN,
                snap : Snapshot]]
    BY ZenonT(120), <1>2, <2>1 DEF GetConsumerCursorForUpdate
  <2> QED
    BY Zenon, <1>2, <2>2 DEF GetConsumerCursorForUpdate
<1>3. CASE RecordConsumerResync(s)
  BY Zenon, <1>0, <1>3 DEF RecordConsumerResync
<1>4. CASE DeliverPage(s)
  <2>1. session[s].stream \in Streams /\ session[s].snap \in Snapshot
    BY Zenon, <1>4 DEF DeliverPage
  <2>2. Available(s) \subseteq Event
    BY Zenon, <2>1 DEF Available, Snapshot
  <2>3. \A last \in Available(s) : last.seq \in Seq0
                                   /\ Page(s, last) \subseteq Event
    BY Zenon, <2>2 DEF Page
  <2>4. cursor' \in [Streams -> Seq0] /\ seen' \in [Streams -> SUBSET Event]
    BY <1>4, <2>1, <2>3 DEF DeliverPage
  <2> QED
    BY Zenon, <1>0, <1>4, <2>4 DEF DeliverPage
<1>5. CASE DeliverNothing(s)
  BY Zenon, <1>0, <1>5 DEF DeliverNothing
<1>6. CASE BootstrapCommit(s)
  <2>1. session[s].stream \in Streams /\ session[s].snap \in Snapshot
    BY Zenon, <1>6 DEF BootstrapCommit
  <2>2. session[s].snap.safe \in Seq0 /\ session[s].snap.committed \subseteq Event
    BY Zenon, <2>1 DEF Snapshot
  <2>3. cursor' \in [Streams -> Seq0] /\ seen' \in [Streams -> SUBSET Event]
    BY Zenon, <1>6, <2>1, <2>2 DEF BootstrapCommit
  <2> QED
    BY Zenon, <1>0, <1>6, <2>3 DEF BootstrapCommit
<1>7. CASE SessionAbort(s)
  BY <1>0, <1>7 DEF SessionAbort
<1> HIDE Bounds DEF TypeOK, writerVars, markVars
<1> QED
  BY Zenon, <1>1, <1>2, <1>3, <1>4, <1>5, <1>6, <1>7 DEF SessionStep

-----------------------------------------------------------------------------
(* The inductive invariant                                                 *)

\* The empty database satisfies the invariant.
LEMMA StreamInvInit == Init => StreamInv
<1> SUFFICES ASSUME Init PROVE StreamInv
  BY Zenon
<1>1. TypeOK
  BY Zenon, TypeInit
<1>2. SeqInv /\ NoCommitBelowSafeSeq
  BY DEF Init, SeqInv, NoCommitBelowSafeSeq
<1>3. FenceInv
  BY Zenon, StreamNone DEF Init, FenceInv, IdleMark
<1>4. HorizonWithinSafeSeq /\ PrunedWithinHorizon /\ NoGap
  BY DEF Init, HorizonWithinSafeSeq, PrunedWithinHorizon, NoGap, OnStream
<1>5. (\A s \in Sessions : SnapshotOK(s)) /\ OneLockPerStream
  BY Zenon DEF Init, SnapshotOK, OneLockPerStream, IdleSession
<1> QED
  BY Zenon, <1>1, <1>2, <1>3, <1>4, <1>5 DEF StreamInv

\* A step that leaves a session and its cursor alone keeps its snapshot good:
\* safe_seq only grows, and what commits is above it.
LEMMA SnapshotFrame ==
    ASSUME StreamInv, TypeOK', NEW s \in Sessions, session'[s] = session[s],
           cursor' = cursor, safeSeq' >= safeSeq, committed \subseteq committed',
           \A e \in committed' : e \in committed \/ e.seq > safeSeq
    PROVE  SnapshotOK(s)'
<1> SUFFICES ASSUME session[s].pc # "idle" PROVE SnapshotOK(s)'
  BY ZenonT(120) DEF SnapshotOK
<1>1. SnapshotOK(s)
  BY Zenon DEF StreamInv
<1>2. session[s].snap.safe \in Nat /\ safeSeq \in Nat /\ safeSeq' \in Nat
  BY ZenonT(120), Bounds DEF StreamInv, TypeOK, Snapshot
<1>3. session[s].snap.safe <= safeSeq'
  BY <1>1, <1>2 DEF SnapshotOK
<1>4. \A e \in OnStream(committed', session[s].stream) :
        e.seq <= session[s].snap.safe => e \in session[s].snap.committed
  <2> TAKE e \in OnStream(committed', session[s].stream)
  <2> HAVE e.seq <= session[s].snap.safe
  <2>1. e.seq \in Nat
    BY Zenon, Bounds DEF TypeOK, OnStream
  <2>2. e \in committed
    BY <1>1, <1>2, <2>1 DEF SnapshotOK, OnStream
  <2> QED
    BY Zenon, <1>1, <2>2 DEF SnapshotOK, OnStream
<1>5. session[s].snap.events \subseteq OnStream(committed', session[s].stream)
  BY Zenon, <1>1 DEF SnapshotOK, OnStream
<1> QED
  BY Zenon, <1>1, <1>3, <1>4, <1>5 DEF SnapshotOK

\* Writers: what they commit was pending, hence above safe_seq, hence above
\* every cursor, horizon and snapshot.
LEMMA WriterInv ==
    ASSUME StreamInv, NEW w \in Writers, WriterStep(w)
    PROVE  StreamInv'
<1>1. TypeOK'
  BY Zenon, TypeWriter DEF StreamInv
<1> USE Bounds
<1>2. TypeOK /\ SeqInv /\ FenceInv /\ NoCommitBelowSafeSeq
      /\ HorizonWithinSafeSeq /\ PrunedWithinHorizon /\ NoGap
  BY Zenon DEF StreamInv
<1>3. UNCHANGED <<markVars, horizon, clientVars>>
  BY Zenon DEF WriterStep, AcquireWriterFence, InsertChangeEvent, WriterCommit,
         WriterAbort
<1>4. \A e \in committed' : e \in committed \/ e.seq > safeSeq
  BY Zenon, <1>2 DEF WriterStep, AcquireWriterFence, InsertChangeEvent, WriterCommit,
              WriterAbort, NoCommitBelowSafeSeq
<1>5. \A e \in committed' : e \in committed \/ e \in events'
  BY Zenon DEF WriterStep, AcquireWriterFence, InsertChangeEvent, WriterCommit,
         WriterAbort
<1>6. events \subseteq events' /\ committed \subseteq committed'
  BY Zenon DEF WriterStep, AcquireWriterFence, InsertChangeEvent, WriterCommit,
         WriterAbort
<1>7. SeqInv' /\ FenceInv' /\ NoCommitBelowSafeSeq'
  <2>1. CASE AcquireWriterFence(w)
    BY Zenon, <1>1, <1>2, <2>1
       DEF AcquireWriterFence, SeqInv, FenceInv, NoCommitBelowSafeSeq, TypeOK,
           markVars
  <2>2. ASSUME NEW st \in Streams, InsertChangeEvent(w, st)
        PROVE  SeqInv' /\ FenceInv' /\ NoCommitBelowSafeSeq'
    <3>1. \A v \in Writers : \A e \in pending'[v] :
             e \in pending[v] \/ (v = w /\ e.seq = lastSeq + 1)
      BY <1>2, <2>2 DEF InsertChangeEvent, TypeOK
    <3>2. /\ lastSeq \in Nat /\ safeSeq \in Nat /\ lastSeq' = lastSeq + 1
          /\ \A e \in committed : e.seq \in Nat
          /\ \A v \in Writers : \A e \in pending[v] : e.seq \in Nat
      BY Zenon, <1>2, <2>2 DEF InsertChangeEvent, TypeOK
    <3>3. SeqInv'
      BY <1>2, <2>2, <3>1, <3>2
         DEF InsertChangeEvent, SeqInv, markVars, TypeOK
    <3>4. FenceInv'
      <4>1. \A p \in Watermarkers : wm[p].target \in Nat
        BY ZenonT(120), <1>2 DEF TypeOK
      <4>2. wm' = wm /\ fence' = fence /\ open' = open
        BY Zenon, <2>2 DEF InsertChangeEvent, markVars
      <4> QED
        BY <1>2, <3>2, <4>1, <4>2 DEF FenceInv
    <3>5. NoCommitBelowSafeSeq'
      BY <1>2, <1>3, <3>1, <3>2 DEF NoCommitBelowSafeSeq, SeqInv, markVars
    <3> QED
      BY Zenon, <3>3, <3>4, <3>5
  <2>3. CASE WriterCommit(w)
    BY <1>1, <1>2, <2>3
       DEF WriterCommit, SeqInv, FenceInv, NoCommitBelowSafeSeq, TypeOK,
           markVars
  <2>4. CASE WriterAbort(w)
    BY <1>1, <1>2, <2>4
       DEF WriterAbort, SeqInv, FenceInv, NoCommitBelowSafeSeq, TypeOK,
           markVars
  <2> QED
    BY Zenon, <2>1, <2>2, <2>3, <2>4 DEF WriterStep
<1>8. HorizonWithinSafeSeq'
  BY Zenon, <1>2, <1>3 DEF HorizonWithinSafeSeq, markVars, clientVars
<1>9. PrunedWithinHorizon'
  BY Zenon, <1>2, <1>3, <1>5, <1>6 DEF PrunedWithinHorizon, OnStream
<1>10. NoGap'
  <2> SUFFICES ASSUME NEW st \in Streams, NEW e \in committed', e.stream = st,
                      e.seq <= cursor[st]
               PROVE  e \in seen[st]
    BY Zenon, <1>3 DEF NoGap, OnStream, clientVars
  <2>1. e.seq \in Nat /\ cursor[st] \in Nat /\ safeSeq \in Nat
    BY ZenonT(120), <1>1, <1>2 DEF TypeOK
  <2>2. e \in committed
    BY <1>2, <1>4, <2>1 DEF HorizonWithinSafeSeq
  <2> QED
    BY Zenon, <1>2, <2>2 DEF NoGap, OnStream
<1>11. \A s \in Sessions : SnapshotOK(s)'
  <2> TAKE s \in Sessions
  <2>1. safeSeq' >= safeSeq
    BY <1>2, <1>3 DEF markVars, TypeOK
  <2> QED
    BY Zenon, <1>1, <1>3, <1>4, <1>6, <2>1, SnapshotFrame DEF clientVars
<1>12. OneLockPerStream'
  BY Zenon, <1>3 DEF StreamInv, OneLockPerStream, clientVars
<1> QED
  BY Zenon, <1>1, <1>7, <1>8, <1>9, <1>10, <1>11, <1>12 DEF StreamInv

\* The watermarker: while it holds the fence no transaction is open, so the
\* greatest committed sequence is below everything still to be committed.
LEMMA WatermarkerFence ==
    ASSUME StreamInv, NEW p \in Watermarkers, WatermarkerStep(p)
    PROVE  /\ FenceInv'
           /\ safeSeq' >= safeSeq
           /\ safeSeq' <= lastSeq
           /\ NoCommitBelowSafeSeq'
<1>1. TypeOK /\ SeqInv /\ FenceInv /\ NoCommitBelowSafeSeq
  BY Zenon DEF StreamInv
<1>2. /\ safeSeq \in Nat /\ lastSeq \in Nat
      /\ \A q \in Watermarkers : wm[q].target \in Nat
  BY ZenonT(120), <1>1, Bounds DEF TypeOK
<1>t. wm \in [Watermarkers ->
               [pc : {"idle", "leased", "waiting", "fenced", "read"},
                prior : Seq0, target : Seq0]]
  BY Zenon, <1>1 DEF TypeOK
<1> USE StreamNone DEF writerVars, IdleMark
<1>3. CASE PublishStreamWatermark(p)
  <2>1. fence = p /\ open = {}
    BY Zenon, <1>1, <1>3 DEF PublishStreamWatermark, FenceInv
  <2>2. \A w \in Writers : pending'[w] = {}
    BY Zenon, <1>1, <1>t, <1>3, <2>1 DEF PublishStreamWatermark, SeqInv
  <2>3. wm[p].target <= lastSeq
    BY Zenon, <1>1, <1>3 DEF PublishStreamWatermark, FenceInv
  <2>4. safeSeq' >= safeSeq /\ safeSeq' <= lastSeq
    BY <1>1, <1>2, <1>3, <2>3 DEF PublishStreamWatermark, SeqInv
  <2>5. FenceInv'
    BY Zenon, <1>1, <1>t, <1>3, <2>1 DEF PublishStreamWatermark, FenceInv
  <2> QED
    BY Zenon, <2>2, <2>4, <2>5 DEF NoCommitBelowSafeSeq
<1>4. ASSUME ~PublishStreamWatermark(p)
      PROVE  /\ UNCHANGED <<safeSeq, lastSeq, pending, open>>
             /\ FenceInv'
  <2>1. CASE AcquireOrRenew(p)
    BY Zenon, <1>1, <1>t, <2>1 DEF AcquireOrRenew, FenceInv
  <2>2. CASE RequestFence(p)
    BY Zenon, <1>1, <1>t, <2>2 DEF RequestFence, FenceInv
  <2>3. CASE AcquireWatermarkFence(p)
    BY Zenon, <1>1, <1>t, <2>3 DEF AcquireWatermarkFence, FenceInv
  <2>4. CASE FenceTimeout(p)
    BY Zenon, <1>1, <1>t, <2>4 DEF FenceTimeout, FenceInv
  <2>5. CASE ReadStreamWatermarkTarget(p)
    <3>1. \A t \in {0} \cup SeqsOf(events) : t <= lastSeq
      BY <1>1, <1>2 DEF SeqsOf, SeqInv
    <3>2. CASE lease = p /\ leaseLive
      <4>1. PICK t \in {0} \cup SeqsOf(events) :
               wm' = [wm EXCEPT ![p] = [pc |-> "read", prior |-> safeSeq,
                                        target |-> t]]
        BY ZenonT(120), <2>5, <3>2 DEF ReadStreamWatermarkTarget
      <4>2. t <= lastSeq
        BY Zenon, <3>1
      <4> QED
        BY Zenon, <1>1, <1>t, <2>5, <3>2, <4>1, <4>2
           DEF ReadStreamWatermarkTarget, FenceInv
    <3>3. CASE ~(lease = p /\ leaseLive)
      BY <1>1, <1>t, <2>5, <3>3
         DEF ReadStreamWatermarkTarget, FenceInv
    <3> QED
      BY Zenon, <3>2, <3>3
  <2>6. CASE WatermarkerCrash(p)
    BY Zenon, <1>1, <1>t, <2>6 DEF WatermarkerCrash, FenceInv
  <2>7. CASE ReleaseLease(p)
    BY Zenon, <1>1, <1>t, <2>7 DEF ReleaseLease, FenceInv
  <2> QED
    BY Zenon, <1>4, <2>1, <2>2, <2>3, <2>4, <2>5, <2>6, <2>7 DEF WatermarkerStep
<1> QED
  BY <1>1, <1>2, <1>3, <1>4 DEF SeqInv, NoCommitBelowSafeSeq

\* Raising safe_seq within what was issued preserves the rest.
LEMMA WatermarkerInv ==
    ASSUME StreamInv, NEW p \in Watermarkers, WatermarkerStep(p)
    PROVE  StreamInv'
<1>1. TypeOK'
  BY Zenon, TypeWatermarker DEF StreamInv
<1>2. TypeOK /\ SeqInv /\ HorizonWithinSafeSeq /\ PrunedWithinHorizon /\ NoGap
      /\ OneLockPerStream
  BY Zenon DEF StreamInv
<1>3. UNCHANGED <<writerVars, horizon, clientVars>>
  BY Zenon DEF WatermarkerStep, AcquireOrRenew, RequestFence, AcquireWatermarkFence,
         FenceTimeout, ReadStreamWatermarkTarget, PublishStreamWatermark,
         WatermarkerCrash, ReleaseLease
<1>4. SeqInv'
  BY Zenon, <1>2, <1>3, WatermarkerFence DEF SeqInv, writerVars
<1>5. HorizonWithinSafeSeq'
  <2> SUFFICES ASSUME NEW st \in Streams
               PROVE  horizon[st] <= safeSeq' /\ cursor[st] <= safeSeq'
    BY Zenon, <1>3 DEF HorizonWithinSafeSeq, clientVars
  <2>1. /\ horizon[st] \in Nat /\ cursor[st] \in Nat
        /\ safeSeq \in Nat /\ safeSeq' \in Nat
    BY ZenonT(120), <1>1, <1>2, Bounds DEF TypeOK
  <2>2. horizon[st] <= safeSeq /\ cursor[st] <= safeSeq
    BY Zenon, <1>2 DEF HorizonWithinSafeSeq
  <2> QED
    BY <2>1, <2>2, WatermarkerFence
<1>6. PrunedWithinHorizon' /\ NoGap' /\ OneLockPerStream'
  BY Zenon, <1>2, <1>3 DEF PrunedWithinHorizon, NoGap, OneLockPerStream, writerVars,
                    clientVars
<1>7. \A s \in Sessions : SnapshotOK(s)'
  <2>1. UNCHANGED <<session, cursor, committed>>
    BY Zenon, <1>3 DEF writerVars, clientVars
  <2>2. safeSeq' >= safeSeq
    BY Zenon, WatermarkerFence
  <2>3. \A e \in committed' : e \in committed \/ e.seq > safeSeq
    BY Zenon, <2>1
  <2> TAKE s \in Sessions
  <2>4. session'[s] = session[s] /\ committed \subseteq committed'
    BY Zenon, <2>1
  <2> QED
    BY Zenon, <1>1, <2>1, <2>2, <2>3, <2>4, SnapshotFrame
<1> QED
  BY Zenon, <1>1, <1>4, <1>5, <1>6, <1>7, WatermarkerFence DEF StreamInv

\* An expiring lease touches nothing the invariant is about.
LEMMA LeaseExpiresInv ==
    ASSUME StreamInv, LeaseExpires
    PROVE  StreamInv'
<1>1. TypeOK'
  <2>1. leaseLive' \in BOOLEAN
    BY Zenon DEF LeaseExpires
  <2> QED
    BY <2>1, Bounds DEF StreamInv, TypeOK, LeaseExpires, writerVars, clientVars
<1>2. UNCHANGED <<writerVars, fence, wm, safeSeq, horizon, clientVars>>
  BY Zenon DEF LeaseExpires
<1>3. \A s \in Sessions : SnapshotOK(s)'
  BY Zenon, <1>2 DEF StreamInv, SnapshotOK, writerVars, clientVars
<1>4. SeqInv' /\ NoCommitBelowSafeSeq'
  BY Zenon, <1>2 DEF StreamInv, SeqInv, NoCommitBelowSafeSeq, writerVars
<1>5. FenceInv'
  BY Zenon, <1>2 DEF StreamInv, FenceInv, writerVars
<1>6. HorizonWithinSafeSeq'
  BY Zenon, <1>2 DEF StreamInv, HorizonWithinSafeSeq, clientVars
<1>7. PrunedWithinHorizon'
  BY Zenon, <1>2 DEF StreamInv, PrunedWithinHorizon, OnStream, writerVars
<1>8. NoGap'
  BY Zenon, <1>2 DEF StreamInv, NoGap, OnStream, writerVars, clientVars
<1>9. OneLockPerStream'
  BY Zenon, <1>2 DEF StreamInv, OneLockPerStream, clientVars
<1> QED
  BY Zenon, <1>1, <1>3, <1>4, <1>5, <1>6, <1>7, <1>8, <1>9 DEF StreamInv

\* Retention: the horizon rises to the greatest sequence it deleted, which is
\* at or below safe_seq; snapshots keep what they read.
LEMMA PruneInv ==
    ASSUME StreamInv, NEW doomed \in SUBSET events, PruneChangeEvents(doomed)
    PROVE  StreamInv'
<1>1. TypeOK /\ SeqInv /\ FenceInv /\ NoCommitBelowSafeSeq
      /\ HorizonWithinSafeSeq /\ PrunedWithinHorizon
  BY Zenon DEF StreamInv
<1>2. UNCHANGED <<lastSeq, open, pending, committed, markVars, clientVars>>
  BY Zenon DEF PruneChangeEvents
<1>3. /\ events' = events \ doomed
      /\ horizon' \in [Streams -> Seq0]
      /\ \A st \in Streams :
           IsMax(horizon'[st], {horizon[st]} \cup SeqsOf(OnStream(doomed, st)))
  BY Zenon DEF PruneChangeEvents
<1>4. TypeOK'
  BY Zenon, <1>1, <1>2, <1>3 DEF TypeOK, markVars, clientVars
<1>5. SeqInv' /\ FenceInv' /\ NoCommitBelowSafeSeq' /\ NoGap'
      /\ OneLockPerStream'
  BY ZenonT(120), <1>1, <1>2, <1>3
     DEF StreamInv, SeqInv, FenceInv, NoCommitBelowSafeSeq, NoGap,
         OneLockPerStream, markVars, clientVars
<1>6. HorizonWithinSafeSeq'
  <2>1. \A e \in doomed : e.seq <= safeSeq
    BY Zenon DEF PruneChangeEvents
  <2>2. \A st \in Streams : horizon'[st] <= safeSeq
    BY Zenon, <1>1, <1>3, <2>1 DEF HorizonWithinSafeSeq, IsMax, SeqsOf, OnStream
  <2> QED
    BY Zenon, <1>1, <1>2, <2>2 DEF HorizonWithinSafeSeq, markVars, clientVars
<1>7. PrunedWithinHorizon'
  <2> SUFFICES ASSUME NEW st \in Streams, NEW e \in OnStream(committed, st),
                      e \notin events'
               PROVE  e.seq <= horizon'[st]
    BY Zenon, <1>2 DEF PrunedWithinHorizon
  <2>1. /\ e.seq \in Nat /\ horizon[st] \in Nat /\ horizon'[st] \in Nat
        /\ horizon[st] <= horizon'[st]
    BY ZenonT(120), <1>1, <1>3, Bounds DEF TypeOK, OnStream, IsMax
  <2>2. CASE e \in doomed
    BY Zenon, <1>3, <2>2 DEF IsMax, SeqsOf, OnStream
  <2>3. CASE e \notin events
    <3>1. e.seq <= horizon[st]
      BY Zenon, <1>1, <2>3 DEF PrunedWithinHorizon
    <3> QED
      BY <2>1, <3>1
  <2> QED
    BY Zenon, <1>3, <2>2, <2>3
<1>8. \A s \in Sessions : SnapshotOK(s)'
  BY Zenon, <1>2 DEF StreamInv, SnapshotOK, markVars, clientVars
<1> QED
  BY Zenon, <1>4, <1>5, <1>6, <1>7, <1>8 DEF StreamInv

-----------------------------------------------------------------------------
(* Sessions                                                                *)

\* The end of a transaction that held the cursor row's lock and may have moved
\* the cursor: every other session that saw the old row is now stale, none of
\* them holds the lock.
LEMMA EndWithUpdateKeepsSnapshots ==
    ASSUME StreamInv, NEW s \in Sessions, session[s].pc = "locked",
           EndWithUpdate(s), UNCHANGED <<committed, safeSeq>>,
           \A st \in Streams \ {session[s].stream} : cursor'[st] = cursor[st]
    PROVE  (\A r \in Sessions : SnapshotOK(r)') /\ OneLockPerStream'
<1>1. TypeOK /\ OneLockPerStream /\ \A r \in Sessions : SnapshotOK(r)
  BY Zenon DEF StreamInv
<1>2. session'[s] = IdleSession
  BY Zenon DEF EndWithUpdate
<1>3. \A r \in Sessions \ {s} :
        IF session[r].pc = "begun" /\ session[r].stream = session[s].stream
        THEN session'[r] = [session[r] EXCEPT !.stale = TRUE]
        ELSE session'[r] = session[r]
  BY Zenon DEF EndWithUpdate
<1>4. \A r \in Sessions : SnapshotOK(r)'
  <2> TAKE r \in Sessions
  <2>1. CASE r = s
    BY <1>2, <2>1 DEF SnapshotOK, IdleSession
  <2>2. CASE r # s /\ session[r].pc = "begun"
             /\ session[r].stream = session[s].stream
    <3>1. /\ session'[r].pc = "begun"
          /\ session'[r].stream = session[r].stream
          /\ session'[r].snap = session[r].snap
          /\ session'[r].stale = TRUE
      BY ZenonT(120), <1>1, <1>3, <2>2 DEF TypeOK
    <3>2. SnapshotOK(r)
      BY Zenon, <1>1
    <3> QED
      BY Zenon, <2>2, <3>1, <3>2 DEF SnapshotOK
  <2>3. CASE r # s /\ ~(session[r].pc = "begun"
                        /\ session[r].stream = session[s].stream)
    <3>1. session'[r] = session[r]
      BY ZenonT(120), <1>3, <2>3
    <3>2. CASE session[r].pc = "idle"
      BY Zenon, <3>1, <3>2 DEF SnapshotOK
    <3>3. CASE session[r].pc # "idle"
      <4>1. session[r].stream # session[s].stream
        BY <1>1, <2>3, <3>3 DEF OneLockPerStream, TypeOK
      <4>2. SnapshotOK(r)
        BY Zenon, <1>1
      <4>3. cursor'[session[r].stream] = cursor[session[r].stream]
        BY Zenon, <3>3, <4>1, <4>2 DEF SnapshotOK
      <4> QED
        BY Zenon, <3>1, <3>3, <4>2, <4>3 DEF SnapshotOK
    <3> QED
      BY Zenon, <3>2, <3>3
  <2> QED
    BY Zenon, <2>1, <2>2, <2>3
<1>5. OneLockPerStream'
  <2>1. \A r \in Sessions : session'[r].pc = "locked" =>
          session[r].pc = "locked" /\ session'[r].stream = session[r].stream
    <3> TAKE r \in Sessions
    <3>1. CASE r = s
      BY <1>2, <3>1 DEF IdleSession
    <3>2. CASE r # s /\ session'[r] = session[r]
      BY Zenon, <3>2
    <3>3. CASE r # s /\ session[r].pc = "begun"
               /\ session'[r] = [session[r] EXCEPT !.stale = TRUE]
      BY Zenon, <1>1, <3>3 DEF TypeOK
    <3> QED
      BY Zenon, <1>3, <3>1, <3>2, <3>3
  <2> QED
    BY Zenon, <1>1, <2>1 DEF OneLockPerStream
<1> QED
  BY Zenon, <1>4, <1>5

\* A rolled back or read-only transaction leaves every other session alone.
LEMMA EndWithoutUpdateKeepsSnapshots ==
    ASSUME StreamInv, NEW s \in Sessions, EndWithoutUpdate(s),
           UNCHANGED <<committed, safeSeq, cursor>>
    PROVE  (\A r \in Sessions : SnapshotOK(r)') /\ OneLockPerStream'
<1>1. session'[s] = IdleSession /\ \A r \in Sessions \ {s} : session'[r] = session[r]
  BY Zenon DEF EndWithoutUpdate, StreamInv, TypeOK
<1> QED
  BY SMTT(60), <1>1 DEF StreamInv, SnapshotOK, OneLockPerStream, IdleSession

\* A session step that leaves cursor and projection alone preserves the
\* invariant when it preserves the snapshots.
LEMMA QuietSession ==
    ASSUME StreamInv, TypeOK', UNCHANGED <<writerVars, horizon, cursor, seen>>,
           UNCHANGED <<fence, wm, safeSeq>>,
           \A r \in Sessions : SnapshotOK(r)', OneLockPerStream'
    PROVE  StreamInv'
<1>1. SeqInv' /\ NoCommitBelowSafeSeq'
  BY Zenon DEF StreamInv, SeqInv, NoCommitBelowSafeSeq, writerVars
<1>2. FenceInv'
  BY Zenon DEF StreamInv, FenceInv, writerVars
<1>3. HorizonWithinSafeSeq'
  BY Zenon DEF StreamInv, HorizonWithinSafeSeq
<1>4. PrunedWithinHorizon'
  BY Zenon DEF StreamInv, PrunedWithinHorizon, OnStream, writerVars
<1>5. NoGap'
  BY Zenon DEF StreamInv, NoGap, OnStream, writerVars
<1> QED
  BY Zenon, <1>1, <1>2, <1>3, <1>4, <1>5 DEF StreamInv

\* A fresh snapshot is as good as the state it is taken of.
LEMMA BeginSnapshotInv ==
    ASSUME StreamInv, TypeOK', NEW s \in Sessions, NEW st \in Streams,
           NEW mode, BeginSnapshot(s, st, mode)
    PROVE  StreamInv'
<1>1. TypeOK /\ HorizonWithinSafeSeq /\ PrunedWithinHorizon /\ OneLockPerStream
      /\ \A r \in Sessions : SnapshotOK(r)
  BY Zenon DEF StreamInv
<1>2. /\ session'[s] = [pc |-> "begun", mode |-> mode, stream |-> st,
                        stale |-> FALSE,
                        snap |-> [cursor |-> cursor[st], safe |-> safeSeq,
                                  horizon |-> horizon[st],
                                  events |-> OnStream(events, st),
                                  committed |-> OnStream(committed, st)]]
      /\ \A r \in Sessions \ {s} : session'[r] = session[r]
      /\ UNCHANGED <<writerVars, markVars, horizon, cursor, seen>>
  BY Zenon, <1>1 DEF BeginSnapshot, TypeOK
<1>3. committed' = committed /\ safeSeq' = safeSeq /\ cursor' = cursor
  BY Zenon, <1>2 DEF writerVars, markVars
<1>4. SnapshotOK(s)'
  <2>1. cursor[st] <= safeSeq /\ safeSeq <= safeSeq
    BY <1>1, Bounds DEF HorizonWithinSafeSeq, TypeOK
  <2>2. \A e \in OnStream(committed, st) :
           e \in OnStream(events, st) \/ e.seq <= horizon[st]
    BY Zenon, <1>1 DEF PrunedWithinHorizon, OnStream
  <2>3. OnStream(events, st) \subseteq OnStream(committed, st)
    BY Zenon DEF StreamInv, SeqInv, OnStream
  <2>4. /\ session'[s].pc = "begun" /\ session'[s].stale = FALSE
        /\ session'[s].stream = st
        /\ session'[s].snap.cursor = cursor[st] /\ session'[s].snap.safe = safeSeq
        /\ session'[s].snap.horizon = horizon[st]
        /\ session'[s].snap.events = OnStream(events, st)
        /\ session'[s].snap.committed = OnStream(committed, st)
    BY <1>2
  <2>5. OnStream(committed, st)' = OnStream(committed, st)
    BY Zenon, <1>3 DEF OnStream
  <2> QED
    BY Zenon, <1>3, <2>1, <2>2, <2>3, <2>4, <2>5 DEF SnapshotOK
<1>5. \A r \in Sessions \ {s} : SnapshotOK(r)'
  <2> SUFFICES ASSUME NEW r \in Sessions \ {s} PROVE SnapshotOK(r)'
    BY Zenon
  <2>1. SnapshotOK(r) /\ session'[r] = session[r]
    BY Zenon, <1>1, <1>2
  <2> QED
    BY Zenon, <1>3, <2>1 DEF SnapshotOK, OnStream
<1>6. OneLockPerStream'
  BY <1>1, <1>2 DEF OneLockPerStream
<1> QED
  BY Zenon, <1>2, <1>4, <1>5, <1>6, QuietSession DEF markVars

\* The row lock goes to one session, and only to one whose snapshot is not
\* stale.
LEMMA LockInv ==
    ASSUME StreamInv, TypeOK', NEW s \in Sessions, GetConsumerCursorForUpdate(s)
    PROVE  StreamInv'
<1>1. TypeOK /\ OneLockPerStream /\ \A r \in Sessions : SnapshotOK(r)
  BY Zenon DEF StreamInv
<1>2. UNCHANGED <<writerVars, markVars, horizon, cursor, seen>>
  BY Zenon DEF GetConsumerCursorForUpdate
<1>3. \A r \in Sessions \ {s} : session'[r] = session[r]
  BY Zenon, <1>1 DEF GetConsumerCursorForUpdate, TypeOK
<1>4. CASE session[s].stale = TRUE
  <2>1. session'[s] = IdleSession
    BY Zenon, <1>1, <1>4 DEF GetConsumerCursorForUpdate, TypeOK
  <2>2. \A r \in Sessions : SnapshotOK(r)'
    BY SMTT(60), <1>1, <1>2, <1>3, <2>1
       DEF SnapshotOK, IdleSession, writerVars, markVars
  <2>3. OneLockPerStream'
    BY <1>1, <1>3, <2>1 DEF OneLockPerStream, IdleSession
  <2> QED
    BY Zenon, <1>2, <2>2, <2>3, QuietSession DEF markVars
<1>5. CASE session[s].stale = FALSE
  <2>1. /\ session'[s] = [session[s] EXCEPT !.pc = "locked"]
        /\ session[s].pc = "begun"
    BY Zenon, <1>1, <1>5 DEF GetConsumerCursorForUpdate, TypeOK
  <2>2. /\ session'[s].pc = "locked"
        /\ session'[s].stream = session[s].stream
        /\ session'[s].snap = session[s].snap
        /\ session'[s].stale = FALSE
    BY <1>1, <1>5, <2>1 DEF TypeOK
  <2>3. \A r \in Sessions : SnapshotOK(r)'
    BY ZenonT(120), <1>1, <1>2, <1>3, <1>5, <2>1, <2>2
       DEF SnapshotOK, writerVars, markVars
  <2>4. OneLockPerStream'
    BY <1>1, <1>3, <2>2
       DEF OneLockPerStream, GetConsumerCursorForUpdate, CursorLocked
  <2> QED
    BY Zenon, <1>2, <2>3, <2>4, QuietSession DEF markVars
<1> QED
  BY ZenonT(120), <1>1, <1>4, <1>5 DEF TypeOK

\* What SnapshotOK says of a session that holds the row lock.
LEMMA LockedSnapshot ==
    ASSUME StreamInv, NEW s \in Sessions, session[s].pc = "locked"
    PROVE  /\ session[s].stream \in Streams
           /\ session[s].snap.cursor <= session[s].snap.safe
           /\ session[s].snap.safe <= safeSeq
           /\ session[s].snap.cursor = cursor[session[s].stream]
           /\ \A e \in OnStream(committed, session[s].stream) :
                e.seq <= session[s].snap.safe => e \in session[s].snap.committed
           /\ \A e \in session[s].snap.committed :
                e \in session[s].snap.events \/ e.seq <= session[s].snap.horizon
<1>1. SnapshotOK(s)
  BY Zenon DEF StreamInv
<1>2. session[s].pc # "idle"
  BY Zenon
<1>3. session[s].stale = FALSE
  BY ZenonT(120), <1>1, <1>2 DEF SnapshotOK
<1> QED
  BY ZenonT(120), <1>1, <1>2, <1>3 DEF SnapshotOK

\* A page that ends at "last" reaches every event between the cursor and
\* last: the snapshot holds all events up to its safe_seq, and the pruned
\* ones are at or below a horizon the cursor has already passed.
LEMMA PageIsComplete ==
    ASSUME StreamInv, NEW s \in Sessions, session[s].pc = "locked",
           session[s].snap.cursor >= session[s].snap.horizon,
           NEW last \in Available(s)
    PROVE  /\ session[s].stream \in Streams
           /\ last.seq > cursor[session[s].stream]
           /\ last.seq <= safeSeq
           /\ \A e \in OnStream(committed, session[s].stream) :
                e.seq > cursor[session[s].stream] /\ e.seq <= last.seq
                  => e \in Page(s, last)
<1>1. TypeOK
  BY Zenon DEF StreamInv
<1>2. /\ session[s].stream \in Streams
      /\ session[s].snap.safe <= safeSeq
      /\ \A e \in OnStream(committed, session[s].stream) :
           e.seq <= session[s].snap.safe => e \in session[s].snap.committed
      /\ \A e \in session[s].snap.committed :
           e \in session[s].snap.events \/ e.seq <= session[s].snap.horizon
  BY Zenon, LockedSnapshot
<1>3. session[s].snap.cursor = cursor[session[s].stream]
  BY Zenon, LockedSnapshot
<1>4. session[s].snap \in Snapshot
  BY Zenon, <1>1 DEF TypeOK
<1>5. /\ session[s].snap.cursor \in Nat /\ session[s].snap.safe \in Nat
      /\ session[s].snap.horizon \in Nat /\ safeSeq \in Nat
      /\ session[s].snap.events \subseteq Event
  BY ZenonT(120), <1>1, <1>4, Bounds DEF TypeOK, Snapshot
<1>6. /\ last \in session[s].snap.events /\ last.seq > session[s].snap.cursor
      /\ last.seq <= session[s].snap.safe /\ last.seq \in Nat
  BY Zenon, <1>5, Bounds DEF Available
<1>7. last.seq <= safeSeq
  BY <1>2, <1>5, <1>6
<1>8. ASSUME NEW e \in OnStream(committed, session[s].stream),
             e.seq > cursor[session[s].stream], e.seq <= last.seq
      PROVE  e \in Page(s, last)
  <2>1. e.seq \in Nat
    <3>1. e \in committed /\ committed \subseteq Event
      BY Zenon, <1>1 DEF TypeOK, OnStream
    <3> QED
      BY Zenon, <3>1, Bounds
  <2>2. e.seq <= session[s].snap.safe
    BY <1>5, <1>6, <1>8, <2>1
  <2>3. e \in session[s].snap.committed
    BY Zenon, <1>2, <2>2
  <2>4. e \in session[s].snap.events
    <3>1. ~(e.seq <= session[s].snap.horizon)
      BY <1>3, <1>5, <1>8, <2>1
    <3> QED
      BY Zenon, <1>2, <2>3, <3>1
  <2> QED
    BY Zenon, <1>3, <1>8, <2>2, <2>4 DEF Page, Available
<1> QED
  BY Zenon, <1>2, <1>3, <1>6, <1>7, <1>8

\* A step that leaves the outbox, the watermarkers and the horizons alone
\* preserves what the invariant says of them.
LEMMA StreamSideUnchanged ==
    ASSUME StreamInv, UNCHANGED <<writerVars, markVars, horizon>>
    PROVE  SeqInv' /\ FenceInv' /\ NoCommitBelowSafeSeq' /\ PrunedWithinHorizon'
<1>1. SeqInv' /\ NoCommitBelowSafeSeq'
  BY Zenon DEF StreamInv, SeqInv, NoCommitBelowSafeSeq, writerVars, markVars
<1>2. FenceInv'
  BY Zenon DEF StreamInv, FenceInv, writerVars, markVars
<1>3. PrunedWithinHorizon'
  BY Zenon DEF StreamInv, PrunedWithinHorizon, OnStream, writerVars
<1> QED
  BY Zenon, <1>1, <1>2, <1>3

\* Delivering a page.
LEMMA DeliverPageInv ==
    ASSUME StreamInv, TypeOK', NEW s \in Sessions, DeliverPage(s)
    PROVE  StreamInv' /\ \A st \in Streams : cursor'[st] >= cursor[st]
<1>1. TypeOK /\ HorizonWithinSafeSeq /\ NoGap /\ SnapshotOK(s)
  BY Zenon DEF StreamInv
<1>2. /\ session[s].pc = "locked"
      /\ session[s].snap.cursor >= session[s].snap.horizon
      /\ EndWithUpdate(s)
      /\ UNCHANGED <<writerVars, markVars, horizon>>
  BY Zenon DEF DeliverPage
<1>3. PICK last \in Available(s) :
        /\ cursor' = [cursor EXCEPT ![session[s].stream] = last.seq]
        /\ seen' = [seen EXCEPT ![session[s].stream] = @ \cup Page(s, last)]
  BY ZenonT(120) DEF DeliverPage
<1>4. /\ session[s].stream \in Streams
      /\ last.seq > cursor[session[s].stream]
      /\ last.seq <= safeSeq
  BY Zenon, <1>2, PageIsComplete
<1>5. \A st \in Streams : cursor[st] \in Nat /\ cursor'[st] \in Nat
  BY ZenonT(120), <1>1, Bounds DEF TypeOK
<1>6. /\ cursor'[session[s].stream] = last.seq
      /\ seen'[session[s].stream] = seen[session[s].stream] \cup Page(s, last)
      /\ \A st \in Streams \ {session[s].stream} :
           cursor'[st] = cursor[st] /\ seen'[st] = seen[st]
  <2>1. cursor \in [Streams -> Seq0] /\ DOMAIN seen = Streams
    BY Zenon, <1>1 DEF TypeOK
  <2> QED
    BY Zenon, <1>3, <1>4, <2>1
<1>7. \A st \in Streams : cursor'[st] >= cursor[st]
  BY <1>4, <1>5, <1>6
<1>u. UNCHANGED <<horizon, safeSeq, committed>>
  BY Zenon, <1>2 DEF writerVars, markVars
<1>8. HorizonWithinSafeSeq'
  BY Zenon, <1>1, <1>4, <1>6, <1>u DEF HorizonWithinSafeSeq
<1>9. NoGap'
  <2> SUFFICES ASSUME NEW st \in Streams, NEW e \in OnStream(committed, st),
                      e.seq <= cursor'[st]
               PROVE  e \in seen'[st]
    BY Zenon, <1>u DEF NoGap, OnStream
  <2>1. CASE st # session[s].stream
    BY Zenon, <1>1, <1>6, <2>1 DEF NoGap
  <2>2. CASE st = session[s].stream /\ e.seq <= cursor[st]
    BY Zenon, <1>1, <1>6, <2>2 DEF NoGap
  <2>3. CASE st = session[s].stream /\ ~(e.seq <= cursor[st])
    <3>1. e.seq \in Nat
      <4>1. e \in committed /\ committed \subseteq Event
        BY Zenon, <1>1 DEF TypeOK, OnStream
      <4> QED
        BY Zenon, <4>1, Bounds
    <3>2. e.seq > cursor[session[s].stream] /\ e.seq <= last.seq
      BY <1>5, <1>6, <2>3, <3>1
    <3>3. e \in Page(s, last)
      BY Zenon, <1>2, <2>3, <3>2, PageIsComplete
    <3> QED
      BY Zenon, <1>6, <2>3, <3>3
  <2> QED
    BY Zenon, <2>1, <2>2, <2>3
<1>10. (\A r \in Sessions : SnapshotOK(r)') /\ OneLockPerStream'
  BY Zenon, <1>2, <1>6, <1>u, EndWithUpdateKeepsSnapshots
<1>11. SeqInv' /\ FenceInv' /\ NoCommitBelowSafeSeq' /\ PrunedWithinHorizon'
  BY Zenon, <1>2, StreamSideUnchanged
<1> QED
  BY Zenon, <1>7, <1>8, <1>9, <1>10, <1>11 DEF StreamInv

\* A bootstrap takes its snapshot's events and safe_seq.
LEMMA BootstrapCommitInv ==
    ASSUME StreamInv, TypeOK', NEW s \in Sessions, BootstrapCommit(s)
    PROVE  StreamInv' /\ \A st \in Streams : cursor'[st] >= cursor[st]
<1>1. TypeOK /\ HorizonWithinSafeSeq /\ NoGap /\ SnapshotOK(s)
  BY Zenon DEF StreamInv
<1>2. /\ session[s].pc = "locked"
      /\ EndWithUpdate(s)
      /\ UNCHANGED <<writerVars, markVars, horizon>>
  BY Zenon DEF BootstrapCommit
<1>3. /\ session[s].stream \in Streams
      /\ session[s].snap.safe <= safeSeq
      /\ cursor[session[s].stream] <= session[s].snap.safe
      /\ \A e \in OnStream(committed, session[s].stream) :
           e.seq <= session[s].snap.safe => e \in session[s].snap.committed
  <2>1. session[s].snap.cursor = cursor[session[s].stream]
    BY Zenon, <1>2, LockedSnapshot
  <2> QED
    BY Zenon, <1>2, <2>1, LockedSnapshot
<1>4. /\ cursor'[session[s].stream] = session[s].snap.safe
      /\ seen'[session[s].stream] = session[s].snap.committed
      /\ \A st \in Streams \ {session[s].stream} :
           cursor'[st] = cursor[st] /\ seen'[st] = seen[st]
  <2>1. /\ cursor \in [Streams -> Seq0]
        /\ DOMAIN seen = Streams
    BY Zenon, <1>1 DEF TypeOK
  <2>2. /\ cursor' = [cursor EXCEPT ![session[s].stream] = session[s].snap.safe]
        /\ seen' = [seen EXCEPT ![session[s].stream] = session[s].snap.committed]
    BY Zenon DEF BootstrapCommit
  <2> QED
    BY Zenon, <1>3, <2>1, <2>2
<1>5. \A st \in Streams : cursor[st] \in Nat /\ cursor'[st] \in Nat
  BY ZenonT(120), <1>1, Bounds DEF TypeOK
<1>6. UNCHANGED <<horizon, safeSeq, committed>>
  BY Zenon, <1>2 DEF writerVars, markVars
<1>7. \A st \in Streams : cursor'[st] >= cursor[st]
  <2> TAKE st \in Streams
  <2>1. CASE st = session[s].stream
    BY Zenon, <1>3, <1>4, <1>5, <2>1
  <2>2. CASE st # session[s].stream
    BY <1>4, <1>5, <2>2
  <2> QED
    BY Zenon, <2>1, <2>2
<1>8. HorizonWithinSafeSeq'
  <2> SUFFICES ASSUME NEW st \in Streams
               PROVE  horizon[st] <= safeSeq /\ cursor'[st] <= safeSeq
    BY Zenon, <1>6 DEF HorizonWithinSafeSeq
  <2>1. horizon[st] <= safeSeq /\ cursor[st] <= safeSeq
    BY Zenon, <1>1 DEF HorizonWithinSafeSeq
  <2>2. CASE st = session[s].stream
    BY Zenon, <1>3, <1>4, <2>1, <2>2
  <2>3. CASE st # session[s].stream
    BY Zenon, <1>4, <2>1, <2>3
  <2> QED
    BY Zenon, <2>2, <2>3
<1>9. NoGap'
  <2> SUFFICES ASSUME NEW st \in Streams, NEW e \in OnStream(committed, st),
                      e.seq <= cursor'[st]
               PROVE  e \in seen'[st]
    BY Zenon, <1>6 DEF NoGap, OnStream
  <2>1. CASE st = session[s].stream
    BY Zenon, <1>3, <1>4, <2>1
  <2>2. CASE st # session[s].stream
    <3>1. e.seq <= cursor[st]
      BY Zenon, <1>4, <2>2
    <3>2. e \in seen[st]
      BY Zenon, <1>1, <3>1 DEF NoGap
    <3> QED
      BY Zenon, <1>4, <2>2, <3>2
  <2> QED
    BY Zenon, <2>1, <2>2
<1>10. (\A r \in Sessions : SnapshotOK(r)') /\ OneLockPerStream'
  BY Zenon, <1>2, <1>4, <1>6, EndWithUpdateKeepsSnapshots
<1>11. SeqInv' /\ FenceInv' /\ NoCommitBelowSafeSeq' /\ PrunedWithinHorizon'
  BY Zenon, <1>2, StreamSideUnchanged
<1> QED
  BY Zenon, <1>7, <1>8, <1>9, <1>10, <1>11 DEF StreamInv

\* Every step of a client session preserves the invariant and never moves a
\* cursor back.
LEMMA SessionInv ==
    ASSUME StreamInv, NEW s \in Sessions, SessionStep(s)
    PROVE  StreamInv' /\ \A st \in Streams : cursor'[st] >= cursor[st]
<1>1. TypeOK'
  BY Zenon, TypeSession DEF StreamInv, SnapshotOK
<1>2. \A st \in Streams : cursor[st] \in Nat
  BY ZenonT(120), Bounds DEF StreamInv, TypeOK
<1>3. ASSUME NEW st \in Streams, NEW mode \in {"tail", "bootstrap"},
             BeginSnapshot(s, st, mode)
      PROVE  StreamInv' /\ UNCHANGED cursor
  BY ZenonT(120), <1>1, <1>3, BeginSnapshotInv DEF BeginSnapshot
<1>4. ASSUME GetConsumerCursorForUpdate(s) PROVE StreamInv' /\ UNCHANGED cursor
  BY ZenonT(120), <1>1, <1>4, LockInv DEF GetConsumerCursorForUpdate
<1>5. ASSUME RecordConsumerResync(s) PROVE StreamInv' /\ UNCHANGED cursor
  <2>1. (\A r \in Sessions : SnapshotOK(r)') /\ OneLockPerStream'
    BY Zenon, <1>5, EndWithUpdateKeepsSnapshots
       DEF RecordConsumerResync, writerVars, markVars
  <2> QED
    BY Zenon, <1>1, <1>5, <2>1, QuietSession DEF RecordConsumerResync, markVars
<1>6. ASSUME DeliverNothing(s) PROVE StreamInv' /\ UNCHANGED cursor
  <2>1. (\A r \in Sessions : SnapshotOK(r)') /\ OneLockPerStream'
    BY Zenon, <1>6, EndWithoutUpdateKeepsSnapshots
       DEF DeliverNothing, writerVars, markVars
  <2> QED
    BY Zenon, <1>1, <1>6, <2>1, QuietSession DEF DeliverNothing, markVars
<1>7. ASSUME SessionAbort(s) PROVE StreamInv' /\ UNCHANGED cursor
  <2>1. (\A r \in Sessions : SnapshotOK(r)') /\ OneLockPerStream'
    BY Zenon, <1>7, EndWithoutUpdateKeepsSnapshots DEF SessionAbort, writerVars
  <2> QED
    BY Zenon, <1>1, <1>7, <2>1, QuietSession DEF SessionAbort
<1> QED
  BY <1>1, <1>2, <1>3, <1>4, <1>5, <1>6, <1>7, DeliverPageInv,
     BootstrapCommitInv DEF SessionStep

-----------------------------------------------------------------------------
(* Theorems                                                                *)

\* Every step of the system preserves the invariant.
LEMMA StreamInvStep == StreamInv /\ [Next]_vars => StreamInv'
<1> SUFFICES ASSUME StreamInv, [Next]_vars PROVE StreamInv'
  BY Zenon
<1>1. CASE Next
  BY Zenon, <1>1, WriterInv, WatermarkerInv, LeaseExpiresInv, PruneInv, SessionInv
     DEF Next
<1>2. CASE UNCHANGED vars
  <2>1. /\ UNCHANGED <<writerVars, horizon, cursor, seen, session>>
        /\ UNCHANGED <<fence, wm, safeSeq, committed>>
    BY Zenon, <1>2 DEF vars, writerVars
  <2>2. TypeOK'
    BY Zenon, <1>2 DEF vars, StreamInv, TypeOK
  <2>3. \A s \in Sessions : SnapshotOK(s)'
    BY Zenon, <2>1 DEF StreamInv, SnapshotOK, OnStream
  <2>4. OneLockPerStream'
    BY Zenon, <2>1 DEF StreamInv, OneLockPerStream
  <2> QED
    BY Zenon, <2>1, <2>2, <2>3, <2>4, QuietSession
<1> QED
  BY Zenon, <1>1, <1>2

\* The invariant holds throughout every behaviour.
THEOREM StreamInvariant == Spec => []StreamInv
  BY StreamInvInit, StreamInvStep, PTL DEF Spec

\* Every variable of the change stream keeps its type.
THEOREM StreamTypes == Spec => []TypeOK
<1>1. StreamInv => TypeOK
  BY Zenon DEF StreamInv
<1> QED
  BY <1>1, StreamInvariant, PTL

\* The outbox fence makes safe_seq safe (Watermarker.Step): no event at or
\* below it can still be uncommitted, for any number of writers and
\* watermarkers, lost leases, lock timeouts and crashes included.
THEOREM FenceIsSafe == Spec => []NoCommitBelowSafeSeq
<1>1. StreamInv => NoCommitBelowSafeSeq
  BY Zenon DEF StreamInv
<1> QED
  BY <1>1, StreamInvariant, PTL

\* C-S2, C-S4: a consumer's projection reflects every committed event up to
\* its cursor (deliverPage, Bootstrap), whatever page size, number of
\* competing sessions and retention batches.
THEOREM ConsumerHasNoGap == Spec => []NoGap
<1>1. StreamInv => NoGap
  BY Zenon DEF StreamInv
<1> QED
  BY <1>1, StreamInvariant, PTL

\* Neither the resync horizon nor a cursor passes safe_seq
\* (PruneChangeEvents, Bootstrap).
THEOREM HorizonIsWithinSafeSeq == Spec => []HorizonWithinSafeSeq
<1>1. StreamInv => HorizonWithinSafeSeq
  BY Zenon DEF StreamInv
<1> QED
  BY <1>1, StreamInvariant, PTL

\* A committed cursor never moves back (GetConsumerCursorForUpdate in a
\* REPEATABLE READ transaction).
THEOREM CursorIsMonotonic == Spec => CursorNeverRetreats
<1>1. StreamInv /\ [Next]_vars =>
        [\A st \in Streams : cursor'[st] >= cursor[st]]_vars
  <2> SUFFICES ASSUME StreamInv, Next
               PROVE  \A st \in Streams : cursor'[st] >= cursor[st]
    BY Zenon
  <2>1. \A st \in Streams : cursor[st] \in Nat
    BY ZenonT(120), Bounds DEF StreamInv, TypeOK
  <2>2. ASSUME NEW s \in Sessions, SessionStep(s)
        PROVE  \A st \in Streams : cursor'[st] >= cursor[st]
    BY Zenon, <2>2, SessionInv
  <2>3. ASSUME ~ \E s \in Sessions : SessionStep(s) PROVE cursor' = cursor
    BY Zenon, <2>3 DEF Next, WriterStep, AcquireWriterFence, InsertChangeEvent,
                WriterCommit, WriterAbort, WatermarkerStep, AcquireOrRenew,
                RequestFence, AcquireWatermarkFence, FenceTimeout,
                ReadStreamWatermarkTarget, PublishStreamWatermark,
                WatermarkerCrash, ReleaseLease, LeaseExpires,
                PruneChangeEvents, clientVars
  <2> QED
    BY <2>1, <2>2, <2>3
<1> QED
  BY <1>1, StreamInvariant, PTL DEF Spec, CursorNeverRetreats

-----------------------------------------------------------------------------
(* The change stream implements PublishedLog                               *)

\* The abstract log's published sequence numbers.
PublishedSeqs(st) == {e.seq : e \in {x \in OnStream(committed, st) :
                                       x.seq <= safeSeq}}

\* The empty database is the empty log.
LEMMA InitRefines == Init => Published!Init
<1> SUFFICES ASSUME Init PROVE Published!Init
  BY Zenon
<1>1. \A st \in Streams : PublishedSeqs(st) = {} /\ SeqsOf(seen[st]) = {}
  BY Zenon DEF Init, PublishedSeqs, OnStream, SeqsOf
<1> QED
  BY ZenonT(120), <1>1 DEF Init, Published!Init, PublishedSeqs

\* A step that commits only above safe_seq and leaves the reader alone is a
\* stutter of the log, when safe_seq stays.
LEMMA QuietRefines ==
    ASSUME StreamInv, UNCHANGED <<safeSeq, cursor, seen>>,
           committed \subseteq committed',
           \A e \in committed' : e \in committed \/ e.seq > safeSeq,
           TypeOK'
    PROVE  UNCHANGED Published!logVars
<1>1. safeSeq \in Nat /\ \A e \in committed' : e.seq \in Nat
  BY Zenon, Bounds DEF StreamInv, TypeOK
<1>2. \A st \in Streams : {x \in OnStream(committed', st) : x.seq <= safeSeq}
                          = {x \in OnStream(committed, st) : x.seq <= safeSeq}
  BY <1>1 DEF OnStream
<1> QED
  BY Zenon, <1>2 DEF Published!logVars

\* Publishing appends: the new sequence numbers are above the old safe_seq.
LEMMA PublishRefines ==
    ASSUME StreamInv, NEW p \in Watermarkers, PublishStreamWatermark(p),
           TypeOK'
    PROVE  Published!Append
<1> DEFINE new == [st \in Streams |->
                     {e.seq : e \in {x \in OnStream(committed, st) :
                                       x.seq > safeSeq /\ x.seq <= safeSeq'}}]
<1>1. TypeOK
  BY Zenon DEF StreamInv
<1>2. committed' = committed /\ cursor' = cursor /\ seen' = seen
  BY Zenon DEF PublishStreamWatermark, writerVars, clientVars
<1>3. safeSeq' >= safeSeq /\ safeSeq \in Nat /\ safeSeq' \in Nat
  BY Zenon, <1>1, WatermarkerFence, Bounds DEF WatermarkerStep, TypeOK
<1>4. \A e \in committed : e.seq \in Nat /\ e.seq \in 1..MaxSeq
  BY Zenon, <1>1, Bounds DEF TypeOK, Event
<1>5. new \in [Streams -> SUBSET (1..MaxSeq)]
  BY Zenon, <1>4 DEF OnStream
<1>6. \A st \in Streams, r \in Streams :
        \A n \in new[st], m \in PublishedSeqs(r) : n > m
  BY <1>3, <1>4 DEF OnStream, PublishedSeqs
<1>7. ASSUME NEW st \in Streams
      PROVE  {e.seq : e \in {x \in OnStream(committed, st) : x.seq <= safeSeq'}}
             = PublishedSeqs(st) \cup new[st]
  <2>1. {x \in OnStream(committed, st) : x.seq <= safeSeq'}
        = {x \in OnStream(committed, st) : x.seq <= safeSeq}
          \cup {x \in OnStream(committed, st) :
                  x.seq > safeSeq /\ x.seq <= safeSeq'}
    BY <1>3, <1>4 DEF OnStream
  <2> QED
    BY Zenon, <2>1 DEF PublishedSeqs
<1> QED
  BY ZenonT(120), <1>2, <1>5, <1>6, <1>7 DEF Published!Append, PublishedSeqs

\* A delivered page is one Read of the log up to its last event.
LEMMA DeliverRefines ==
    ASSUME StreamInv, NEW s \in Sessions, DeliverPage(s), TypeOK'
    PROVE  \E st \in Streams, n \in 0..MaxSeq : Published!Read(st, n)
<1>1. TypeOK /\ SnapshotOK(s)
  BY Zenon DEF StreamInv
<1>2. /\ session[s].pc = "locked"
      /\ session[s].snap.cursor >= session[s].snap.horizon
      /\ committed' = committed /\ safeSeq' = safeSeq
  BY Zenon DEF DeliverPage, writerVars, markVars
<1> DEFINE st == session[s].stream
<1>3. PICK last \in Available(s) :
        /\ cursor' = [cursor EXCEPT ![st] = last.seq]
        /\ seen' = [seen EXCEPT ![st] = @ \cup Page(s, last)]
  BY ZenonT(120) DEF DeliverPage
<1>4. /\ st \in Streams
      /\ last.seq > cursor[st]
      /\ last.seq <= safeSeq
      /\ \A e \in OnStream(committed, st) :
           e.seq > cursor[st] /\ e.seq <= last.seq => e \in Page(s, last)
  BY Zenon, <1>2, PageIsComplete
<1>5. session[s].snap.events \subseteq OnStream(committed, st)
      /\ session[s].snap.cursor = cursor[st]
  BY Zenon, <1>1, <1>2 DEF SnapshotOK
<1>6. last \in OnStream(committed, st)
  BY Zenon, <1>5 DEF Available
<1>7. /\ last.seq \in 0..MaxSeq /\ last.seq \in Nat /\ safeSeq \in Nat
      /\ \A e \in committed : e.seq \in Nat
  BY Zenon, <1>1, <1>6, Bounds DEF TypeOK, OnStream, Seq0
<1>8. last.seq \in PublishedSeqs(st)
  BY Zenon, <1>4, <1>6 DEF PublishedSeqs
<1>9. Page(s, last) = {e \in OnStream(committed, st) :
                         e.seq > cursor[st] /\ e.seq <= last.seq}
  BY Zenon, <1>4, <1>5 DEF Page, Available
<1>10. SeqsOf(Page(s, last)) =
         {m \in PublishedSeqs(st) : m > cursor[st] /\ m <= last.seq}
  <2>1. \A e \in OnStream(committed, st) :
           e.seq <= last.seq => e.seq <= safeSeq
    BY <1>4, <1>7 DEF OnStream
  <2> QED
    BY Zenon, <1>9, <2>1 DEF SeqsOf, PublishedSeqs
<1>11. \A r \in Streams : SeqsOf(seen'[r]) =
          IF r = st THEN SeqsOf(seen[r]) \cup SeqsOf(Page(s, last))
          ELSE SeqsOf(seen[r])
  <2>1. \A A, B : SeqsOf(A \cup B) = SeqsOf(A) \cup SeqsOf(B)
    BY Zenon DEF SeqsOf
  <2>2. seen'[st] = seen[st] \cup Page(s, last)
        /\ \A r \in Streams : r # st => seen'[r] = seen[r]
    BY Zenon, <1>1, <1>3, <1>4 DEF TypeOK
  <2>3. SeqsOf(seen'[st]) = SeqsOf(seen[st]) \cup SeqsOf(Page(s, last))
    BY Zenon, <2>1, <2>2
  <2> QED
    BY Zenon, <2>2, <2>3
<1>12. Published!Read(st, last.seq)
  BY ZenonT(120), <1>2, <1>3, <1>4, <1>8, <1>10, <1>11 DEF Published!Read, PublishedSeqs
<1> QED
  BY Zenon, <1>4, <1>7, <1>12

\* A bootstrap is one Restart of the log at the snapshot's safe_seq.
LEMMA BootstrapRefines ==
    ASSUME StreamInv, NEW s \in Sessions, BootstrapCommit(s), TypeOK'
    PROVE  \E st \in Streams, n \in 0..MaxSeq : Published!Restart(st, n)
<1>1. TypeOK /\ SnapshotOK(s)
  BY Zenon DEF StreamInv
<1> DEFINE st == session[s].stream
           n == session[s].snap.safe
<1>2. /\ session[s].pc = "locked"
      /\ committed' = committed /\ safeSeq' = safeSeq
      /\ cursor' = [cursor EXCEPT ![st] = n]
      /\ seen' = [seen EXCEPT ![st] = session[s].snap.committed]
  BY Zenon DEF BootstrapCommit, writerVars, markVars
<1>3. /\ st \in Streams
      /\ session[s].snap.cursor = cursor[st]
      /\ session[s].snap.cursor <= n
      /\ \A e \in OnStream(committed, st) :
           e.seq <= n => e \in session[s].snap.committed
  BY Zenon, <1>1, <1>2 DEF SnapshotOK
<1>4. session[s].snap \in Snapshot
  BY Zenon, <1>1 DEF TypeOK
<1>5. n \in 0..MaxSeq /\ cursor[st] \in Nat /\ n \in Nat
      /\ session[s].snap.committed \subseteq Event
  BY Zenon, <1>1, <1>3, <1>4, Bounds DEF TypeOK, Snapshot, Seq0
<1>6. SeqsOf(session[s].snap.committed) \in SUBSET (1..MaxSeq)
  BY Zenon, <1>5 DEF SeqsOf, Event
<1>7. {m \in PublishedSeqs(st) : m <= n}
        \subseteq SeqsOf(session[s].snap.committed)
  BY Zenon, <1>3 DEF PublishedSeqs, SeqsOf
<1>8. \A r \in Streams : SeqsOf(seen'[r]) =
         IF r = st THEN SeqsOf(session[s].snap.committed) ELSE SeqsOf(seen[r])
  BY Zenon, <1>1, <1>2, <1>3 DEF TypeOK
<1>9. [r \in Streams |-> SeqsOf(seen'[r])] =
        [[r \in Streams |-> SeqsOf(seen[r])] EXCEPT
           ![st] = SeqsOf(session[s].snap.committed)]
  BY ZenonT(120), <1>3, <1>8
<1>10. n >= cursor[st]
  BY Zenon, <1>3, <1>5
<1>11. Published!Restart(st, n)
  <2> DEFINE log == [r \in Streams |->
                       {e.seq : e \in {x \in OnStream(committed, r) :
                                         x.seq <= safeSeq}}]
  <2>1. {m \in log[st] : m <= n} \subseteq SeqsOf(session[s].snap.committed)
    BY Zenon, <1>3, <1>7 DEF PublishedSeqs
  <2>2. UNCHANGED log
    BY Zenon, <1>2
  <2> HIDE DEF log
  <2>3. \E S \in SUBSET (1..MaxSeq) :
          /\ {m \in log[st] : m <= n} \subseteq S
          /\ [r \in Streams |-> SeqsOf(seen'[r])] =
               [[r \in Streams |-> SeqsOf(seen[r])] EXCEPT ![st] = S]
    BY ZenonT(120), <1>6, <1>9, <2>1
  <2> QED
    BY ZenonT(120), <1>2, <1>10, <2>2, <2>3 DEF Published!Restart, log
<1> QED
  BY Zenon, <1>3, <1>5, <1>11

\* Every step of the change stream is a step of the log or leaves it alone.
LEMMA StepRefines ==
    ASSUME StreamInv, StreamInv', [Next]_vars
    PROVE  [Published!Next]_(Published!logVars)
<1>1. TypeOK /\ TypeOK' /\ NoCommitBelowSafeSeq
  BY Zenon DEF StreamInv
<1>2. ASSUME NEW w \in Writers, WriterStep(w)
      PROVE  UNCHANGED Published!logVars
  <2>1. /\ UNCHANGED <<safeSeq, cursor, seen>>
        /\ committed \subseteq committed'
        /\ \A e \in committed' : e \in committed \/ e.seq > safeSeq
    BY Zenon, <1>1, <1>2 DEF WriterStep, AcquireWriterFence, InsertChangeEvent,
                 WriterCommit, WriterAbort, NoCommitBelowSafeSeq, markVars,
                 clientVars
  <2> QED
    BY Zenon, <1>1, <2>1, QuietRefines
<1>3. ASSUME NEW p \in Watermarkers, WatermarkerStep(p),
             ~PublishStreamWatermark(p)
      PROVE  UNCHANGED Published!logVars
  <2>1. UNCHANGED <<safeSeq, cursor, seen, committed>>
    BY Zenon, <1>3 DEF WatermarkerStep, AcquireOrRenew, RequestFence,
                AcquireWatermarkFence, FenceTimeout,
                ReadStreamWatermarkTarget, WatermarkerCrash, ReleaseLease,
                writerVars, clientVars
  <2> QED
    BY Zenon, <1>1, <2>1, QuietRefines
<1>4. ASSUME NEW s \in Sessions, SessionStep(s),
             ~DeliverPage(s), ~BootstrapCommit(s)
      PROVE  UNCHANGED Published!logVars
  <2>1. UNCHANGED <<safeSeq, cursor, seen, committed>>
    BY Zenon, <1>4 DEF SessionStep, BeginSnapshot, GetConsumerCursorForUpdate,
                RecordConsumerResync, DeliverNothing, SessionAbort,
                writerVars, markVars
  <2> QED
    BY Zenon, <1>1, <2>1, QuietRefines
<1>5. ASSUME LeaseExpires \/ (\E doomed \in SUBSET events :
                                PruneChangeEvents(doomed))
             \/ UNCHANGED vars
      PROVE  UNCHANGED Published!logVars
  <2>1. UNCHANGED <<safeSeq, cursor, seen, committed>>
    BY Zenon, <1>5 DEF LeaseExpires, PruneChangeEvents, writerVars, markVars,
                clientVars, vars
  <2> QED
    BY Zenon, <1>1, <2>1, QuietRefines
<1> QED
  BY Zenon, <1>1, <1>2, <1>3, <1>4, <1>5, PublishRefines, DeliverRefines,
     BootstrapRefines DEF Next, Published!Next

\* The change stream of internal/stream and pkg/streamclient implements the
\* append-only log with one gap-free reader per stream.
THEOREM StreamRefinesLog == Spec => ImplementsPublishedLog
<1>1. StreamInv /\ StreamInv' /\ [Next]_vars
        => [Published!Next]_(Published!logVars)
  BY Zenon, StepRefines
<1> QED
  BY <1>1, InitRefines, StreamInvariant, PTL
     DEF Spec, ImplementsPublishedLog, Published!Spec
=============================================================================
