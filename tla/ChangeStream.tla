---------------------------- MODULE ChangeStream ----------------------------
(***************************************************************************)
(* The transactional change stream of ghsync: outbox writers, the          *)
(* watermarker that publishes safe_seq, retention, and the consumer client *)
(* (pkg/streamclient).  Sequence numbers are allocated when an event is    *)
(* inserted and become visible when its transaction commits, in any order; *)
(* the outbox fence (a PostgreSQL advisory lock held shared by writers and *)
(* exclusively by the watermarker) is what makes max(seq) a safe frontier. *)
(*                                                                         *)
(* The sessions are all the processes that use ONE consumer name: a        *)
(* session bootstraps or tails a stream inside a REPEATABLE READ           *)
(* transaction whose first statement takes its snapshot.                   *)
(***************************************************************************)
EXTENDS Integers, FiniteSets

CONSTANTS
    Writers,        \* database sessions that run outbox transactions
    Watermarkers,   \* processes that run stream.Watermarker, one token each
    Sessions,       \* client processes of the one consumer
    Streams,        \* values of change_events.stream
    None,           \* NULL: no lease token, fence not held, no stream
    MaxSeq,         \* bound on the sequence change_events_seq_seq
    PageSize,       \* streamclient batchSize
    PruneBatch,     \* stream.Retention batchSize
    MaxFaults       \* bound on the faults of a behaviour: see "faults"

ASSUME StreamNone == None \notin Watermarkers \cup Streams
ASSUME StreamMaxSeq == MaxSeq \in Nat
ASSUME StreamPageSize == PageSize \in Nat \ {0}
ASSUME StreamPruneBatch == PruneBatch \in Nat \ {0}
ASSUME StreamMaxFaults == MaxFaults \in Nat

VARIABLES
    lastSeq,    \* last value drawn from change_events_seq_seq
    open,       \* writers inside a transaction: they hold the fence shared
    pending,    \* per writer, the events its open transaction has inserted
    fence,      \* the watermarker that holds the fence exclusively, or None
    queue,      \* watermarkers queued for the fence (new writers wait behind)
    events,     \* the committed rows of change_events
    committed,  \* history: every event that was ever committed
    safeSeq,    \* stream_watermark.safe_seq
    lease,      \* stream_watermark.lease_token
    leaseLive,  \* stream_watermark.lease_until > clock_timestamp()
    wm,         \* per watermarker, where its Step is and what it has read
    faults,     \* lock timeouts, lease expiries, releases, crashes so far
    horizon,    \* stream_horizons.pruned_through_seq, 0 when there is no row
    cursor,     \* consumer_cursors.seq, 0 when there is no row
    seen,       \* events whose effects the consumer's projection reflects
    session     \* per session, its open transaction and snapshot

vars == <<lastSeq, open, pending, fence, queue, events, committed, safeSeq,
          lease, leaseLive, wm, faults, horizon, cursor, seen, session>>

writerVars == <<lastSeq, open, pending, events, committed>>
markVars == <<fence, queue, safeSeq, lease, leaseLive, wm, faults>>
clientVars == <<cursor, seen, session>>

Seq0 == 0..MaxSeq
Event == [seq : 1..MaxSeq, stream : Streams]

SeqsOf(E) == {e.seq : e \in E}
OnStream(E, st) == {e \in E : e.stream = st}
IsMax(m, S) == m \in S /\ \A x \in S : x <= m
EmptySnapshot == [cursor |-> 0, safe |-> 0, horizon |-> 0,
                  events |-> {}, committed |-> {}]
Snapshot == [cursor : Seq0, safe : Seq0, horizon : Seq0,
             events : SUBSET Event, committed : SUBSET Event]
IdleMark == [pc |-> "idle", prior |-> 0, target |-> 0]

IdleSession == [pc |-> "idle", mode |-> "tail", stream |-> None,
                stale |-> FALSE, snap |-> EmptySnapshot]

Init ==
    /\ lastSeq = 0
    /\ open = {}
    /\ pending = [w \in Writers |-> {}]
    /\ fence = None
    /\ queue = {}
    /\ events = {}
    /\ committed = {}
    /\ safeSeq = 0
    /\ lease = None
    /\ leaseLive = FALSE
    /\ wm = [p \in Watermarkers |-> IdleMark]
    /\ faults = 0
    /\ horizon = [st \in Streams |-> 0]
    /\ cursor = [st \in Streams |-> 0]
    /\ seen = [st \in Streams |-> {}]
    /\ session = [s \in Sessions |-> IdleSession]

-----------------------------------------------------------------------------
(* Outbox writers.                                                         *)

(* outbox.AcquireWriterFence: the shared lock, taken before any sequence   *)
(* is allocated.  PostgreSQL queues it behind a waiting exclusive request. *)
AcquireWriterFence(w) ==
    /\ w \notin open
    /\ fence = None
    /\ queue = {}
    /\ open' = open \cup {w}
    /\ UNCHANGED <<lastSeq, pending, events, committed>>
    /\ UNCHANGED <<markVars, horizon, clientVars>>

(* An INSERT into change_events: the default expression draws the next     *)
(* sequence value, the trigger requires the transaction to hold the fence. *)
InsertChangeEvent(w, st) ==
    /\ w \in open
    /\ lastSeq < MaxSeq
    /\ lastSeq' = lastSeq + 1
    /\ pending' = [pending EXCEPT
                     ![w] = @ \cup {[seq |-> lastSeq + 1, stream |-> st]}]
    /\ UNCHANGED <<open, events, committed>>
    /\ UNCHANGED <<markVars, horizon, clientVars>>

WriterCommit(w) ==
    /\ w \in open
    /\ open' = open \ {w}
    /\ events' = events \cup pending[w]
    /\ committed' = committed \cup pending[w]
    /\ pending' = [pending EXCEPT ![w] = {}]
    /\ UNCHANGED <<lastSeq, markVars, horizon, clientVars>>

(* Rollback or crash: the sequence values drawn are never reused.          *)
WriterAbort(w) ==
    /\ w \in open
    /\ open' = open \ {w}
    /\ pending' = [pending EXCEPT ![w] = {}]
    /\ UNCHANGED <<lastSeq, events, committed, markVars, horizon, clientVars>>

-----------------------------------------------------------------------------
(* The watermarker.                                                        *)

(* Mutant: only a free lease can be taken, not an expired or own one.      *)
AcquireFreeLeaseOnly(p) ==
    /\ wm[p].pc = "idle"
    /\ lease = None
    /\ lease' = p
    /\ leaseLive' = TRUE
    /\ wm' = [wm EXCEPT ![p] = [IdleMark EXCEPT !.pc = "leased"]]
    /\ UNCHANGED <<fence, queue, safeSeq, faults>>
    /\ UNCHANGED <<writerVars, horizon, clientVars>>

(* acquireOrRenew, a statement of its own: take a free, expired or own     *)
(* lease, then open the transaction and queue for the fence.               *)
AcquireOrRenew(p) ==
    /\ wm[p].pc = "idle"
    /\ lease = None \/ ~leaseLive \/ lease = p
    /\ lease' = p
    /\ leaseLive' = TRUE
    /\ wm' = [wm EXCEPT ![p] = [IdleMark EXCEPT !.pc = "leased"]]
    /\ UNCHANGED <<fence, queue, safeSeq, faults>>
    /\ UNCHANGED <<writerVars, horizon, clientVars>>

RequestFence(p) ==
    /\ wm[p].pc = "leased"
    /\ wm' = [wm EXCEPT ![p] = [IdleMark EXCEPT !.pc = "waiting"]]
    /\ queue' = queue \cup {p}
    /\ UNCHANGED <<fence, safeSeq, lease, leaseLive, faults>>
    /\ UNCHANGED <<writerVars, horizon, clientVars>>

(* Mutant: the fence is granted while writers hold it shared.              *)
FenceIgnoresWriters(p) ==
    /\ wm[p].pc = "waiting"
    /\ fence = None
    /\ fence' = p
    /\ queue' = queue \ {p}
    /\ wm' = [wm EXCEPT ![p] = [IdleMark EXCEPT !.pc = "fenced"]]
    /\ UNCHANGED <<safeSeq, lease, leaseLive, faults>>
    /\ UNCHANGED <<writerVars, horizon, clientVars>>

(* pg_advisory_xact_lock is granted when no writer holds it shared and no  *)
(* other watermarker holds it.                                             *)
AcquireWatermarkFence(p) ==
    /\ wm[p].pc = "waiting"
    /\ open = {}
    /\ fence = None
    /\ fence' = p
    /\ queue' = queue \ {p}
    /\ wm' = [wm EXCEPT ![p] = [IdleMark EXCEPT !.pc = "fenced"]]
    /\ UNCHANGED <<safeSeq, lease, leaseLive, faults>>
    /\ UNCHANGED <<writerVars, horizon, clientVars>>

(* lock_timeout (55P03): the step ends without an error, nothing changes.  *)
FenceTimeout(p) ==
    /\ wm[p].pc = "waiting"
    /\ faults < MaxFaults
    /\ faults' = faults + 1
    /\ queue' = queue \ {p}
    /\ wm' = [wm EXCEPT ![p] = IdleMark]
    /\ UNCHANGED <<fence, safeSeq, lease, leaseLive>>
    /\ UNCHANGED <<writerVars, horizon, clientVars>>

(* ReadStreamWatermarkTarget; a lost lease ends the step with ErrLeaseHeld *)
ReadStreamWatermarkTarget(p) ==
    /\ wm[p].pc = "fenced"
    /\ IF lease = p /\ leaseLive
       THEN /\ \E t \in {0} \cup SeqsOf(events) :
                 /\ IsMax(t, {0} \cup SeqsOf(events))
                 /\ wm' = [wm EXCEPT ![p] = [pc |-> "read", prior |-> safeSeq,
                                             target |-> t]]
            /\ fence' = fence
       ELSE /\ wm' = [wm EXCEPT ![p] = IdleMark]
            /\ fence' = None
    /\ UNCHANGED <<queue, safeSeq, lease, leaseLive, faults>>
    /\ UNCHANGED <<writerVars, horizon, clientVars>>

(* PublishStreamWatermark and Commit.  The UPDATE checks the lease again;  *)
(* no row updated is ErrLeaseHeld and the transaction rolls back.          *)
PublishStreamWatermark(p) ==
    /\ wm[p].pc = "read"
    /\ safeSeq' = IF /\ wm[p].target > wm[p].prior
                     /\ lease = p
                     /\ leaseLive
                     /\ safeSeq < wm[p].target
                  THEN wm[p].target
                  ELSE safeSeq
    /\ fence' = None
    /\ wm' = [wm EXCEPT ![p] = IdleMark]
    /\ UNCHANGED <<queue, lease, leaseLive, faults>>
    /\ UNCHANGED <<writerVars, horizon, clientVars>>

(* The process or its connection dies: PostgreSQL rolls the transaction    *)
(* back and drops its locks; the lease stays until it expires.             *)
WatermarkerCrash(p) ==
    /\ wm[p].pc # "idle"
    /\ faults < MaxFaults
    /\ faults' = faults + 1
    /\ wm' = [wm EXCEPT ![p] = IdleMark]
    /\ queue' = queue \ {p}
    /\ fence' = IF fence = p THEN None ELSE fence
    /\ UNCHANGED <<safeSeq, lease, leaseLive>>
    /\ UNCHANGED <<writerVars, horizon, clientVars>>

(* Close, and the deferred release of Run: only the own token is cleared.  *)
ReleaseLease(p) ==
    /\ wm[p].pc = "idle"
    /\ lease = p
    /\ faults < MaxFaults
    /\ faults' = faults + 1
    /\ lease' = None
    /\ leaseLive' = FALSE
    /\ UNCHANGED <<fence, queue, safeSeq, wm>>
    /\ UNCHANGED <<writerVars, horizon, clientVars>>

(* The database clock passes lease_until.                                  *)
LeaseExpires ==
    /\ leaseLive
    /\ faults < MaxFaults
    /\ faults' = faults + 1
    /\ leaseLive' = FALSE
    /\ UNCHANGED <<fence, queue, safeSeq, lease, wm>>
    /\ UNCHANGED <<writerVars, horizon, clientVars>>

-----------------------------------------------------------------------------

PruneWithoutHorizon(doomed) ==
    /\ doomed # {}
    /\ Cardinality(doomed) <= PruneBatch
    /\ \A e \in doomed : e.seq <= safeSeq
    /\ events' = events \ doomed
    /\ UNCHANGED horizon
    /\ UNCHANGED <<lastSeq, open, pending, committed, markVars, clientVars>>

(* Retention: one statement deletes a batch of expired events at or below  *)
(* safe_seq and raises the horizon of each stream it touched.  occurred_at *)
(* is not ordered like seq and SKIP LOCKED may skip rows, so any batch of  *)
(* events below the frontier can be the doomed one.                        *)
PruneChangeEvents(doomed) ==
    /\ doomed # {}
    /\ Cardinality(doomed) <= PruneBatch
    /\ \A e \in doomed : e.seq <= safeSeq
    /\ events' = events \ doomed
    /\ \E h \in [Streams -> Seq0] :
         /\ \A st \in Streams :
              IsMax(h[st], {horizon[st]} \cup SeqsOf(OnStream(doomed, st)))
         /\ horizon' = h
    /\ UNCHANGED <<lastSeq, open, pending, committed, markVars, clientVars>>

-----------------------------------------------------------------------------
(* The consumer client.                                                    *)

(* BeginTx and EnsureConsumerCursor: the first statement of the REPEATABLE *)
(* READ transaction, hence the point whose state all its reads return.     *)
BeginSnapshot(s, st, mode) ==
    /\ session[s].pc = "idle"
    /\ session' = [session EXCEPT ![s] =
         [pc |-> "begun", mode |-> mode, stream |-> st, stale |-> FALSE,
          snap |-> [cursor |-> cursor[st], safe |-> safeSeq,
                    horizon |-> horizon[st], events |-> OnStream(events, st),
                    committed |-> OnStream(committed, st)]]]
    /\ UNCHANGED <<writerVars, markVars, horizon, cursor, seen>>

CursorLocked(st) ==
    \E s \in Sessions : session[s].pc = "locked" /\ session[s].stream = st

(* GetConsumerCursorForUpdate: waits for the row lock; a row that another  *)
(* transaction updated after this snapshot is a serialization failure      *)
(* (ErrCursorContention, or a first-touch race that Tail retries).         *)
GetConsumerCursorForUpdate(s) ==
    /\ session[s].pc = "begun"
    /\ ~CursorLocked(session[s].stream)
    /\ session' = [session EXCEPT
         ![s] = IF session[s].stale THEN IdleSession
                ELSE [@ EXCEPT !.pc = "locked"]]
    /\ UNCHANGED <<writerVars, markVars, horizon, cursor, seen>>

(* The session's transaction ends and has updated the cursor row: the      *)
(* snapshots other sessions took of that row before are now stale.         *)
EndWithUpdate(s) ==
    session' = [r \in Sessions |->
        CASE r = s -> IdleSession
          [] r # s /\ session[r].pc = "begun"
                   /\ session[r].stream = session[s].stream
               -> [session[r] EXCEPT !.stale = TRUE]
          [] OTHER -> session[r]]

EndWithoutUpdate(s) ==
    session' = [session EXCEPT ![s] = IdleSession]

(* deliverPage, cursor < prunedThrough: the resync is recorded in the      *)
(* cursor row and committed, the cursor stays.                             *)
RecordConsumerResync(s) ==
    /\ session[s].pc = "locked"
    /\ session[s].mode = "tail"
    /\ session[s].snap.cursor < session[s].snap.horizon
    /\ EndWithUpdate(s)
    /\ UNCHANGED <<writerVars, markVars, horizon, cursor, seen>>

(* PageChangeEvents without its LIMIT.                                     *)
Available(s) ==
    {e \in session[s].snap.events : /\ e.seq > session[s].snap.cursor
                                    /\ e.seq <= session[s].snap.safe}

(* ORDER BY seq LIMIT batchSize: the page that ends with event "last".     *)
Page(s, last) == {e \in Available(s) : e.seq <= last.seq}
IsLimitedPage(s, page) ==
    /\ Cardinality(page) <= PageSize
    /\ page = Available(s) \/ Cardinality(page) = PageSize

(* deliverPage: the handler has run on every event of the page inside the  *)
(* transaction, the cursor moves to the last one, the transaction commits. *)
DeliverPage(s) ==
    /\ session[s].pc = "locked"
    /\ session[s].mode = "tail"
    /\ session[s].snap.cursor >= session[s].snap.horizon
    /\ \E last \in Available(s) :
         /\ IsLimitedPage(s, Page(s, last))
         /\ cursor' = [cursor EXCEPT ![session[s].stream] = last.seq]
         /\ seen' = [seen EXCEPT ![session[s].stream] = @ \cup Page(s, last)]
    /\ EndWithUpdate(s)
    /\ UNCHANGED <<writerVars, markVars, horizon>>

DeliverNothing(s) ==
    /\ session[s].pc = "locked"
    /\ session[s].mode = "tail"
    /\ session[s].snap.cursor >= session[s].snap.horizon
    /\ Available(s) = {}
    /\ EndWithoutUpdate(s)
    /\ UNCHANGED <<writerVars, markVars, horizon, cursor, seen>>

(* Mutant: the cursor is set to the current safe_seq, not the snapshot's.  *)
BootstrapAtCurrentSafeSeq(s) ==
    /\ session[s].pc = "locked"
    /\ session[s].mode = "bootstrap"
    /\ cursor' = [cursor EXCEPT ![session[s].stream] = safeSeq]
    /\ seen' = [seen EXCEPT ![session[s].stream] = session[s].snap.committed]
    /\ EndWithUpdate(s)
    /\ UNCHANGED <<writerVars, markVars, horizon>>

(* Bootstrap and Snapshot.Commit: the projection is rebuilt from the cache *)
(* as of the snapshot and the cursor is set to the snapshot's safe_seq.    *)
BootstrapCommit(s) ==
    /\ session[s].pc = "locked"
    /\ session[s].mode = "bootstrap"
    /\ cursor' = [cursor EXCEPT ![session[s].stream] = session[s].snap.safe]
    /\ seen' = [seen EXCEPT ![session[s].stream] = session[s].snap.committed]
    /\ EndWithUpdate(s)
    /\ UNCHANGED <<writerVars, markVars, horizon>>

(* Snapshot.Close, a handler error, a lost connection: rollback.           *)
SessionAbort(s) ==
    /\ session[s].pc # "idle"
    /\ faults < MaxFaults
    /\ faults' = faults + 1
    /\ EndWithoutUpdate(s)
    /\ UNCHANGED <<fence, queue, safeSeq, lease, leaseLive, wm>>
    /\ UNCHANGED <<writerVars, horizon, cursor, seen>>

-----------------------------------------------------------------------------
WriterStep(w) ==
    \/ AcquireWriterFence(w)
    \/ \E st \in Streams : InsertChangeEvent(w, st)
    \/ WriterCommit(w)
    \/ WriterAbort(w)

WatermarkerStep(p) ==
    \/ AcquireOrRenew(p)
    \/ RequestFence(p)
    \/ AcquireWatermarkFence(p)
    \/ FenceTimeout(p)
    \/ ReadStreamWatermarkTarget(p)
    \/ PublishStreamWatermark(p)
    \/ WatermarkerCrash(p)
    \/ ReleaseLease(p)

SessionStep(s) ==
    \/ \E st \in Streams, mode \in {"tail", "bootstrap"} :
         BeginSnapshot(s, st, mode)
    \/ GetConsumerCursorForUpdate(s)
    \/ RecordConsumerResync(s)
    \/ DeliverPage(s)
    \/ DeliverNothing(s)
    \/ BootstrapCommit(s)
    \/ SessionAbort(s)

Next ==
    \/ \E w \in Writers : WriterStep(w)
    \/ \E p \in Watermarkers : WatermarkerStep(p)
    \/ LeaseExpires
    \/ \E doomed \in SUBSET events : PruneChangeEvents(doomed)
    \/ \E s \in Sessions : SessionStep(s)

Spec == Init /\ [][Next]_vars

(* What the deployment guarantees: transactions end (commit is retried or  *)
(* idle_in_transaction_session_timeout aborts them), the watermarker's and *)
(* the client's loops keep running, a resync is answered by a bootstrap.   *)
(* The fence needs strong fairness: a writer already inside delays it.     *)
Fairness ==
    /\ \A w \in Writers : WF_vars(WriterCommit(w))
    /\ \A p \in Watermarkers :
         /\ WF_vars(AcquireOrRenew(p))
         /\ WF_vars(RequestFence(p))
         /\ SF_vars(AcquireWatermarkFence(p))
         /\ WF_vars(ReadStreamWatermarkTarget(p))
         /\ WF_vars(PublishStreamWatermark(p))
    /\ \A s \in Sessions :
         /\ \A st \in Streams :
              /\ SF_vars(BeginSnapshot(s, st, "tail"))
              /\ SF_vars(/\ cursor[st] < horizon[st]
                         /\ BeginSnapshot(s, st, "bootstrap"))
         /\ SF_vars(GetConsumerCursorForUpdate(s))
         /\ WF_vars(RecordConsumerResync(s) \/ DeliverPage(s)
                     \/ DeliverNothing(s) \/ BootstrapCommit(s))

FairSpec == Spec /\ Fairness

-----------------------------------------------------------------------------
(* Every variable stays in its type; the sequence never runs past its      *)
(* bound and snapshots hold only sequence numbers that exist.              *)
TypeOK ==
    /\ lastSeq \in Seq0
    /\ open \subseteq Writers
    /\ pending \in [Writers -> SUBSET Event]
    /\ fence \in Watermarkers \cup {None}
    /\ queue \subseteq Watermarkers
    /\ events \subseteq Event
    /\ committed \subseteq Event
    /\ safeSeq \in Seq0
    /\ lease \in Watermarkers \cup {None}
    /\ leaseLive \in BOOLEAN
    /\ wm \in [Watermarkers ->
               [pc : {"idle", "leased", "waiting", "fenced", "read"},
                prior : Seq0, target : Seq0]]
    /\ faults \in 0..MaxFaults
    /\ horizon \in [Streams -> Seq0]
    /\ cursor \in [Streams -> Seq0]
    /\ seen \in [Streams -> SUBSET Event]
    /\ session \in [Sessions ->
               [pc : {"idle", "begun", "locked"},
                mode : {"tail", "bootstrap"},
                stream : Streams \cup {None}, stale : BOOLEAN,
                snap : Snapshot]]

(* The fence does its job (outbox.go, Watermarker.Step): an event that is  *)
(* still uncommitted lies above safe_seq, so nothing at or below safe_seq  *)
(* can become visible later.                                               *)
NoCommitBelowSafeSeq ==
    \A w \in Writers : \A e \in pending[w] : e.seq > safeSeq

(* What the consumer is promised (C-S2, C-S4): every event ever committed  *)
(* on a stream with seq <= cursor is reflected in its projection, whatever *)
(* the interleaving of late commits, pruning, competing sessions,          *)
(* bootstraps and crashes.                                                 *)
NoGap ==
    \A st \in Streams : \A e \in OnStream(committed, st) :
        e.seq <= cursor[st] => e \in seen[st]

(* The resync boundary never passes what consumers were allowed to see     *)
(* (PruneChangeEvents), so a bootstrap, whose cursor is safe_seq, always   *)
(* clears a resync; and no cursor is ahead of safe_seq.                    *)
HorizonWithinSafeSeq ==
    \A st \in Streams : horizon[st] <= safeSeq /\ cursor[st] <= safeSeq

(* A committed cursor never moves back, even when several sessions of the  *)
(* consumer tail and bootstrap concurrently: an event is delivered at most *)
(* once after a bootstrap (GetConsumerCursorForUpdate under REPEATABLE     *)
(* READ).                                                                  *)
CursorNeverRetreats == [][\A st \in Streams : cursor'[st] >= cursor[st]]_vars

(* Every committed event eventually reaches the consumer, by delivery or   *)
(* in a bootstrap snapshot.                                                *)
EventuallySeen ==
    []<>(\A e \in committed : e \in seen[e.stream])

-----------------------------------------------------------------------------
(* The abstract log this component implements: what has been published is  *)
(* the committed events up to safe_seq.                                    *)
Published == INSTANCE PublishedLog WITH
    published <- [st \in Streams |->
                    {e.seq : e \in {x \in OnStream(committed, st) :
                                      x.seq <= safeSeq}}],
    cursor <- cursor,
    seen <- [st \in Streams |-> SeqsOf(seen[st])]

(* The stream is an append-only log per stream: publication only appends,  *)
(* a reader moves forward over exactly the next events or restarts from a  *)
(* snapshot that contains everything it skips.                             *)
ImplementsPublishedLog == Published!Spec
=============================================================================
