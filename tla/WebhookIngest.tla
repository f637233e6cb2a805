---------------------------- MODULE WebhookIngest ----------------------------
(***************************************************************************)
(* The way of a webhook from GitHub to a refresh generation: the HTTP       *)
(* handler stores the delivery and acknowledges it, dispatcher replicas     *)
(* claim batches of pending deliveries, classify them and, in the same      *)
(* transaction, signal the refresh queue and record the results.  A         *)
(* delivery the classifier rejects is retried with backoff and parked after *)
(* MaxAttempts; an operator may requeue it.                                 *)
(*                                                                         *)
(* The refresh queue is composed in for one pointer identity: the           *)
(* deliveries in Hints ask for it, the others match no rule.                *)
(***************************************************************************)
EXTENDS RefreshQueue, Sequences, FiniteSets

CONSTANTS Guids,         \* X-GitHub-Delivery values
          Hints,         \* deliveries whose classification yields the intent
          Rejected,      \* deliveries the deployed classifier cannot decode
          Dispatchers,   \* dispatcher replicas
          BatchSize,     \* Config.BatchSize
          MaxAttempts,   \* Config.MaxAttempts
          MaxUpsets      \* bound on crashes, contention and operator requeues

ASSUME IngestHints == Hints \subseteq Guids
ASSUME IngestRejected == Rejected \subseteq Guids
ASSUME IngestBatch == BatchSize \in Nat \ {0}
ASSUME IngestAttempts == MaxAttempts \in Nat \ {0}
ASSUME IngestUpsets == MaxUpsets \in Nat

VARIABLES request,       \* the HTTP request that carries each delivery
          acked,         \* deliveries GitHub has a 200 for
          row,           \* webhook_deliveries
          ready,         \* pending, due rows in claim order (next_attempt_at)
          batch,         \* rows each dispatcher's transaction has claimed
          rejected,      \* what the deployed classifier cannot decode
          signal,        \* generation each delivery's intent got (history)
          upsets

ingestVars == <<queueVars, request, acked, row, ready, batch, rejected, signal,
                upsets>>

NoRow == [status |-> "absent", attempts |-> 0, payload |-> FALSE]

IngestInit ==
    /\ QueueInit
    /\ request = [g \in Guids |-> "none"]
    /\ acked = {}
    /\ row = [g \in Guids |-> NoRow]
    /\ ready = <<>>
    /\ batch = [p \in Dispatchers |-> {}]
    /\ rejected = Rejected
    /\ signal = [g \in Guids |-> 0]
    /\ upsets = 0

InReady(g) == \E i \in DOMAIN ready : ready[i] = g
Locked(g) == \E p \in Dispatchers : g \in batch[p]
Upset == upsets < MaxUpsets /\ upsets' = upsets + 1

-----------------------------------------------------------------------------
(* ingress.Handler.ServeHTTP                                               *)

\* A verified request arrives; GitHub, or the delivery-gap healer, may send
\* the same delivery again at any time.
Receive(g) ==
    /\ request[g] = "none"
    /\ request' = [request EXCEPT ![g] = "received"]
    /\ UNCHANGED <<queueVars, acked, row, ready, batch, rejected, signal,
                   upsets>>

\* InsertWebhookDelivery, ON CONFLICT DO NOTHING.
InsertWebhookDelivery(g) ==
    /\ request[g] = "received"
    /\ request' = [request EXCEPT ![g] = "stored"]
    /\ IF row[g].status = "absent"
       THEN /\ row' = [row EXCEPT ![g] =
                         [status |-> "pending", attempts |-> 0,
                          payload |-> TRUE]]
            /\ ready' = Append(ready, g)
       ELSE UNCHANGED <<row, ready>>
    /\ UNCHANGED <<queueVars, acked, batch, rejected, signal, upsets>>

Acknowledge(g) ==
    /\ request[g] = "stored"
    /\ request' = [request EXCEPT ![g] = "none"]
    /\ acked' = acked \cup {g}
    /\ UNCHANGED <<queueVars, row, ready, batch, rejected, signal, upsets>>

\* A failed insert (500), a request timeout or a crash: GitHub sees no 200.
DropRequest(g) ==
    /\ request[g] # "none"
    /\ Upset
    /\ request' = [request EXCEPT ![g] = "none"]
    /\ UNCHANGED <<queueVars, acked, row, ready, batch, rejected, signal>>

-----------------------------------------------------------------------------
(* Dispatcher.dispatchBatchAttempt                                         *)

\* FOR UPDATE SKIP LOCKED over the rows that are still pending.
Claimable(g) == row[g].status = "pending" /\ ~Locked(g)

\* ClaimWebhookDeliveries: the first due rows nobody has locked.
ClaimWebhookDeliveries(p) ==
    LET free == {i \in DOMAIN ready : Claimable(ready[i])}
        first == {i \in free : Cardinality({j \in free : j <= i}) <= BatchSize}
    IN  /\ batch[p] = {}
        /\ free # {}
        /\ batch' = [batch EXCEPT ![p] =
                       {g \in Guids : \E i \in first : ready[i] = g}]
        /\ UNCHANGED <<queueVars, request, acked, row, ready, rejected, signal,
                       upsets>>

\* The outcome of classifying a claimed row; the attempt was counted by the
\* claim.
Result(g) ==
    [row[g] EXCEPT
        !.attempts = @ + 1,
        !.status = IF g \notin rejected THEN "processed"
                   ELSE IF row[g].attempts + 1 >= MaxAttempts THEN "parked"
                   ELSE "pending"]

SetWebhookDeliveryResults(claimed) ==
    [g \in Guids |-> IF g \in claimed THEN Result(g) ELSE row[g]]

\* One rejected delivery makes the batch skip the intents of the others.
CommitWithoutIntents(p) ==
    LET good == batch[p] \ rejected
        hints == IF batch[p] \cap rejected = {} THEN good \cap Hints ELSE {}
        Left(g) == g \notin batch[p]
    IN  /\ batch[p] # {}
        /\ IF hints = {} THEN UNCHANGED queueVars ELSE InsertRefreshes
        /\ signal' = [g \in Guids |-> IF g \in hints THEN gen' ELSE signal[g]]
        /\ row' = SetWebhookDeliveryResults(batch[p])
        /\ ready' = SelectSeq(ready, Left)
        /\ batch' = [batch EXCEPT ![p] = {}]
        /\ UNCHANGED <<request, acked, rejected, upsets>>

\* Classification, one deduplicated generation bump with its unique job, the
\* results and the commit.  Rejected rows leave the line until their backoff
\* has passed.
CommitBatch(p) ==
    LET good == batch[p] \ rejected
        Left(g) == g \notin batch[p]
    IN  /\ batch[p] # {}
        /\ IF good \cap Hints = {} THEN UNCHANGED queueVars ELSE InsertRefreshes
        /\ signal' = [g \in Guids |->
                        IF g \in good \cap Hints THEN gen' ELSE signal[g]]
        /\ row' = SetWebhookDeliveryResults(batch[p])
        /\ ready' = SelectSeq(ready, Left)
        /\ batch' = [batch EXCEPT ![p] = {}]
        /\ UNCHANGED <<request, acked, rejected, upsets>>

\* A contended generation lock, an error or a crash rolls the claim back.
RollbackBatch(p) ==
    /\ batch[p] # {}
    /\ Upset
    /\ batch' = [batch EXCEPT ![p] = {}]
    /\ UNCHANGED <<queueVars, request, acked, row, ready, rejected, signal>>

\* The clock reaches next_attempt_at: rows that became due earlier precede.
BackoffElapses(g) ==
    /\ row[g].status = "pending"
    /\ ~InReady(g)
    /\ ready' = Append(ready, g)
    /\ UNCHANGED <<queueVars, request, acked, row, batch, rejected, signal,
                   upsets>>

-----------------------------------------------------------------------------
(* Operators and retention                                                 *)

\* RequeueParkedWebhookDeliveries: rows without payload stay parked.
RequeueParked(g) ==
    /\ row[g].status = "parked"
    /\ row[g].payload
    /\ Upset
    /\ row' = [row EXCEPT ![g].status = "pending", ![g].attempts = 0]
    /\ ready' = Append(ready, g)
    /\ UNCHANGED <<queueVars, request, acked, batch, rejected, signal>>

\* A release whose rules decode what the previous one rejected.
DeployClassifier ==
    /\ rejected # {}
    /\ rejected' = {}
    /\ UNCHANGED <<queueVars, request, acked, row, ready, batch, signal,
                   upsets>>

\* Retention that goes by age alone.
PrunePayloadByAge(g) ==
    /\ row[g].payload
    /\ ~Locked(g)
    /\ row' = [row EXCEPT ![g].payload = FALSE]
    /\ UNCHANGED <<queueVars, request, acked, ready, batch, rejected, signal,
                   upsets>>

\* PruneWebhookDeliveryPayloadBatch: the skeleton row stays.
PrunePayload(g) ==
    /\ row[g].payload
    /\ row[g].status = "processed"
    /\ row' = [row EXCEPT ![g].payload = FALSE]
    /\ UNCHANGED <<queueVars, request, acked, ready, batch, rejected, signal,
                   upsets>>

\* The workers and the reconciler of the refresh queue.
QueueStep(step) ==
    /\ step
    /\ UNCHANGED <<request, acked, row, ready, batch, rejected, signal,
                   upsets>>

Reconciling == QueueStep(ListOutstanding \/ ReinsertPointer)

\* What the program does by itself with the deliveries it has.
Serving ==
    \/ \E g \in Guids : BackoffElapses(g)
    \/ \E p \in Dispatchers : ClaimWebhookDeliveries(p) \/ CommitBatch(p)
    \/ \E v \in Variants : QueueStep(Start(v) \/ CompleteRefresh(v))

-----------------------------------------------------------------------------
IngestNext ==
    \/ \E g \in Guids :
          \/ Receive(g) \/ InsertWebhookDelivery(g) \/ Acknowledge(g)
          \/ DropRequest(g) \/ RequeueParked(g) \/ PrunePayload(g)
    \/ \E p \in Dispatchers : RollbackBatch(p)
    \/ \E v \in Variants : QueueStep(RetryJob(v) \/ DiscardJob(v))
    \/ DeployClassifier
    \/ Serving
    \/ Reconciling

IngestSpec == IngestInit /\ [][IngestNext]_ingestVars

\* The dispatcher loops claim and their transactions end, delays pass and the
\* queue's workers run; the reconciler runs beside them.
IngestFairness == WF_ingestVars(Serving) /\ WF_ingestVars(Reconciling)

FairIngestSpec == IngestSpec /\ IngestFairness

-----------------------------------------------------------------------------
(* Properties                                                              *)

\* C-I1, C-I5: an acknowledged delivery is stored, and keeps its payload as
\* long as it may still be classified or requeued (retention).
AckedIsReplayable ==
    \A g \in acked :
        /\ row[g].status # "absent"
        /\ row[g].status # "processed" => row[g].payload

\* C-I1, C-I5 end to end: an acknowledged delivery that the classifier can
\* decode ends in a completed refresh that started after it was dispatched,
\* even with rejected deliveries in the line, rolled back batches and
\* discarded jobs.
AckedIsServed ==
    \A g \in Hints \ Rejected :
        (g \in acked) ~> (signal[g] > 0 /\ done >= signal[g])
=============================================================================
