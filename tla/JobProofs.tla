------------------------------ MODULE JobProofs ------------------------------
(***************************************************************************)
(* The refresh queue, the webhook ingestion in front of it and the stack   *)
(* jobs behind it, proved for any number of job variants, signals,         *)
(* failures, deliveries, dispatchers, stacks and pull requests.            *)
(*                                                                         *)
(* The queue's inductive invariant is its type invariant with              *)
(* CompletedWithinIssued: a completion writes started[v], so done <= gen   *)
(* needs started[v] <= gen, and that needs that generations only grow.     *)
(*                                                                         *)
(* For ingestion: an acknowledged delivery stays replayable, and the queue *)
(* behind the dispatchers takes only steps of RefreshQueue, so that the    *)
(* queue's theorems hold of the composition.                               *)
(*                                                                         *)
(* For the jobs of a stack: its row and those of its pull requests show    *)
(* what their validators stand for, because no write is older than the row *)
(* it meets.                                                               *)
(***************************************************************************)
EXTENDS WebhookIngest, StackMembership, WellFoundedInduction, TLAPS

\* What every step of the queue preserves.
QueueInv == QueueTypeOK /\ CompletedWithinIssued

\* River's unique insert yields a job state for every variant, and never
\* removes a live job.
LEMMA InsertUniqueKeepsJobs ==
    ASSUME QueueTypeOK, NEW inserted
    PROVE  /\ InsertUnique(inserted) \in [Variants -> JobStates]
           /\ \A v \in Variants :
                Live(v) => InsertUnique(inserted)[v] # "none"
           /\ \A v \in Variants \cap inserted :
                InsertUnique(inserted)[v] # "none"
  BY Zenon DEF QueueTypeOK, InsertUnique, JobStates, Live

\* The empty queue satisfies the invariant.
LEMMA QueueInitInv == QueueInit => QueueInv
<1> SUFFICES ASSUME QueueInit PROVE QueueInv
  BY Zenon
<1> USE QueueMaxGen, QueueMaxFaults DEF QueueInit
<1>1. 0 \in 0..MaxGen /\ 0 \in 0..MaxFaults
  OBVIOUS
<1>2. job \in [Variants -> JobStates] /\ started \in [Variants -> 0..MaxGen]
  BY Zenon, <1>1 DEF JobStates
<1>3. done <= gen /\ \A v \in Variants : started[v] <= gen
  OBVIOUS
<1> QED
  BY <1>1, <1>2, <1>3, Zenon DEF QueueInv, QueueTypeOK, CompletedWithinIssued

\* Every producer, worker and reconciler step preserves the invariant.
LEMMA QueueStepInv == QueueInv /\ [QueueNext]_queueVars => QueueInv'
<1> SUFFICES ASSUME QueueInv, [QueueNext]_queueVars PROVE QueueInv'
  BY Zenon
<1> USE QueueMaxGen, QueueMaxFaults
    DEF QueueInv, QueueTypeOK, CompletedWithinIssued
<1>1. CASE InsertRefreshes
  BY <1>1, InsertUniqueKeepsJobs DEF InsertRefreshes
<1>2. ASSUME NEW inserted, ClaimGeneration(inserted) PROVE QueueInv'
  BY <1>2, InsertUniqueKeepsJobs DEF ClaimGeneration
<1>3. ASSUME NEW v \in Variants, Start(v) PROVE QueueInv'
  BY <1>3 DEF Start, JobStates
<1>4. ASSUME NEW v \in Variants, CompleteRefresh(v) PROVE QueueInv'
  BY Zenon, <1>4 DEF CompleteRefresh, JobStates
<1>5. ASSUME NEW v \in Variants, RetryJob(v) PROVE QueueInv'
  BY <1>5 DEF RetryJob, JobStates
<1>6. ASSUME NEW v \in Variants, DiscardJob(v) PROVE QueueInv'
  BY <1>6 DEF DiscardJob, JobStates
<1>7. CASE ListOutstanding
  BY Zenon, <1>7 DEF ListOutstanding
<1>8. CASE ReinsertPointer
  BY ZenonT(120), <1>8, InsertUniqueKeepsJobs DEF ReinsertPointer
<1>9. CASE UNCHANGED queueVars
  BY Zenon, <1>9 DEF queueVars
<1> QED
  BY Zenon, <1>1, <1>2, <1>3, <1>4, <1>5, <1>6, <1>7, <1>8, <1>9 DEF QueueNext

\* The invariant holds throughout every behaviour of the queue.
THEOREM QueueInvariant == QueueSpec => []QueueInv
  BY QueueInitInv, QueueStepInv, PTL DEF QueueSpec

\* completed_generation never passes generation, and no worker holds a
\* generation that was never issued (CompleteRefreshIntentGeneration).
THEOREM CompletedWithinIssuedHolds == QueueSpec => []CompletedWithinIssued
<1>1. QueueInv => CompletedWithinIssued
  BY Zenon DEF QueueInv
<1> QED
  BY <1>1, QueueInvariant, PTL

-----------------------------------------------------------------------------
\* One step that leaves an outstanding generation without a live job either
\* started that way or is a discard.  The step of interest is completion: if
\* the row is still outstanding afterwards then the signal came after the
\* worker's snapshot, and the recheck inserts the follow-up.
LEMMA QueueStepKeepsWork ==
    ASSUME QueueInv, [QueueNext]_queueVars,
           (Outstanding /\ \A v \in Variants : ~Live(v))'
    PROVE  \/ Outstanding /\ \A v \in Variants : ~Live(v)
           \/ \E v \in Variants : DiscardJob(v)
<1> USE PlainVariant, QueueMaxGen
    DEF QueueInv, QueueTypeOK, CompletedWithinIssued, Outstanding, Live
<1>1. ASSUME InsertRefreshes PROVE FALSE
  <2>1. job'[Plain] # "none"
    BY Zenon, <1>1, InsertUniqueKeepsJobs DEF InsertRefreshes
  <2> QED BY Zenon, <2>1
<1>2. ASSUME NEW inserted, ClaimGeneration(inserted) PROVE FALSE
  BY <1>2 DEF ClaimGeneration
<1>3. ASSUME NEW v \in Variants, Start(v) PROVE FALSE
  BY Zenon, <1>3 DEF Start
<1>4. ASSUME NEW v \in Variants, CompleteRefresh(v) PROVE FALSE
  <2>1. gen > started[v] /\ done < gen
    BY <1>4 DEF CompleteRefresh
  <2>2. job'[v] = "queued"
    BY Zenon, <1>4, <2>1 DEF CompleteRefresh
  <2> QED BY Zenon, <2>2
<1>5. ASSUME NEW v \in Variants, RetryJob(v) PROVE FALSE
  BY Zenon, <1>5 DEF RetryJob
<1>6. ASSUME ReinsertPointer PROVE FALSE
  <2>1. job'[Plain] # "none"
    BY Zenon, <1>6, InsertUniqueKeepsJobs DEF ReinsertPointer
  <2> QED BY Zenon, <2>1
<1>7. CASE ListOutstanding
  BY Zenon, <1>7 DEF ListOutstanding
<1>8. CASE UNCHANGED queueVars
  BY Zenon, <1>8 DEF queueVars
<1> QED
  BY Zenon, <1>1, <1>2, <1>3, <1>4, <1>5, <1>6, <1>7, <1>8 DEF QueueNext

\* C-R5, orphan.go:37: an outstanding generation loses its last live job only
\* when River discards that job.
THEOREM WorkLostOnlyByDiscard == QueueSpec => OutstandingLosesWorkOnlyByDiscard
<1>1. QueueInv /\ [QueueNext]_queueVars =>
        [ (Outstanding /\ \A v \in Variants : ~Live(v))' =>
            \/ Outstanding /\ \A v \in Variants : ~Live(v)
            \/ \E v \in Variants : DiscardJob(v) ]_queueVars
  BY Zenon, QueueStepKeepsWork
<1> QED
  BY <1>1, QueueInvariant, PTL
     DEF QueueSpec, OutstandingLosesWorkOnlyByDiscard

\* A completion raises completed_generation to the snapshot of a job that is
\* running, so no signal counts as served by work that started before it
\* (completeRefresh); the other way to raise it is a push's claim.
THEOREM CompletionCoversSnapshot == QueueSpec => CompletionCoversOnlyItsSnapshot
<1>1. QueueInv /\ [QueueNext]_queueVars =>
        [ done' > done =>
            \/ \E v \in Variants : job[v] = "running" /\ done' = started[v]
            \/ gen' = gen + 1 ]_queueVars
  BY DEF QueueInv, QueueTypeOK, QueueNext, InsertRefreshes, ClaimGeneration,
         Start, CompleteRefresh, RetryJob, DiscardJob, ListOutstanding,
         ReinsertPointer
<1> QED
  BY <1>1, QueueInvariant, PTL DEF QueueSpec, CompletionCoversOnlyItsSnapshot

-----------------------------------------------------------------------------
(* Webhook ingestion                                                       *)

RowStates == {"absent", "pending", "parked", "processed"}

IngestTypeOK ==
    /\ row \in [Guids -> [status : RowStates, attempts : Nat, payload : BOOLEAN]]
    /\ request \in [Guids -> {"none", "received", "stored"}]
    /\ batch \in [Dispatchers -> SUBSET Guids]
    /\ acked \subseteq Guids

\* Retention takes the payloads of processed rows only.
UnprocessedHasPayload ==
    \A g \in Guids : row[g].status \notin {"absent", "processed"} => row[g].payload

\* The row locks of a claim: pending rows, each in one batch.
BatchesArePending ==
    /\ \A p \in Dispatchers : \A g \in batch[p] : row[g].status = "pending"
    /\ \A p, q \in Dispatchers : p # q => batch[p] \cap batch[q] = {}

\* What the handler answers with 200 has a row.
StoredBeforeAck ==
    \A g \in Guids : request[g] = "stored" \/ g \in acked => row[g].status # "absent"

IngestInv ==
    IngestTypeOK /\ UnprocessedHasPayload /\ BatchesArePending /\ StoredBeforeAck

\* The empty tables satisfy the invariant.
LEMMA IngestInitInv == IngestInit => IngestInv
<1> SUFFICES ASSUME IngestInit PROVE IngestInv
  BY Zenon
<1>1. NoRow \in [status : RowStates, attempts : Nat, payload : BOOLEAN]
  BY Zenon DEF NoRow, RowStates
<1>2. \A g \in Guids : row[g].status = "absent" /\ request[g] = "none"
  BY Zenon DEF IngestInit, NoRow
<1>3. IngestTypeOK
  BY Zenon, <1>1 DEF IngestInit, IngestTypeOK
<1> QED
  BY Zenon, <1>2, <1>3 DEF IngestInit, IngestInv, UnprocessedHasPayload, BatchesArePending,
                    StoredBeforeAck

\* The rows one step changes, and how: a row is stored with its payload, or a
\* row that is no claim's is requeued or loses a payload it no longer needs.
LEMMA RowInv ==
    ASSUME IngestInv, NEW g \in Guids, UNCHANGED <<acked, batch>>,
           InsertWebhookDelivery(g) \/ RequeueParked(g) \/ PrunePayload(g)
    PROVE  IngestInv'
<1>1. /\ row[g] \in [status : RowStates, attempts : Nat, payload : BOOLEAN]
      /\ DOMAIN row = Guids
  BY Zenon DEF IngestInv, IngestTypeOK
<1>2. /\ \A h \in Guids \ {g} : row'[h] = row[h]
      /\ row' \in [Guids -> [status : RowStates, attempts : Nat, payload : BOOLEAN]]
      /\ \/ row'[g] = row[g]
         \/ row[g].status = "absent" /\ row'[g].status = "pending" /\ row'[g].payload
         \/ row[g].status = "parked" /\ row'[g].status = "pending" /\ row[g].payload
            /\ row'[g].payload = row[g].payload
         \/ row[g].status = "processed" /\ row'[g].status = "processed"
  <2>1. CASE InsertWebhookDelivery(g)
    <3>1. CASE row[g].status = "absent"
      <4>1. row' = [row EXCEPT ![g] = [status |-> "pending", attempts |-> 0, payload |-> TRUE]]
        BY Zenon, <2>1, <3>1 DEF InsertWebhookDelivery
      <4>2. row'[g] = [status |-> "pending", attempts |-> 0, payload |-> TRUE]
        BY Zenon, <1>1, <4>1
      <4>3. row'[g].status = "pending" /\ row'[g].payload
        BY <4>2
      <4>4. [status |-> "pending", attempts |-> 0, payload |-> TRUE]
              \in [status : RowStates, attempts : Nat, payload : BOOLEAN]
        BY Zenon DEF RowStates
      <4>5. \A h \in Guids \ {g} : row'[h] = row[h]
        BY Zenon, <1>1, <4>1
      <4>6. row' \in [Guids -> [status : RowStates, attempts : Nat, payload : BOOLEAN]]
        BY Zenon, <4>1, <4>4 DEF IngestInv, IngestTypeOK
      <4> QED
        BY Zenon, <3>1, <4>3, <4>5, <4>6
    <3>2. CASE row[g].status # "absent"
      BY Zenon, <2>1, <3>2 DEF InsertWebhookDelivery, IngestInv, IngestTypeOK
    <3> QED
      BY Zenon, <3>1, <3>2
  <2>2. CASE RequeueParked(g)
    BY Zenon, <1>1, <2>2 DEF RequeueParked, IngestInv, IngestTypeOK, RowStates
  <2>3. CASE PrunePayload(g)
    BY Zenon, <1>1, <2>3 DEF PrunePayload, IngestInv, IngestTypeOK, RowStates
  <2> QED
    BY Zenon, <2>1, <2>2, <2>3
<1>3. /\ request' \in [Guids -> {"none", "received", "stored"}]
      /\ \A h \in Guids : request'[h] = request[h] \/ (h = g /\ row'[g].status # "absent")
  <2>1. CASE InsertWebhookDelivery(g)
    BY <1>1, <2>1 DEF InsertWebhookDelivery, IngestInv, IngestTypeOK
  <2>2. CASE request' = request
    BY Zenon, <2>2 DEF IngestInv, IngestTypeOK
  <2> QED
    BY Zenon, <2>1, <2>2 DEF RequeueParked, PrunePayload
<1>4. IngestTypeOK'
  BY Zenon, <1>2, <1>3 DEF IngestInv, IngestTypeOK
<1>5. UnprocessedHasPayload'
  BY Zenon, <1>2 DEF IngestInv, UnprocessedHasPayload
<1>6. BatchesArePending'
  BY ZenonT(120), <1>2 DEF IngestInv, IngestTypeOK, BatchesArePending
<1>7. StoredBeforeAck'
  BY Zenon, <1>2, <1>3 DEF IngestInv, StoredBeforeAck
<1> QED
  BY Zenon, <1>4, <1>5, <1>6, <1>7 DEF IngestInv

\* A claim takes pending rows that no other batch holds.
LEMMA ClaimInv ==
    ASSUME IngestInv, NEW p \in Dispatchers, ClaimWebhookDeliveries(p)
    PROVE  IngestInv'
<1>1. UNCHANGED <<request, acked, row>>
  BY Zenon DEF ClaimWebhookDeliveries
<1>2. PICK claim \in SUBSET Guids :
        /\ batch' = [batch EXCEPT ![p] = claim]
        /\ \A g \in claim : Claimable(g)
  <2> DEFINE free == {i \in DOMAIN ready : Claimable(ready[i])}
             first == {i \in free : Cardinality({j \in free : j <= i}) <= BatchSize}
             claim == {g \in Guids : \E i \in first : ready[i] = g}
  <2>1. batch' = [batch EXCEPT ![p] = claim]
    BY Zenon DEF ClaimWebhookDeliveries
  <2>2. \A g \in claim : Claimable(g)
    BY Zenon
  <2>3. claim \in SUBSET Guids
    BY Zenon
  <2> HIDE DEF claim
  <2> QED
    BY Zenon, <2>1, <2>2, <2>3
<1>3. IngestTypeOK'
  BY Zenon, <1>1, <1>2 DEF IngestInv, IngestTypeOK
<1>4. BatchesArePending'
  BY Zenon, <1>1, <1>2 DEF IngestInv, IngestTypeOK, BatchesArePending, Claimable, Locked
<1>5. UnprocessedHasPayload' /\ StoredBeforeAck'
  BY Zenon, <1>1 DEF IngestInv, UnprocessedHasPayload, StoredBeforeAck
<1> QED
  BY Zenon, <1>3, <1>4, <1>5 DEF IngestInv

\* The commit of a batch settles its own rows and no other batch's.
LEMMA CommitInv ==
    ASSUME IngestInv, NEW p \in Dispatchers, CommitBatch(p)
    PROVE  IngestInv'
<1>1. /\ row' = SetWebhookDeliveryResults(batch[p])
      /\ batch' = [batch EXCEPT ![p] = {}]
      /\ UNCHANGED <<request, acked>>
  BY Zenon DEF CommitBatch
<1>2. /\ batch[p] \subseteq Guids
      /\ \A g \in Guids : row[g] \in [status : RowStates, attempts : Nat, payload : BOOLEAN]
      /\ MaxAttempts \in Nat
  BY Zenon, IngestAttempts DEF IngestInv, IngestTypeOK
<1>3. /\ row' = [g \in Guids |-> row'[g]]
      /\ \A g \in Guids \ batch[p] : row'[g] = row[g]
      /\ \A g \in batch[p] : row'[g] = Result(g)
  BY Zenon, <1>1, <1>2 DEF SetWebhookDeliveryResults
<1>4. \A g \in batch[p] :
        /\ Result(g) \in [status : RowStates, attempts : Nat, payload : BOOLEAN]
        /\ Result(g).status \in {"processed", "parked", "pending"}
        /\ Result(g).payload = row[g].payload
  <2> SUFFICES ASSUME NEW g \in batch[p]
               PROVE  /\ Result(g) \in [status : RowStates, attempts : Nat, payload : BOOLEAN]
                      /\ Result(g).status \in {"processed", "parked", "pending"}
                      /\ Result(g).payload = row[g].payload
    BY Zenon
  <2>1. row[g] \in [status : RowStates, attempts : Nat, payload : BOOLEAN]
    BY Zenon, <1>2
  <2>2. PICK new \in {"processed", "parked", "pending"} :
          Result(g) = [row[g] EXCEPT !.attempts = @ + 1, !.status = new]
    BY Zenon DEF Result
  <2>3. {"processed", "parked", "pending"} \subseteq RowStates
    BY Zenon DEF RowStates
  <2>4. Result(g) \in [status : RowStates, attempts : Nat, payload : BOOLEAN]
    <3>1. row[g].attempts + 1 \in Nat /\ row[g].payload \in BOOLEAN /\ new \in RowStates
      BY <2>1, <2>3
    <3>2. Result(g) = [status |-> new, attempts |-> row[g].attempts + 1,
                       payload |-> row[g].payload]
      BY Zenon, <2>1, <2>2
    <3> QED
      BY <3>1, <3>2
  <2>5. Result(g).status = new
    BY Zenon, <2>1, <2>2
  <2>6. Result(g).payload = row[g].payload
    BY Zenon, <2>1, <2>2
  <2> QED
    BY Zenon, <2>4, <2>5, <2>6
<1>5. IngestTypeOK'
  <2>1. row' \in [Guids -> [status : RowStates, attempts : Nat, payload : BOOLEAN]]
    BY <1>2, <1>3, <1>4
  <2> QED
    BY Zenon, <1>1, <2>1 DEF IngestInv, IngestTypeOK
<1>6. UnprocessedHasPayload'
  BY Zenon, <1>2, <1>3, <1>4 DEF IngestInv, UnprocessedHasPayload, BatchesArePending
<1>7. BatchesArePending'
  BY <1>1, <1>2, <1>3 DEF IngestInv, IngestTypeOK, BatchesArePending
<1>8. StoredBeforeAck'
  BY Zenon, <1>1, <1>2, <1>3, <1>4 DEF IngestInv, StoredBeforeAck
<1> QED
  BY Zenon, <1>5, <1>6, <1>7, <1>8 DEF IngestInv

\* What leaves the rows alone: the handler, a rolled back batch, the clock, a
\* release and the refresh queue.
LEMMA QuietIngestInv ==
    ASSUME IngestInv, row' = row,
           \/ UNCHANGED batch
           \/ \E p \in Dispatchers : batch' = [batch EXCEPT ![p] = {}],
           \/ UNCHANGED <<request, acked>>
           \/ \E g \in Guids : Receive(g) \/ Acknowledge(g) \/ DropRequest(g)
    PROVE  IngestInv'
<1>1. /\ request' \in [Guids -> {"none", "received", "stored"}] /\ acked' \subseteq Guids
      /\ \A g \in Guids : request'[g] = "stored" \/ g \in acked' =>
                          request[g] = "stored" \/ g \in acked
  BY Zenon DEF IngestInv, IngestTypeOK, Receive, Acknowledge, DropRequest
<1>2. batch' \in [Dispatchers -> SUBSET Guids] /\ \A p \in Dispatchers : batch'[p] \subseteq batch[p]
  BY Zenon DEF IngestInv, IngestTypeOK
<1>3. IngestTypeOK'
  BY Zenon, <1>1, <1>2 DEF IngestInv, IngestTypeOK
<1>4. BatchesArePending'
  BY Zenon, <1>2 DEF IngestInv, BatchesArePending
<1>5. UnprocessedHasPayload' /\ StoredBeforeAck'
  BY Zenon, <1>1 DEF IngestInv, UnprocessedHasPayload, StoredBeforeAck
<1> QED
  BY Zenon, <1>3, <1>4, <1>5 DEF IngestInv

\* Every step preserves the invariant.
LEMMA IngestStepInv ==
    ASSUME IngestInv, [IngestNext]_ingestVars
    PROVE  IngestInv'
<1>1. CASE \E g \in Guids : InsertWebhookDelivery(g) \/ RequeueParked(g) \/ PrunePayload(g)
  BY Zenon, <1>1, RowInv DEF InsertWebhookDelivery, RequeueParked, PrunePayload
<1>2. CASE \E g \in Guids : Receive(g) \/ Acknowledge(g) \/ DropRequest(g)
  BY Zenon, <1>2, QuietIngestInv DEF Receive, Acknowledge, DropRequest
<1>3. CASE \E p \in Dispatchers : RollbackBatch(p)
  BY Zenon, <1>3, QuietIngestInv DEF RollbackBatch
<1>4. CASE \E p \in Dispatchers : ClaimWebhookDeliveries(p) \/ CommitBatch(p)
  BY Zenon, <1>4, ClaimInv, CommitInv
<1>5. CASE UNCHANGED <<request, acked, row, batch>>
  BY Zenon, <1>5, QuietIngestInv
<1>6. CASE DeployClassifier \/ (\E g \in Guids : BackoffElapses(g))
  BY Zenon, <1>5, <1>6 DEF DeployClassifier, BackoffElapses
<1>7. CASE \/ Reconciling
           \/ \E v \in Variants : QueueStep(Start(v) \/ CompleteRefresh(v))
           \/ \E v \in Variants : QueueStep(RetryJob(v) \/ DiscardJob(v))
  BY Zenon, <1>5, <1>7 DEF Reconciling, QueueStep
<1>8. CASE UNCHANGED ingestVars
  BY Zenon, <1>5, <1>8 DEF ingestVars
<1> QED
  BY Zenon, <1>1, <1>2, <1>3, <1>4, <1>6, <1>7, <1>8 DEF IngestNext, Serving

\* C-I1, C-I5: for any number of deliveries, requests, dispatchers and rolled
\* back batches, an acknowledged delivery is stored and has its payload for
\* as long as it can be classified or requeued.
THEOREM AcknowledgedStaysReplayable == IngestSpec => []AckedIsReplayable
<1>1. IngestInit => IngestInv
  BY Zenon, IngestInitInv
<1>2. IngestInv /\ [IngestNext]_ingestVars => IngestInv'
  BY Zenon, IngestStepInv
<1>3. IngestInv => AckedIsReplayable
  BY Zenon DEF IngestInv, IngestTypeOK, UnprocessedHasPayload, StoredBeforeAck, AckedIsReplayable
<1> QED
  BY <1>1, <1>2, <1>3, PTL DEF IngestSpec

-----------------------------------------------------------------------------
(* The queue behind the dispatchers                                        *)

\* Every step of the handler, the dispatchers and the workers is a step of the
\* refresh queue or leaves it alone: the composition implements RefreshQueue,
\* and the queue's theorems hold of it.
THEOREM IngestImplementsQueue == IngestSpec => QueueSpec
<1>1. IngestInit => QueueInit
  BY Zenon DEF IngestInit
<1>2. [IngestNext]_ingestVars => [QueueNext]_queueVars
  <2> SUFFICES ASSUME [IngestNext]_ingestVars PROVE [QueueNext]_queueVars
    BY Zenon
  <2>1. CASE \E p \in Dispatchers : CommitBatch(p)
    BY Zenon, <2>1 DEF CommitBatch, QueueNext
  <2>2. CASE \E v \in Variants : QueueStep(Start(v) \/ CompleteRefresh(v))
    BY Zenon, <2>2 DEF QueueStep, QueueNext
  <2>3. CASE \E v \in Variants : QueueStep(RetryJob(v) \/ DiscardJob(v))
    BY Zenon, <2>3 DEF QueueStep, QueueNext
  <2>4. CASE Reconciling
    BY Zenon, <2>4 DEF Reconciling, QueueStep, QueueNext
  <2>5. CASE \E g \in Guids :
               \/ Receive(g) \/ InsertWebhookDelivery(g) \/ Acknowledge(g)
               \/ DropRequest(g) \/ RequeueParked(g) \/ PrunePayload(g) \/ BackoffElapses(g)
    BY Zenon, <2>5 DEF Receive, InsertWebhookDelivery, Acknowledge, DropRequest, RequeueParked,
                PrunePayload, BackoffElapses
  <2>6. CASE DeployClassifier \/ UNCHANGED ingestVars
             \/ \E p \in Dispatchers : RollbackBatch(p) \/ ClaimWebhookDeliveries(p)
    BY Zenon, <2>6 DEF DeployClassifier, ingestVars, RollbackBatch, ClaimWebhookDeliveries
  <2> QED
    BY Zenon, <2>1, <2>2, <2>3, <2>4, <2>5, <2>6 DEF IngestNext, Serving
<1> QED
  BY <1>1, <1>2, PTL DEF IngestSpec, QueueSpec

-----------------------------------------------------------------------------
(* Stacks and pull requests.  A write is never older than the row, because *)
(* what was fetched before the row's last write is overtaken; so a row     *)
(* with a validator always shows what the validator stands for.            *)

\* Induction over the natural numbers, in the form of a least element.
LEMMA HasLeast ==
  ASSUME NEW S, S \subseteq Nat, S # {}
  PROVE  \E m \in S : \A f \in S : ~(f < m)
<1>1. PICK R : R = OpToRel(<, Nat)
  BY Zenon
<1>2. IsWellFoundedOn(R, Nat)
  BY <1>1, NatLessThanWellFounded, Zenon
<1>3. PICK m \in S : \A f \in S : ~(<<f, m>> \in R)
  BY <1>2, WFMin, Zenon
<1>4. \A x, y \in Nat : x < y => <<x, y>> \in R
  BY <1>1 DEF OpToRel
<1> QED
  BY <1>3, <1>4, Zenon

StackReps == [at : Nat, entries : Seq(PullRequests \X Int \X Nat)]
Refs == {StackRef(l, p) : l \in Layouts, p \in PullRequests}
Places == {<<ref[1], ref[2]>> : ref \in Refs} \cup {<<None, None>>}
PullReps == [at : Nat, ref : Refs, sha : Int]
Responses == [code : {0, 200, 304, 404}, rep : StackReps \cup PullReps \cup {<<>>},
              overtaken : BOOLEAN]
States == {"none", "live", "dead"}
CachedStacks == [state : States, entries : Seq(PullRequests \X Int), at : Nat,
              etag : StackReps \cup {<<>>}]
CachedPulls == [state : States, in : Places, sha : Int, at : Nat, etag : PullReps \cup {<<>>}]
PushHints == [pull : PullRequests, before : Int, after : Int]

PullJobs(p) == {PullJob(p), ResolveJob(p)}

MembershipTypeOK ==
    /\ layout \in Layouts /\ changes \in Nat
    /\ sha \in [PullRequests -> Int]
    /\ stamp \in [Entities -> Nat] /\ \A e \in Entities : stamp[e] <= changes
    /\ pushes \in SUBSET PushHints
    /\ stackRow \in [Stacks -> CachedStacks]
    /\ pullRow \in [PullRequests -> CachedPulls]
    /\ running \in [Jobs -> Responses]
    /\ \A s \in Stacks : running[StackJob(s)].code # 0 => running[StackJob(s)].rep \in StackReps
    /\ \A p \in PullRequests : \A j \in PullJobs(p) :
         running[j].code # 0 => running[j].rep \in PullReps

RecordAt(rep) == Record(rep).at

StackOK(s) ==
    LET cachedRow == stackRow[s]
        r == running[StackJob(s)]
    IN  /\ cachedRow.etag # <<>> => cachedRow.state = "live" /\ cachedRow.entries = Record(cachedRow.etag).entries
        /\ cachedRow.at <= RecordAt(StackRep(s))
        /\ r.code # 0 => RecordAt(r.rep) \in Nat /\ RecordAt(r.rep) <= RecordAt(StackRep(s))
        /\ r.code # 0 /\ ~r.overtaken => cachedRow.at <= RecordAt(r.rep)
        /\ r.code = 304 /\ ~r.overtaken => cachedRow.etag = r.rep

PullOK(p) ==
    LET cachedRow == pullRow[p]
    IN  /\ cachedRow.etag # <<>> => cachedRow.state = "live" /\ cachedRow.in = PullRecord(cachedRow.etag).in
                              /\ cachedRow.sha = PullRecord(cachedRow.etag).sha
        /\ cachedRow.at <= stamp[p]
        /\ \A j \in PullJobs(p) :
             running[j].code # 0 => /\ running[j].rep.at <= stamp[p]
                                    /\ ~running[j].overtaken => cachedRow.at <= running[j].rep.at

MembershipInv ==
    /\ MembershipTypeOK
    /\ \A s \in Stacks : StackOK(s)
    /\ \A p \in PullRequests : PullOK(p)

\* A bounded nonempty set of naturals has a greatest element.
LEMMA BoundedHasMax ==
  ASSUME NEW S \in SUBSET Nat, S # {}, NEW b \in Nat, \A x \in S : x <= b
  PROVE  Max(S) \in S /\ \A x \in S : x <= Max(S)
<1>1. \E m \in S : \A x \in S : m >= x
  <2> DEFINE T == {b - x : x \in S}
  <2>1. T \in SUBSET Nat /\ T # {}
    <3>1. \A x \in S : b - x \in Nat
      OBVIOUS
    <3> QED
      BY <3>1, Zenon
  <2>2. PICK t \in T : \A u \in T : ~(u < t)
    <3> HIDE DEF T
    <3> QED
      BY <2>1, HasLeast, Zenon
  <2>3. PICK m \in S : t = b - m
    BY Zenon
  <2>4. ASSUME NEW x \in S PROVE m >= x
    <3>1. ~(b - x < t)
      BY <2>2, Zenon
    <3> QED
      BY <2>3, <3>1
  <2> QED
    BY <2>4, Zenon
<1>2. PICK M : M = Max(S)
  BY Zenon
<1>3. M \in S /\ \A x \in S : M >= x
  BY <1>1, <1>2, Zenon DEF Max
<1> QED
  BY <1>2, <1>3

\* A response is no empty tuple.
LEMMA BodyIsNotEmpty == ASSUME NEW a, NEW e PROVE [at |-> a, entries |-> e] # <<>>
  OBVIOUS

\* Nor is the response of a pull request.
LEMMA PullBodyIsNotEmpty ==
  ASSUME NEW a, NEW r, NEW h PROVE [at |-> a, ref |-> r, sha |-> h] # <<>>
  OBVIOUS

\* A stack row with fields of the right types is a row.
LEMMA RowIsTyped ==
  ASSUME NEW A, NEW B, NEW C, NEW D, NEW state \in A, NEW entries \in B, NEW at \in C, NEW etag \in D
  PROVE  [state |-> state, etag |-> etag, entries |-> entries, at |-> at]
           \in [state : A, entries : B, at : C, etag : D]
  OBVIOUS

\* GetStack's body and the stamps its updated_at is taken from.
StackBody(l, h, t, s) == [at |-> t[s], entries |-> [i \in DOMAIN l[s] |-> <<l[s][i], h[l[s][i]], t[l[s][i]]>>]]
Stamps(l, t, s) == {t[s]} \cup {t[l[s][i]] : i \in DOMAIN l[s]}

\* A stack response is stamped with the newest of its members.
LEMMA BodyIsTyped ==
  ASSUME NEW l \in Layouts, NEW h \in [PullRequests -> Int], NEW t \in [Entities -> Nat],
         NEW n \in Nat, \A e \in Entities : t[e] <= n, NEW s \in Stacks
  PROVE  /\ StackBody(l, h, t, s) \in StackReps
         /\ RecordAt(StackBody(l, h, t, s)) = Max(Stamps(l, t, s))
         /\ Stamps(l, t, s) \in SUBSET Nat /\ \A x \in Stamps(l, t, s) : x <= n
         /\ Max(Stamps(l, t, s)) \in Stamps(l, t, s)
         /\ \A x \in Stamps(l, t, s) : x <= Max(Stamps(l, t, s))
<1>1. PICK q : q = l[s]
  BY Zenon
<1>2. q \in Seq(PullRequests)
  BY <1>1, StackConstants, Zenon
<1>3. s \in Entities /\ \A p \in PullRequests : p \in Entities
  BY Zenon DEF Entities
<1>4. \A i \in DOMAIN q : q[i] \in PullRequests
  BY <1>2
<1>5. PICK f : f = [i \in DOMAIN q |-> <<q[i], h[q[i]], t[q[i]]>>]
  BY Zenon
<1>6. f \in Seq(PullRequests \X Int \X Nat)
  <2>1. \A i \in DOMAIN q : <<q[i], h[q[i]], t[q[i]]>> \in PullRequests \X Int \X Nat
    BY <1>3, <1>4
  <2>2. PICK R : R = PullRequests \X Int \X Nat
    BY Zenon
  <2>3. DOMAIN q = 1 .. Len(q) /\ Len(q) \in Nat
    BY <1>2
  <2>4. f \in [1 .. Len(q) -> R]
    BY <1>5, <2>1, <2>2, <2>3, Zenon
  <2>5. f \in Seq(R)
    BY SMTT(60), <2>3, <2>4
  <2> QED
    BY <2>2, <2>5, Zenon
<1>7. StackBody(l, h, t, s) = [at |-> t[s], entries |-> f]
  BY <1>1, <1>5, Zenon DEF StackBody
<1>8. StackBody(l, h, t, s) \in StackReps
  BY <1>3, <1>6, <1>7 DEF StackReps
<1>9. StackBody(l, h, t, s).at = t[s] /\ StackBody(l, h, t, s).entries = f
  BY <1>7
<1>10. RecordAt(StackBody(l, h, t, s)) = Max({t[s]} \cup {f[i][3] : i \in DOMAIN f})
  BY <1>9 DEF RecordAt, Record
<1>11. {f[i][3] : i \in DOMAIN f} = {t[q[i]] : i \in DOMAIN q}
  BY <1>5
<1>12. RecordAt(StackBody(l, h, t, s)) = Max(Stamps(l, t, s))
  BY <1>1, <1>10, <1>11, Zenon DEF Stamps
<1>13. Stamps(l, t, s) \in SUBSET Nat /\ Stamps(l, t, s) # {} /\ \A x \in Stamps(l, t, s) : x <= n
  BY <1>1, <1>3, <1>4, Zenon DEF Stamps
<1> QED
  BY <1>8, <1>12, <1>13, BoundedHasMax, Zenon

\* A response keeps what it carries, or is gone.
Carried(j) ==
    running'[j].code # 0 => /\ running'[j].code = running[j].code
                            /\ running'[j].rep = running[j].rep
                            /\ running[j].overtaken => running'[j].overtaken
AllCarried == running' \in [Jobs -> Responses] /\ \A j \in Jobs : Carried(j)

\* The jobs of a stack and of a pull request.
LEMMA JobNames ==
  ASSUME NEW s \in Stacks, NEW p \in PullRequests
  PROVE  /\ StackJob(s) \in Jobs /\ StackJob(s)[1] = "stack" /\ StackJob(s)[2] = s
         /\ PullJob(p) \in Jobs /\ PullJob(p)[1] # "stack" /\ PullJob(p)[2] = p
         /\ ResolveJob(p) \in Jobs /\ ResolveJob(p)[1] # "stack" /\ ResolveJob(p)[2] = p
         /\ s # p
<1>1. StackJob(s) \in Jobs /\ PullJob(p) \in Jobs /\ ResolveJob(p) \in Jobs
  BY Zenon DEF Jobs
<1> QED
  BY <1>1, StackConstants DEF StackJob, PullJob, ResolveJob

\* There are no other jobs.
LEMMA JobKinds ==
  ASSUME NEW j \in Jobs
  PROVE  \/ \E s \in Stacks : j = StackJob(s)
         \/ \E p \in PullRequests : j \in PullJobs(p)
BY Zenon DEF Jobs, PullJobs

\* What GitHub answers of a stack.
LEMMA CurrentAt ==
  ASSUME MembershipTypeOK, NEW s \in Stacks
  PROVE  StackRep(s) \in StackReps /\ RecordAt(StackRep(s)) \in Nat
<1>1. StackRep(s) = StackBody(layout, sha, stamp, s)
  BY Zenon DEF StackRep, StackBody
<1>2. /\ layout \in Layouts /\ sha \in [PullRequests -> Int] /\ stamp \in [Entities -> Nat]
      /\ changes \in Nat /\ \A e \in Entities : stamp[e] <= changes
  BY Zenon DEF MembershipTypeOK
<1>3. /\ StackBody(layout, sha, stamp, s) \in StackReps
      /\ RecordAt(StackBody(layout, sha, stamp, s)) = Max(Stamps(layout, stamp, s))
      /\ Stamps(layout, stamp, s) \in SUBSET Nat
      /\ Max(Stamps(layout, stamp, s)) \in Stamps(layout, stamp, s)
  BY <1>2, BodyIsTyped, ZenonT(120)
<1> QED
  BY <1>1, <1>3, Zenon

\* A step of a job keeps the types.
LEMMA TypesStay ==
  ASSUME MembershipTypeOK, AllCarried,
         UNCHANGED <<layout, sha, stamp, changes>>, pushes' \subseteq pushes,
         stackRow' \in [Stacks -> CachedStacks],
         pullRow' \in [PullRequests -> CachedPulls]
  PROVE  MembershipTypeOK'
<1>1. pushes' \in SUBSET PushHints
  BY Zenon DEF MembershipTypeOK
<1>2. \A s \in Stacks : running'[StackJob(s)].code # 0 => running'[StackJob(s)].rep \in StackReps
  BY Zenon DEF MembershipTypeOK, AllCarried, Carried, Jobs
<1>3. \A p \in PullRequests : \A j \in PullJobs(p) :
         running'[j].code # 0 => running'[j].rep \in PullReps
  BY ZenonT(120) DEF MembershipTypeOK, AllCarried, Carried, Jobs, PullJobs
<1> QED
  BY <1>1, <1>2, <1>3, Zenon DEF MembershipTypeOK, AllCarried

\* A stack row that is not written keeps its invariant as GitHub moves on.
LEMMA StackStays ==
  ASSUME MembershipTypeOK, NEW s \in Stacks, StackOK(s), Carried(StackJob(s)),
         running'[StackJob(s)].overtaken \in BOOLEAN, running[StackJob(s)].overtaken \in BOOLEAN,
         stackRow'[s] = stackRow[s], RecordAt(StackRep(s)') \in Nat,
         RecordAt(StackRep(s)) <= RecordAt(StackRep(s)')
  PROVE  StackOK(s)'
<1>1. PICK a, b, c, r, k, v :
          /\ a = RecordAt(StackRep(s)) /\ b = RecordAt(StackRep(s)') /\ c = stackRow[s]
          /\ r = running[StackJob(s)] /\ k = running'[StackJob(s)] /\ v = c.at
  BY Zenon
<1>2. PICK z : z = RecordAt(r.rep)
  BY Zenon
<1>3. a \in Nat /\ b \in Nat /\ a <= b /\ v \in Nat
  BY Zenon, <1>1, CurrentAt DEF MembershipTypeOK, CachedStacks
<1>4. /\ c.etag # <<>> => c.state = "live" /\ c.entries = Record(c.etag).entries
      /\ v <= a
      /\ r.code # 0 => z \in Nat /\ z <= a
      /\ r.code # 0 /\ ~r.overtaken => v <= z
      /\ r.code = 304 /\ ~r.overtaken => c.etag = r.rep
  BY <1>1, <1>2, ZenonT(120) DEF StackOK
<1>5. k.code # 0 => k.code = r.code /\ k.rep = r.rep /\ (r.overtaken => k.overtaken)
  BY <1>1, Zenon DEF Carried
<1>6. v <= b /\ (r.code # 0 => z <= b)
  BY <1>3, <1>4
<1>7. /\ c.etag # <<>> => c.state = "live" /\ c.entries = Record(c.etag).entries
      /\ v <= b
      /\ k.code # 0 => RecordAt(k.rep) \in Nat /\ RecordAt(k.rep) <= b
      /\ k.code # 0 /\ ~k.overtaken => v <= RecordAt(k.rep)
      /\ k.code = 304 /\ ~k.overtaken => c.etag = k.rep
  <2>1. 304 # 0
    OBVIOUS
  <2> QED
    BY <1>2, <1>4, <1>5, <1>6, <2>1, ZenonT(120)
<1> QED
  BY <1>1, <1>7, Zenon DEF StackOK

\* So does a pull request row.
LEMMA PullStays ==
  ASSUME MembershipTypeOK, NEW p \in PullRequests, PullOK(p), \A j \in PullJobs(p) : Carried(j),
         pullRow'[p] = pullRow[p], stamp'[p] \in Nat, stamp[p] <= stamp'[p]
  PROVE  PullOK(p)'
<1>1. PICK a, b, c : a = stamp[p] /\ b = stamp'[p] /\ c = pullRow[p]
  BY Zenon
<1>2. a \in Nat /\ b \in Nat /\ a <= b /\ c.at \in Nat
  BY <1>1, Zenon DEF MembershipTypeOK, Entities, CachedPulls
<1>3. /\ c.etag # <<>> => c.state = "live" /\ c.in = PullRecord(c.etag).in
                          /\ c.sha = PullRecord(c.etag).sha
      /\ c.at <= a
      /\ \A j \in PullJobs(p) : running[j].code # 0 =>
           /\ running[j].rep.at <= a /\ (~running[j].overtaken => c.at <= running[j].rep.at)
  BY <1>1, Zenon DEF PullOK
<1>4. c.at <= b
  BY <1>2, <1>3
<1>5. ASSUME NEW j \in PullJobs(p), running'[j].code # 0
      PROVE  running'[j].rep.at <= b /\ (~running'[j].overtaken => c.at <= running'[j].rep.at)
  <2>1. /\ running'[j].code = running[j].code /\ running'[j].rep = running[j].rep
        /\ running[j].overtaken => running'[j].overtaken
    BY <1>5, Zenon DEF Carried
  <2>2. running[j].code # 0 /\ running[j].rep \in PullReps
    BY <1>5, <2>1, Zenon DEF MembershipTypeOK
  <2>3. PICK z : z = running[j].rep.at
    BY Zenon
  <2>4. z \in Nat /\ z <= a /\ (~running[j].overtaken => c.at <= z)
    BY <1>3, <2>2, <2>3 DEF PullReps
  <2>5. z <= b
    BY <1>2, <2>4
  <2> QED
    BY <2>1, <2>3, <2>4, <2>5, Zenon
<1> QED
  BY <1>1, <1>3, <1>4, <1>5, Zenon DEF PullOK

\* A row is written: what is still under way for it is overtaken.
LEMMA StackIsWritten ==
  ASSUME MembershipTypeOK, NEW s \in Stacks, StackOK(s), Carried(StackJob(s)),
         running'[StackJob(s)].code # 0 => running'[StackJob(s)].overtaken,
         UNCHANGED <<layout, sha, stamp>>,
         stackRow'[s].etag # <<>> => /\ stackRow'[s].state = "live"
                                     /\ stackRow'[s].entries = Record(stackRow'[s].etag).entries,
         stackRow'[s].at <= RecordAt(StackRep(s))
  PROVE  StackOK(s)'
<1>1. StackRep(s)' = StackRep(s)
  BY Zenon DEF StackRep
<1>2. 304 # 0
  OBVIOUS
<1> QED
  BY <1>1, <1>2, ZenonT(120) DEF StackOK, Carried

\* A pull request row that is written satisfies its invariant.
LEMMA PullIsWritten ==
  ASSUME MembershipTypeOK, NEW p \in PullRequests, PullOK(p), UNCHANGED stamp,
         \A j \in PullJobs(p) : Carried(j) /\
           (running'[j].code # 0 => running'[j].overtaken \/ pullRow'[p].at = pullRow[p].at),
         pullRow'[p].etag # <<>> => /\ pullRow'[p].state = "live"
                                    /\ pullRow'[p].in = PullRecord(pullRow'[p].etag).in
                                    /\ pullRow'[p].sha = PullRecord(pullRow'[p].etag).sha,
         pullRow'[p].at <= stamp[p]
  PROVE  PullOK(p)'
BY Zenon DEF PullOK, Carried

\* A commit overtakes the other responses about the same entity.
LEMMA CommitKeeps ==
  ASSUME MembershipTypeOK, NEW j \in Jobs, Committed(j)
  PROVE  /\ AllCarried /\ running'[j].code = 0
         /\ \A k \in Jobs : k[2] = j[2] /\ running'[k].code # 0 => running'[k].overtaken
<1>0. running \in [Jobs -> Responses]
  BY Zenon DEF MembershipTypeOK
<1>1. running' = [k \in Jobs |->
                    IF k = j THEN NoResponse
                    ELSE IF k[2] = j[2] /\ running[k] # NoResponse
                    THEN [running[k] EXCEPT !.overtaken = TRUE] ELSE running[k]]
  BY Zenon DEF Committed
<1>2. NoResponse \in Responses /\ NoResponse.code = 0
  BY DEF NoResponse, Responses
<1>3. \A r \in Responses : LET o == [r EXCEPT !.overtaken = TRUE]
        IN o \in Responses /\ o.code = r.code /\ o.rep = r.rep /\ o.overtaken
  BY ZenonT(120) DEF Responses
<1>4. running' \in [Jobs -> Responses]
  BY <1>0, <1>1, <1>2, <1>3, Zenon
<1>5. ASSUME NEW k \in Jobs
      PROVE  Carried(k) /\ (k[2] = j[2] /\ running'[k].code # 0 => running'[k].overtaken)
  <2>1. running[k] \in Responses
    BY <1>0, Zenon
  <2>2. CASE k = j
    <3>1. running'[k] = NoResponse
      BY <1>1, <2>2, Zenon
    <3> QED
      BY <1>2, <3>1, Zenon DEF Carried
  <2>3. CASE k # j /\ k[2] = j[2] /\ running[k] # NoResponse
    <3>1. running'[k] = [running[k] EXCEPT !.overtaken = TRUE]
      BY <1>1, <2>3, Zenon
    <3> QED
      BY <1>3, <2>1, <3>1, Zenon DEF Carried
  <2>4. CASE k # j /\ ~(k[2] = j[2] /\ running[k] # NoResponse)
    <3>1. running'[k] = running[k]
      BY <1>1, <2>4, Zenon
    <3> QED
      BY <1>2, <2>4, <3>1, Zenon DEF Carried
  <2> QED
    BY <2>2, <2>3, <2>4, Zenon
<1>6. running'[j].code = 0
  BY <1>1, <1>2, Zenon
<1> QED
  BY <1>4, <1>5, <1>6, Zenon DEF AllCarried

\* A refresh of a stack commits the row new.
LEMMA StackCommit ==
  ASSUME MembershipInv, NEW s \in Stacks, Committed(StackJob(s)), NEW new \in CachedStacks,
         stackRow' = [stackRow EXCEPT ![s] = new],
         UNCHANGED <<layout, sha, stamp, changes, pushes, pullRow>>,
         new.etag # <<>> => new.state = "live" /\ new.entries = Record(new.etag).entries,
         new.at <= RecordAt(StackRep(s))
  PROVE  MembershipInv'
<1>0. MembershipTypeOK /\ stackRow \in [Stacks -> CachedStacks] /\ running \in [Jobs -> Responses]
  BY Zenon DEF MembershipInv, MembershipTypeOK, CachedStacks
<1>1. AllCarried /\ running'[StackJob(s)].code = 0
  BY <1>0, CommitKeeps, Zenon DEF Jobs
<1>2. stackRow' \in [Stacks -> CachedStacks] /\ stackRow'[s] = new
      /\ \A t \in Stacks : t # s => stackRow'[t] = stackRow[t]
  BY <1>0, Zenon
<1>3. MembershipTypeOK'
  BY <1>0, <1>1, <1>2, TypesStay, Zenon DEF CachedStacks, MembershipTypeOK
<1>4. ASSUME NEW t \in Stacks PROVE StackOK(t)'
  <2>0. StackJob(t) \in Jobs /\ StackOK(t) /\ Carried(StackJob(t))
    BY <1>1, Zenon DEF Jobs, MembershipInv, AllCarried
  <2>1. CASE t = s
    BY <1>0, <1>1, <1>2, <2>0, <2>1, StackIsWritten, Zenon
  <2>2. CASE t # s
    <3>1. StackRep(t)' = StackRep(t)
      BY Zenon DEF StackRep
    <3>2. RecordAt(StackRep(t)) \in Nat
      BY <1>0, CurrentAt, Zenon
    <3>3. RecordAt(StackRep(t)') \in Nat /\ RecordAt(StackRep(t)) <= RecordAt(StackRep(t)')
      BY <3>1, <3>2
    <3>4. running'[StackJob(t)].overtaken \in BOOLEAN /\ running[StackJob(t)].overtaken \in BOOLEAN
      BY <1>0, <1>1, <2>0 DEF AllCarried, Responses
    <3> QED
      BY <1>0, <1>2, <2>0, <2>2, <3>3, <3>4, StackStays, Zenon
  <2> QED
    BY <2>1, <2>2, Zenon
<1>5. ASSUME NEW p \in PullRequests PROVE PullOK(p)'
  <2>1. PullOK(p) /\ \A j \in PullJobs(p) : Carried(j)
    BY <1>1, Zenon DEF MembershipInv, AllCarried, PullJobs, Jobs
  <2>2. pullRow'[p].at = pullRow[p].at /\ pullRow'[p] = pullRow[p]
    BY Zenon
  <2> QED
    BY <1>0, <2>1, <2>2, PullIsWritten, Zenon DEF PullOK
<1> QED
  BY <1>3, <1>4, <1>5, Zenon DEF MembershipInv

\* A refresh of a pull request commits the row new.
LEMMA PullCommit ==
  ASSUME MembershipInv, NEW p \in PullRequests, NEW j \in PullJobs(p), Committed(j),
         NEW new \in CachedPulls, pullRow' = [pullRow EXCEPT ![p] = new],
         UNCHANGED <<layout, sha, stamp, changes, pushes, stackRow>>,
         new.etag # <<>> => /\ new.state = "live" /\ new.in = PullRecord(new.etag).in
                            /\ new.sha = PullRecord(new.etag).sha,
         new.at <= stamp[p]
  PROVE  MembershipInv'
<1>0. MembershipTypeOK /\ pullRow \in [PullRequests -> CachedPulls] /\ running \in [Jobs -> Responses]
      /\ j \in Jobs
  BY Zenon DEF MembershipInv, MembershipTypeOK, CachedPulls, PullJobs, Jobs
<1>1. AllCarried /\ \A k \in Jobs : k[2] = j[2] /\ running'[k].code # 0 => running'[k].overtaken
  BY <1>0, CommitKeeps, Zenon
<1>2. pullRow' \in [PullRequests -> CachedPulls] /\ pullRow'[p] = new
      /\ \A q \in PullRequests : q # p => pullRow'[q] = pullRow[q]
  BY <1>0, Zenon
<1>3. MembershipTypeOK'
  BY <1>0, <1>1, <1>2, TypesStay, Zenon DEF CachedPulls, MembershipTypeOK
<1>4. ASSUME NEW t \in Stacks PROVE StackOK(t)'
  <2>0. StackJob(t) \in Jobs /\ StackOK(t) /\ Carried(StackJob(t))
    BY <1>1, Zenon DEF Jobs, MembershipInv, AllCarried
  <2>1. StackRep(t)' = StackRep(t)
    BY Zenon DEF StackRep
  <2>2. RecordAt(StackRep(t)) \in Nat
    BY <1>0, CurrentAt, Zenon
  <2>3. RecordAt(StackRep(t)') \in Nat /\ RecordAt(StackRep(t)) <= RecordAt(StackRep(t)')
    BY <2>1, <2>2
  <2>4. running'[StackJob(t)].overtaken \in BOOLEAN /\ running[StackJob(t)].overtaken \in BOOLEAN
    BY <1>0, <1>1, <2>0 DEF AllCarried, Responses
  <2> QED
    BY <1>0, <2>0, <2>3, <2>4, StackStays, Zenon
<1>5. ASSUME NEW q \in PullRequests PROVE PullOK(q)'
  <2>1. PullOK(q) /\ \A k \in PullJobs(q) : Carried(k) /\ k \in Jobs
    BY <1>1, Zenon DEF MembershipInv, AllCarried, PullJobs, Jobs
  <2>2. CASE q = p
    <3>1. \A k \in PullJobs(p) : k[2] = j[2]
      BY DEF PullJobs, PullJob, ResolveJob
    <3> QED
      BY <1>0, <1>1, <1>2, <2>1, <2>2, <3>1, PullIsWritten, Zenon
  <2>3. CASE q # p
    BY <1>0, <1>2, <2>1, <2>3, PullIsWritten, Zenon DEF PullOK
  <2> QED
    BY <2>2, <2>3, Zenon
<1> QED
  BY <1>3, <1>4, <1>5, Zenon DEF MembershipInv

\* The rows and GitHub stay; responses are taken away or overtaken.
LEMMA ResponsesGo ==
  ASSUME MembershipInv, AllCarried, UNCHANGED <<layout, sha, stamp, changes, stackRow, pullRow>>,
         pushes' \subseteq pushes
  PROVE  MembershipInv'
<1>0. MembershipTypeOK /\ running \in [Jobs -> Responses]
  BY Zenon DEF MembershipInv, MembershipTypeOK
<1>1. MembershipTypeOK'
  BY <1>0, TypesStay, Zenon DEF MembershipTypeOK
<1>2. ASSUME NEW t \in Stacks PROVE StackOK(t)'
  <2>0. StackJob(t) \in Jobs /\ StackOK(t) /\ Carried(StackJob(t))
    BY Zenon DEF Jobs, MembershipInv, AllCarried
  <2>1. StackRep(t)' = StackRep(t)
    BY Zenon DEF StackRep
  <2>2. RecordAt(StackRep(t)) \in Nat
    BY <1>0, CurrentAt, Zenon
  <2>3. RecordAt(StackRep(t)') \in Nat /\ RecordAt(StackRep(t)) <= RecordAt(StackRep(t)')
    BY <2>1, <2>2
  <2>4. running'[StackJob(t)].overtaken \in BOOLEAN /\ running[StackJob(t)].overtaken \in BOOLEAN
    BY <1>0, <2>0 DEF AllCarried, Responses
  <2> QED
    BY <1>0, <2>0, <2>3, <2>4, StackStays, Zenon
<1>3. ASSUME NEW q \in PullRequests PROVE PullOK(q)'
  <2>1. PullOK(q) /\ \A k \in PullJobs(q) : Carried(k)
    BY Zenon DEF MembershipInv, AllCarried, PullJobs, Jobs
  <2> QED
    BY <1>0, <2>1, PullIsWritten, Zenon DEF PullOK
<1> QED
  BY <1>1, <1>2, <1>3, Zenon DEF MembershipInv

\* GitHub's stamps only grow, and a stack's updated_at with them.
LEMMA StacksMove ==
  ASSUME MembershipInv, NEW l \in Layouts, NEW h \in [PullRequests -> Int],
         NEW t \in [Entities -> Nat], NEW n \in Nat, NEW P \in SUBSET PushHints,
         layout' = l, sha' = h, stamp' = t, changes' = n, pushes' = P,
         \A e \in Entities : stamp[e] <= t[e] /\ t[e] <= n,
         \A s \in Stacks : l[s] # layout[s] => changes <= t[s],
         UNCHANGED <<stackRow, pullRow, running>>
  PROVE  MembershipInv'
<1>0. /\ layout \in Layouts /\ sha \in [PullRequests -> Int] /\ stamp \in [Entities -> Nat]
      /\ changes \in Nat /\ (\A e \in Entities : stamp[e] <= changes)
      /\ MembershipTypeOK /\ running \in [Jobs -> Responses]
  BY Zenon DEF MembershipInv, MembershipTypeOK
<1>1. MembershipTypeOK'
  BY <1>0, Zenon DEF MembershipTypeOK
<1>2. ASSUME NEW s \in Stacks PROVE StackOK(s)'
  <2>1. StackRep(s) = StackBody(layout, sha, stamp, s) /\ StackRep(s)' = StackBody(l, h, t, s)
    BY Zenon DEF StackRep, StackBody
  <2>2. PICK A, B : A = Stamps(layout, stamp, s) /\ B = Stamps(l, t, s)
    BY Zenon
  <2>3. /\ RecordAt(StackRep(s)) = Max(A) /\ A \in SUBSET Nat /\ Max(A) \in A
        /\ \A x \in A : x <= changes
    <3>1. LET b == StackBody(layout, sha, stamp, s)
              S == Stamps(layout, stamp, s)
          IN  RecordAt(b) = Max(S) /\ S \in SUBSET Nat /\ Max(S) \in S /\ \A x \in S : x <= changes
      BY <1>0, BodyIsTyped, ZenonT(120)
    <3> QED
      BY <2>1, <2>2, <3>1, Zenon
  <2>4. /\ RecordAt(StackRep(s)') = Max(B) /\ B \in SUBSET Nat /\ Max(B) \in B
        /\ \A x \in B : x <= Max(B)
    <3>1. LET b == StackBody(l, h, t, s)
              S == Stamps(l, t, s)
          IN  RecordAt(b) = Max(S) /\ S \in SUBSET Nat /\ Max(S) \in S /\ \A x \in S : x <= Max(S)
      BY BodyIsTyped, ZenonT(120)
    <3> QED
      BY <2>1, <2>2, <3>1, Zenon
  <2>5. PICK a \in A, b \in B : a = Max(A) /\ b = Max(B)
    BY <2>3, <2>4, Zenon
  <2>6. s \in Entities /\ \A i \in DOMAIN layout[s] : layout[s][i] \in Entities
    <3>1. layout[s] \in Seq(PullRequests)
      BY <1>0, StackConstants, Zenon
    <3>2. \A i \in DOMAIN layout[s] : layout[s][i] \in PullRequests
      BY <3>1
    <3> QED
      BY <3>2, Zenon DEF Entities
  <2>7. a <= b
    <3>1. CASE l[s] # layout[s]
      <4>1. t[s] \in B /\ t[s] \in Nat /\ changes <= t[s] /\ a <= changes
        BY <2>2, <2>3, <2>5, <2>6, <3>1, Zenon DEF Stamps
      <4>2. t[s] <= b
        BY <2>4, <2>5, <4>1, Zenon
      <4>3. a \in Nat /\ b \in Nat /\ changes \in Nat
        BY <1>0, <2>3, <2>4, Zenon
      <4> QED
        BY <4>1, <4>2, <4>3
    <3>2. CASE l[s] = layout[s]
      <4>1. PICK e \in Entities : a = stamp[e] /\ t[e] \in B
        BY <2>2, <2>3, <2>5, <2>6, <3>2, Zenon DEF Stamps
      <4>2. stamp[e] <= t[e] /\ t[e] <= b /\ t[e] \in Nat /\ stamp[e] \in Nat
        BY <1>0, <2>4, <2>5, <4>1, Zenon
      <4>3. a \in Nat /\ b \in Nat
        BY <2>3, <2>4, Zenon
      <4> QED
        BY <4>1, <4>2, <4>3
    <3> QED
      BY <3>1, <3>2, Zenon
  <2>8. RecordAt(StackRep(s)') \in Nat /\ RecordAt(StackRep(s)) <= RecordAt(StackRep(s)')
    BY <2>3, <2>4, <2>5, <2>7, Zenon
  <2>9. StackOK(s) /\ Carried(StackJob(s))
    BY Zenon DEF MembershipInv, Carried
  <2>10. running'[StackJob(s)].overtaken \in BOOLEAN /\ running[StackJob(s)].overtaken \in BOOLEAN
    <3>1. StackJob(s) \in Jobs
      BY Zenon DEF Jobs
    <3> QED
      BY <1>0, <3>1 DEF Responses
  <2> QED
    BY <1>0, <2>8, <2>9, <2>10, StackStays, Zenon
<1>3. ASSUME NEW q \in PullRequests PROVE PullOK(q)'
  <2>1. PullOK(q) /\ \A k \in PullJobs(q) : Carried(k)
    BY Zenon DEF MembershipInv, Carried
  <2>2. q \in Entities /\ stamp'[q] \in Nat /\ stamp[q] <= stamp'[q]
    BY Zenon DEF Entities
  <2> QED
    BY <1>0, <2>1, <2>2, PullStays, Zenon
<1> QED
  BY <1>1, <1>2, <1>3, Zenon DEF MembershipInv

\* Changes at GitHub and the hints of them preserve the invariant.
LEMMA GitHubStep ==
  ASSUME MembershipInv,
         \/ \E l \in Layouts : Restack(l)
         \/ \E p \in Pushed : Push(p)
         \/ \E e \in Hideable : Hide(e) \/ Show(e)
         \/ Sweep \/ \E p \in PullRequests, l \in {layout, settled} : Deliver(p, StackRef(l, p))
         \/ \E p \in Pushed : RefreshBranch(p)
         \/ UNCHANGED membershipVars
  PROVE  MembershipInv'
<1> USE DEF githubVars, rowVars
<1>0. /\ layout \in Layouts /\ sha \in [PullRequests -> Int] /\ stamp \in [Entities -> Nat]
      /\ changes \in Nat /\ (\A e \in Entities : stamp[e] <= changes)
      /\ pushes \in SUBSET PushHints
  BY Zenon DEF MembershipInv, MembershipTypeOK
<1>1. ASSUME NEW l \in Layouts, Restack(l)
      PROVE  MembershipInv'
  <2>1. /\ layout' = l /\ changes' = changes + 1
        /\ stamp' = [e \in Entities |-> IF e \in Stacks /\ l[e] # layout[e]
                                        THEN changes + 1 ELSE stamp[e]]
        /\ UNCHANGED <<sha, pushes, stackRow, pullRow, running>>
    BY <1>1, Zenon DEF Restack, Change
  <2>2. PICK t, n : stamp' = t /\ changes' = n
    BY Zenon
  <2>3. t \in [Entities -> Nat] /\ n \in Nat
    BY <1>0, <2>1, <2>2
  <2>4. \A e \in Entities : stamp[e] <= t[e] /\ t[e] <= n
    BY <1>0, <2>1, <2>2
  <2>5. \A s \in Stacks : l[s] # layout[s] => changes <= t[s]
    BY <1>0, <2>1, <2>2 DEF Entities
  <2> QED
    <3>1. /\ layout' = l /\ sha' = sha /\ stamp' = t /\ changes' = n /\ pushes' = pushes
          /\ UNCHANGED <<stackRow, pullRow, running>>
      BY <2>1, <2>2, Zenon
    <3> QED
      BY <1>0, <2>3, <2>4, <2>5, <3>1, StacksMove, Zenon
<1>2. ASSUME NEW p \in Pushed, Push(p)
      PROVE  MembershipInv'
  <2>1. /\ sha' = [sha EXCEPT ![p] = 1 - @] /\ changes' = changes + 1
        /\ stamp' = [stamp EXCEPT ![p] = changes + 1]
        /\ pushes' = pushes \cup {[pull |-> p, before |-> sha[p], after |-> 1 - sha[p]]}
        /\ UNCHANGED <<layout, stackRow, pullRow, running>>
    BY <1>2, Zenon DEF Push, Change
  <2>2. p \in PullRequests /\ p \in Entities
    BY StackConstants, Zenon DEF Entities
  <2>3. PICK h, t, n, P : sha' = h /\ stamp' = t /\ changes' = n /\ pushes' = P
    BY Zenon
  <2>4. t \in [Entities -> Nat] /\ n \in Nat /\ h \in [PullRequests -> Int]
    BY <1>0, <2>1, <2>2, <2>3
  <2>5. \A e \in Entities : stamp[e] <= t[e] /\ t[e] <= n
    BY <1>0, <2>1, <2>2, <2>3
  <2>6. P \in SUBSET PushHints
    <3>1. [pull |-> p, before |-> sha[p], after |-> 1 - sha[p]] \in PushHints
      BY <1>0, <2>2 DEF PushHints
    <3> QED
      BY <1>0, <2>1, <2>3, <3>1, Zenon
  <2> QED
    <3>1. /\ layout' = layout /\ sha' = h /\ stamp' = t /\ changes' = n /\ pushes' = P
          /\ UNCHANGED <<stackRow, pullRow, running>>
      BY <2>1, <2>3, Zenon
    <3>2. \A s \in Stacks : layout[s] # layout[s] => changes <= t[s]
      BY Zenon
    <3> QED
      BY <1>0, <2>4, <2>5, <2>6, <3>1, <3>2, StacksMove, Zenon
<1>3. CASE \/ \E e \in Hideable : Hide(e) \/ Show(e)
           \/ Sweep \/ \E p \in PullRequests, l \in {layout, settled} : Deliver(p, StackRef(l, p))
           \/ \E p \in Pushed : RefreshBranch(p)
           \/ UNCHANGED membershipVars
  <2>1. /\ UNCHANGED <<layout, sha, stamp, pushes, stackRow, pullRow, running>>
        /\ changes' = changes + 1 \/ changes' = changes
    BY <1>3, Zenon DEF Hide, Show, Sweep, Enqueue, Deliver, RefreshBranch, Change, membershipVars
  <2>2. PICK n : n = changes'
    BY Zenon
  <2>3. n \in Nat /\ \A e \in Entities : stamp[e] <= stamp[e] /\ stamp[e] <= n
    BY <1>0, <2>1, <2>2
  <2> QED
    BY <1>0, <2>1, <2>2, <2>3, StacksMove, Zenon
<1> QED
  BY <1>1, <1>2, <1>3, Zenon

\* The row a stack response is stored as.
LEMMA RecordIsRow ==
  ASSUME NEW rep \in StackReps, RecordAt(rep) \in Nat
  PROVE  /\ Record(rep) \in CachedStacks /\ Record(rep).etag = rep /\ Record(rep).state = "live"
         /\ Record(rep).at = RecordAt(rep)
<1>1. PICK q, R, T : q = rep.entries /\ R = PullRequests \X Int \X Nat /\ T = PullRequests \X Int
  BY Zenon
<1>2. q \in Seq(R)
  BY <1>1 DEF StackReps
<1>3. DOMAIN q = 1 .. Len(q) /\ Len(q) \in Nat /\ \A i \in DOMAIN q : q[i] \in R
  BY <1>2
<1>4. \A i \in DOMAIN q : <<q[i][1], q[i][2]>> \in T
  BY <1>1, <1>3
<1>5. PICK f : f = [i \in DOMAIN q |-> <<q[i][1], q[i][2]>>]
  BY Zenon
<1>6. f \in [1 .. Len(q) -> T]
  BY <1>3, <1>4, <1>5, Zenon
<1>7. f \in Seq(T)
  BY <1>3, <1>6
<1>8. PICK a : a = RecordAt(rep)
  BY Zenon
<1>9. Record(rep) = [state |-> "live", etag |-> rep, entries |-> f, at |-> a]
  <2>1. PICK m : m = Max({rep.at} \cup {q[i][3] : i \in DOMAIN q})
    BY Zenon
  <2>2. Record(rep) = [state |-> "live", etag |-> rep, entries |-> f, at |-> m]
    BY <1>1, <1>5, <2>1, Zenon DEF Record
  <2>3. Record(rep).at = m
    BY <2>2
  <2> QED
    BY <1>8, <2>2, <2>3, Zenon DEF RecordAt
<1>10. f \in Seq(PullRequests \X Int) /\ a \in Nat
  BY <1>1, <1>7, <1>8, Zenon
<1>11. [state |-> "live", etag |-> rep, entries |-> f, at |-> a] \in CachedStacks
  <2>1. "live" \in States /\ rep \in StackReps \cup {<<>>}
    BY Zenon DEF States
  <2> QED
    BY <1>10, <2>1, RowIsTyped, Zenon DEF CachedStacks
<1>12. Record(rep).etag = rep /\ Record(rep).state = "live" /\ Record(rep).at = a
  BY <1>9
<1> QED
  BY <1>8, <1>9, <1>11, <1>12, Zenon

\* Storing or tombstoning a stack preserves the invariant.
LEMMA StackRefresh ==
  ASSUME MembershipInv, NEW s \in Stacks, ApplyStack(s) \/ TombstoneStack(s)
  PROVE  MembershipInv'
<1> USE DEF githubVars, rowVars
<1>0. PICK j, old, r : j = StackJob(s) /\ old = stackRow[s] /\ r = running[j]
  BY Zenon
<1>1. /\ old \in CachedStacks /\ j \in Jobs /\ StackOK(s) /\ r \in Responses
      /\ MembershipTypeOK /\ stackRow \in [Stacks -> CachedStacks]
      /\ r.code # 0 => r.rep \in StackReps
  BY <1>0, Zenon DEF MembershipInv, MembershipTypeOK, CachedStacks, Jobs
<1>2. RecordAt(StackRep(s)) \in Nat
  BY <1>1, CurrentAt, Zenon
<1>3. /\ old.etag # <<>> => old.state = "live" /\ old.entries = Record(old.etag).entries
      /\ old.at <= RecordAt(StackRep(s))
  BY <1>0, <1>1, Zenon DEF StackOK
<1>4. CASE ApplyStack(s)
  <2>1. PICK new : new = Record(r.rep)
    BY Zenon
  <2>2. /\ r.code = 200 /\ ~r.overtaken /\ Committed(j)
        /\ UNCHANGED <<layout, sha, stamp, changes, pushes, pullRow>>
        /\ IF StackWritten(old, new) THEN stackRow' = [stackRow EXCEPT ![s] = new]
           ELSE stackRow' = [stackRow EXCEPT ![s] = TouchStackCheckedAt(@, new.etag)]
    BY <1>0, <1>4, <2>1, Zenon DEF ApplyStack, Ready, GetStackByIdentity
  <2>3. r.code # 0
    BY <2>2
  <2>4. /\ r.rep \in StackReps /\ RecordAt(r.rep) \in Nat
        /\ RecordAt(r.rep) <= RecordAt(StackRep(s)) /\ old.at <= RecordAt(r.rep)
    BY <1>0, <1>1, <2>2, <2>3, Zenon DEF StackOK
  <2>5. /\ new \in CachedStacks /\ new.etag = r.rep /\ new.state = "live" /\ new.at = RecordAt(r.rep)
    BY <2>1, <2>4, RecordIsRow, Zenon
  <2>6. CASE StackWritten(old, new)
    <3>1. new.entries = Record(new.etag).entries /\ new.at <= RecordAt(StackRep(s))
      BY <2>1, <2>4, <2>5, Zenon
    <3> QED
      BY <1>0, <2>2, <2>5, <2>6, <3>1, StackCommit, Zenon
  <2>7. CASE ~StackWritten(old, new)
    <3>1. old.state = "live" /\ old.entries = new.entries
      <4>1. PICK a, b : a = old.at /\ b = new.at
        BY Zenon
      <4>2. a \in Nat /\ b \in Nat /\ a <= b
        BY Zenon, <1>1, <2>4, <2>5, <4>1 DEF CachedStacks
      <4>3. /\ old.state = "live" /\ ~(b > a)
            /\ ~(b = a /\ (new.entries # old.entries \/ old.etag = <<>>))
        BY <2>7, <4>1, Zenon DEF StackWritten
      <4>4. b = a
        BY <4>2, <4>3
      <4> QED
        BY <4>3, <4>4, Zenon
    <3>2. PICK touched : touched = [old EXCEPT !.etag = r.rep]
      BY Zenon
    <3>3. /\ touched \in CachedStacks /\ touched.etag = r.rep /\ touched.state = "live"
          /\ touched.entries = old.entries /\ touched.at = old.at
      BY Zenon, <1>1, <2>4, <3>1, <3>2 DEF CachedStacks
    <3>4. stackRow' = [stackRow EXCEPT ![s] = touched]
      BY <1>0, <2>2, <2>5, <2>7, <3>2, Zenon DEF TouchStackCheckedAt
    <3>5. touched.entries = Record(touched.etag).entries /\ touched.at <= RecordAt(StackRep(s))
      BY <1>3, <2>1, <3>1, <3>3, Zenon
    <3> QED
      BY <1>0, <2>2, <3>3, <3>4, <3>5, StackCommit, Zenon
  <2> QED
    BY <2>6, <2>7, Zenon
<1>5. CASE TombstoneStack(s)
  <2>1. /\ Committed(j) /\ UNCHANGED <<layout, sha, stamp, changes, pushes, pullRow>>
        /\ \/ stackRow' = [stackRow EXCEPT ![s] = DeadStack(old)]
           \/ UNCHANGED stackRow
    BY <1>0, <1>5, Zenon DEF TombstoneStack, GetStackByIdentity
  <2>2. CASE stackRow' = [stackRow EXCEPT ![s] = DeadStack(old)]
    <3>1. PICK touched : touched = DeadStack(old)
      BY Zenon
    <3>2. touched \in CachedStacks /\ touched.etag = <<>> /\ touched.at = old.at
      BY Zenon, <1>1, <3>1 DEF CachedStacks, DeadStack, States
    <3>3. stackRow' = [stackRow EXCEPT ![s] = touched] /\ touched.at <= RecordAt(StackRep(s))
      BY <1>3, <2>2, <3>1, <3>2, Zenon
    <3> QED
      BY <1>0, <2>1, <3>2, <3>3, StackCommit, Zenon
  <2>3. CASE UNCHANGED stackRow
    <3>1. AllCarried
      BY <1>1, <2>1, CommitKeeps, Zenon
    <3> QED
      BY <2>1, <2>3, <3>1, ResponsesGo, Zenon
  <2> QED
    BY <2>1, <2>2, <2>3, Zenon
<1> QED
  BY <1>4, <1>5, Zenon

\* A 304 answer preserves the invariant: it writes no row.
LEMMA ConfirmStep ==
  ASSUME MembershipInv, NEW j \in Jobs, Confirm(j)
  PROVE  MembershipInv'
<1> USE DEF githubVars, rowVars
<1>0. MembershipTypeOK /\ running \in [Jobs -> Responses] /\ stackRow \in [Stacks -> CachedStacks]
  BY Zenon DEF MembershipInv, MembershipTypeOK, CachedStacks
<1>1. /\ Ready(j, 304) /\ Committed(j)
      /\ UNCHANGED <<layout, sha, stamp, changes, pushes, pullRow>>
  BY Zenon DEF Confirm
<1>2. AllCarried
  BY <1>0, <1>1, CommitKeeps, Zenon
<1>3. CASE j[1] # "stack"
  <2>1. UNCHANGED stackRow
    BY <1>3, Zenon DEF Confirm
  <2> QED
    BY <1>1, <1>2, <2>1, ResponsesGo, Zenon
<1>4. CASE j[1] = "stack"
  <2>1. PICK s \in Stacks : j = StackJob(s)
    <3>1. \A p \in PullRequests : PullJob(p)[1] # "stack" /\ ResolveJob(p)[1] # "stack"
      BY DEF PullJob, ResolveJob
    <3> QED
      BY <1>4, <3>1, JobKinds, Zenon DEF PullJobs
  <2>2. j[2] = s
    BY <2>1 DEF StackJob
  <2>3. PICK old, r : old = stackRow[s] /\ r = running[j]
    BY Zenon
  <2>4. stackRow' = [stackRow EXCEPT ![s] = [old EXCEPT !.etag = r.rep]]
    BY <1>4, <2>2, <2>3, Zenon DEF Confirm, TouchStackCheckedAt
  <2>5. r.code = 304 /\ ~r.overtaken /\ StackOK(s)
    BY <1>1, <2>3, Zenon DEF Ready, MembershipInv
  <2>6. old.etag = r.rep /\ old \in CachedStacks
    BY <1>0, <2>1, <2>3, <2>5, Zenon DEF StackOK
  <2>7. [old EXCEPT !.etag = r.rep] = old
    BY <2>6 DEF CachedStacks
  <2>8. UNCHANGED stackRow
    BY <1>0, <2>3, <2>4, <2>7
  <2> QED
    BY <1>1, <1>2, <2>8, ResponsesGo, Zenon
<1> QED
  BY <1>3, <1>4, Zenon

\* Storing or tombstoning a pull request preserves the invariant.
LEMMA PullRefresh ==
  ASSUME MembershipInv, NEW j \in Jobs, ApplyPullRequest(j) \/ TombstonePullRequestObserved(j)
  PROVE  MembershipInv'
<1> USE DEF githubVars, rowVars
<1>1. j[1] # "stack"
  BY Zenon DEF ApplyPullRequest, TombstonePullRequestObserved
<1>2. PICK p \in PullRequests : j \in PullJobs(p)
  <2>1. \A s \in Stacks : StackJob(s)[1] = "stack"
    BY DEF StackJob
  <2> QED
    BY <1>1, <2>1, JobKinds, Zenon
<1>3. j[2] = p
  BY <1>2 DEF PullJobs, PullJob, ResolveJob
<1>4. PICK old, r : old = pullRow[p] /\ r = running[j]
  BY Zenon
<1>5. /\ old \in CachedPulls /\ PullOK(p) /\ MembershipTypeOK
      /\ pullRow \in [PullRequests -> CachedPulls] /\ stamp[p] \in Nat
      /\ r.code # 0 => r.rep \in PullReps
  BY <1>2, <1>4, Zenon DEF MembershipInv, MembershipTypeOK, CachedPulls, Entities
<1>6. /\ old.etag # <<>> => old.state = "live" /\ old.in = PullRecord(old.etag).in
                            /\ old.sha = PullRecord(old.etag).sha
      /\ old.at <= stamp[p]
      /\ r.code # 0 => r.rep.at <= stamp[p] /\ (~r.overtaken => old.at <= r.rep.at)
  BY <1>2, <1>4, <1>5, Zenon DEF PullOK
<1>7. CASE ApplyPullRequest(j)
  <2>1. PICK rep, new : rep = r.rep /\ new = PullRecord(rep)
    BY Zenon
  <2>2. /\ r.code = 200 /\ ~r.overtaken /\ Committed(j)
        /\ UNCHANGED <<layout, sha, stamp, changes, pushes, stackRow>>
        /\ pullRow' = [pullRow EXCEPT ![p] = IF PullWritten(old, new) THEN new
                                             ELSE [old EXCEPT !.etag = rep]]
    BY <1>3, <1>4, <1>7, <2>1, Zenon DEF ApplyPullRequest, Ready, GetPullRequestByIdentity
  <2>3. r.code # 0
    BY <2>2
  <2>4. rep \in PullReps /\ rep.at <= stamp[p] /\ old.at <= rep.at
    BY <1>5, <1>6, <2>1, <2>2, <2>3, Zenon
  <2>5. /\ new \in CachedPulls /\ new.etag = rep /\ new.state = "live" /\ new.at = rep.at
    <3>1. <<rep.ref[1], rep.ref[2]>> \in Places
      <4>1. rep.ref \in Refs
        BY <2>4 DEF PullReps
      <4> QED
        BY <4>1, Zenon DEF Places
    <3>2. PICK f : f = <<rep.ref[1], rep.ref[2]>>
      BY Zenon
    <3>3. new = [state |-> "live", in |-> f, sha |-> rep.sha, at |-> rep.at, etag |-> rep]
      BY <2>1, <3>2, Zenon DEF PullRecord
    <3>4. f \in Places /\ rep.sha \in Int /\ rep.at \in Nat
      BY <2>4, <3>1, <3>2 DEF PullReps
    <3> QED
      BY <2>4, <3>3, <3>4 DEF CachedPulls, States
  <2>6. CASE PullWritten(old, new)
    <3>1. /\ new.in = PullRecord(new.etag).in /\ new.sha = PullRecord(new.etag).sha
          /\ new.at <= stamp[p] /\ pullRow' = [pullRow EXCEPT ![p] = new]
      BY <2>1, <2>2, <2>4, <2>5, <2>6, Zenon
    <3> QED
      BY <1>2, <2>2, <2>5, <3>1, PullCommit, Zenon
  <2>7. CASE ~PullWritten(old, new)
    <3>1. old.state = "live" /\ <<old.in, old.sha>> = <<new.in, new.sha>>
      <4>1. PICK a, b : a = old.at /\ b = new.at
        BY Zenon
      <4>2. a \in Nat /\ b \in Nat /\ a <= b
        BY Zenon, <1>5, <2>4, <2>5, <4>1 DEF CachedPulls
      <4>3. /\ old.state = "live" /\ ~(b > a)
            /\ ~(b = a /\ <<new.in, new.sha>> # <<old.in, old.sha>>)
        BY <2>7, <4>1, Zenon DEF PullWritten
      <4>4. b = a
        BY <4>2, <4>3
      <4> QED
        BY <4>3, <4>4, Zenon
    <3>2. PICK touched : touched = [old EXCEPT !.etag = rep]
      BY Zenon
    <3>3. /\ touched \in CachedPulls /\ touched.etag = rep /\ touched.state = "live"
          /\ touched.in = old.in /\ touched.sha = old.sha /\ touched.at = old.at
      BY <1>5, <2>4, <3>1, <3>2 DEF CachedPulls
    <3>4. pullRow' = [pullRow EXCEPT ![p] = touched] /\ touched.at <= stamp[p]
      BY <1>6, <2>2, <2>7, <3>2, <3>3, ZenonT(120)
    <3>5. touched.in = PullRecord(touched.etag).in /\ touched.sha = PullRecord(touched.etag).sha
      BY <2>1, <3>1, <3>3
    <3> QED
      BY <1>2, <2>2, <3>3, <3>4, <3>5, PullCommit, ZenonT(120)
  <2> QED
    BY <2>6, <2>7, Zenon
<1>8. CASE TombstonePullRequestObserved(j)
  <2>1. /\ Committed(j) /\ UNCHANGED <<layout, sha, stamp, changes, pushes, stackRow>>
        /\ \/ pullRow' = [pullRow EXCEPT ![p].state = "dead", ![p].etag = <<>>]
           \/ UNCHANGED pullRow
    BY <1>3, <1>8, Zenon DEF TombstonePullRequestObserved
  <2>2. CASE pullRow' = [pullRow EXCEPT ![p].state = "dead", ![p].etag = <<>>]
    <3>1. PICK touched : touched = [old EXCEPT !.state = "dead", !.etag = <<>>]
      BY Zenon
    <3>2. touched \in CachedPulls /\ touched.etag = <<>> /\ touched.at = old.at
      BY Zenon, <1>5, <3>1 DEF CachedPulls, States
    <3>3. pullRow' = [pullRow EXCEPT ![p] = touched]
      BY Zenon, <1>4, <1>5, <2>2, <3>1
    <3>4. touched.at <= stamp[p]
      BY <1>6, <3>2, Zenon
    <3> QED
      BY <1>2, <2>1, <3>2, <3>3, <3>4, PullCommit, ZenonT(120)
  <2>3. CASE UNCHANGED pullRow
    <3>1. AllCarried
      BY <1>5, <2>1, CommitKeeps, Zenon
    <3> QED
      BY <2>1, <2>3, <3>1, ResponsesGo, Zenon
  <2> QED
    BY <2>1, <2>2, <2>3, Zenon
<1> QED
  BY <1>7, <1>8, Zenon

\* A failed attempt preserves the invariant.
LEMMA RetryStep ==
  ASSUME MembershipInv, NEW j \in Jobs, Retry(j)
  PROVE  MembershipInv'
<1>1. /\ running' = [running EXCEPT ![j] = NoResponse] /\ running \in [Jobs -> Responses]
      /\ UNCHANGED <<layout, sha, stamp, changes, pushes, stackRow, pullRow>>
  BY Zenon DEF Retry, MembershipInv, MembershipTypeOK, githubVars, rowVars
<1>2. NoResponse \in Responses /\ NoResponse.code = 0
  BY DEF NoResponse, Responses
<1>3. running' \in [Jobs -> Responses]
  BY <1>1, <1>2
<1>4. \A k \in Jobs : Carried(k)
  BY <1>1, <1>2, Zenon DEF Carried
<1> QED
  BY <1>1, <1>3, <1>4, ResponsesGo, Zenon DEF AllCarried

\* A request that is answered preserves the invariant.
LEMMA JobStarts ==
  ASSUME MembershipInv, NEW j \in Jobs, StartJob(j)
  PROVE  MembershipInv'
<1>0. /\ MembershipTypeOK /\ running \in [Jobs -> Responses] /\ layout \in Layouts
      /\ sha \in [PullRequests -> Int] /\ stamp \in [Entities -> Nat]
  BY Zenon DEF MembershipInv, MembershipTypeOK
<1>1. PICK r : r = [code |-> Answer(j[2]), rep |-> Rep(j[2]), overtaken |-> FALSE]
  BY Zenon
<1>2. /\ running' = [running EXCEPT ![j] = r]
      /\ UNCHANGED <<layout, sha, stamp, changes, pushes, stackRow, pullRow>>
  BY <1>1, Zenon DEF StartJob, githubVars, rowVars
<1>3. r.code \in {200, 304, 404} /\ r.code = Answer(j[2]) /\ r.rep = Rep(j[2]) /\ r.overtaken = FALSE
  BY <1>1 DEF Answer
<1>4. /\ \A s \in Stacks : StackRep(s) \in StackReps /\ RecordAt(StackRep(s)) \in Nat
      /\ \A s \in Stacks : j = StackJob(s) => r.rep = StackRep(s)
  <2>1. ASSUME NEW s \in Stacks, j = StackJob(s)
        PROVE  r.rep = StackRep(s)
    <3>1. j[2] = s
      BY <2>1 DEF StackJob
    <3> QED
      BY <1>3, <3>1, Zenon DEF Rep
  <2> QED
    BY <1>0, <2>1, CurrentAt, Zenon
<1>5. \A p \in PullRequests : j \in PullJobs(p) => r.rep = PullRep(p)
  <2> SUFFICES ASSUME NEW p \in PullRequests, j \in PullJobs(p)
               PROVE  r.rep = PullRep(p)
    BY Zenon
  <2>1. p \notin Stacks
    BY StackConstants
  <2>2. j[2] = p
    BY DEF PullJobs, PullJob, ResolveJob
  <2> QED
    BY <1>3, <2>1, <2>2, Zenon DEF Rep
<1>6. \A p \in PullRequests : PullRep(p) \in PullReps /\ PullRep(p).at = stamp[p] /\ stamp[p] \in Nat
  <2> SUFFICES ASSUME NEW p \in PullRequests
               PROVE  PullRep(p) \in PullReps /\ PullRep(p).at = stamp[p] /\ stamp[p] \in Nat
    BY Zenon
  <2>1. PICK f : f = StackRef(layout, p)
    BY Zenon
  <2>2. f \in Refs /\ sha[p] \in Int /\ stamp[p] \in Nat
    BY <1>0, <2>1 DEF Refs, Entities
  <2>3. PullRep(p) = [at |-> stamp[p], ref |-> f, sha |-> sha[p]]
    BY <2>1, Zenon DEF PullRep
  <2> QED
    BY <2>2, <2>3 DEF PullReps
<1>7. r \in Responses
  <2>1. r.rep \in StackReps \cup PullReps \cup {<<>>}
    BY <1>4, <1>5, <1>6, JobKinds, Zenon
  <2> QED
    BY <1>1, <1>3, <2>1 DEF Responses
<1>8. /\ running' \in [Jobs -> Responses] /\ running'[j] = r
      /\ \A k \in Jobs : k # j => running'[k] = running[k]
  BY <1>0, <1>2, <1>7, Zenon
<1>9. MembershipTypeOK'
  <2>1. ASSUME NEW s \in Stacks, running'[StackJob(s)].code # 0
        PROVE  running'[StackJob(s)].rep \in StackReps
    <3>1. StackJob(s) \in Jobs
      BY Zenon DEF Jobs
    <3> QED
      BY <1>0, <1>4, <1>8, <2>1, <3>1, Zenon DEF MembershipTypeOK
  <2>2. ASSUME NEW p \in PullRequests, NEW k \in PullJobs(p), running'[k].code # 0
        PROVE  running'[k].rep \in PullReps
    <3>1. k \in Jobs
      BY Zenon DEF Jobs, PullJobs
    <3> QED
      BY <1>0, <1>5, <1>6, <1>8, <2>2, <3>1, ZenonT(120) DEF MembershipTypeOK
  <2> QED
    BY <1>0, <1>2, <1>8, <2>1, <2>2, Zenon DEF MembershipTypeOK
<1>10. ASSUME NEW s \in Stacks PROVE StackOK(s)'
  <2>1. StackOK(s) /\ StackRep(s)' = StackRep(s) /\ StackJob(s) \in Jobs
    BY <1>2, Zenon DEF StackRep, MembershipInv, Jobs
  <2>2. CASE j # StackJob(s)
    BY <1>2, <1>8, <2>1, <2>2, ZenonT(120) DEF StackOK
  <2>3. CASE j = StackJob(s)
    <3>1. running'[StackJob(s)] = r /\ r.rep = StackRep(s)
      BY <1>4, <1>8, <2>3, Zenon
    <3>2. RecordAt(StackRep(s)) <= RecordAt(StackRep(s)) /\ RecordAt(StackRep(s)) \in Nat
      BY <1>4
    <3>3. r.code = 304 => stackRow[s].etag = r.rep
      <4>1. j[2] = s
        BY <2>3 DEF StackJob
      <4>2. r.code = 304 => Validator(s) = Rep(s)
        BY <1>3, <4>1 DEF Answer
      <4> QED
        BY <3>1, <4>1, <4>2, Zenon DEF Validator, GetStackFetchMetadata, Rep
    <3> QED
      BY <1>2, <2>1, <3>1, <3>2, <3>3, ZenonT(120) DEF StackOK
  <2> QED
    BY <2>2, <2>3, Zenon
<1>11. ASSUME NEW p \in PullRequests PROVE PullOK(p)'
  <2>1. PullOK(p) /\ \A k \in PullJobs(p) : k \in Jobs
    BY Zenon DEF MembershipInv, Jobs, PullJobs
  <2>2. ASSUME NEW k \in PullJobs(p), running'[k].code # 0
        PROVE  running'[k].rep.at <= stamp[p] /\ (~running'[k].overtaken => pullRow[p].at <= running'[k].rep.at)
    <3>1. CASE k # j
      BY <1>8, <2>1, <2>2, <3>1, Zenon DEF PullOK
    <3>2. CASE k = j
      <4>1. running'[k].rep.at = stamp[p] /\ stamp[p] \in Nat
        BY <1>5, <1>6, <1>8, <3>2, Zenon
      <4>2. stamp[p] <= stamp[p]
        BY <4>1
      <4> QED
        BY <2>1, <4>1, <4>2, Zenon DEF PullOK
    <3> QED
      BY <3>1, <3>2, Zenon
  <2> QED
    BY <1>2, <2>1, <2>2, Zenon DEF PullOK
<1> QED
  BY <1>9, <1>10, <1>11, Zenon DEF MembershipInv

\* A hinted row loses its validator, and the refreshes of its stack are overtaken.
LEMMA HintIsApplied ==
  ASSUME MembershipInv, NEW push \in pushes, BranchPush(push)
  PROVE  MembershipInv'
<1>0. /\ MembershipTypeOK /\ running \in [Jobs -> Responses] /\ push \in PushHints
      /\ stackRow \in [Stacks -> CachedStacks] /\ pullRow \in [PullRequests -> CachedPulls]
  BY Zenon DEF MembershipInv, MembershipTypeOK, CachedStacks, CachedPulls
<1>1. PICK P : P = Targets(push.pull)
  BY Zenon
<1>2. /\ UNCHANGED <<layout, sha, stamp, changes>> /\ pushes' \subseteq pushes
      /\ stackRow' = [s \in Stacks |-> HintedStack(stackRow[s], push)]
      /\ pullRow' = [pullRow EXCEPT ![push.pull] = HintedPull(@, push)]
      /\ running' = [k \in Jobs |-> IF k \in P /\ running[k] # NoResponse
                                    THEN [running[k] EXCEPT !.overtaken = TRUE] ELSE running[k]]
  BY <1>1, Zenon DEF BranchPush
<1>3. push.pull \in PullRequests /\ push.after \in Int
  BY <1>0 DEF PushHints
<1>4. \A r \in Responses : LET o == [r EXCEPT !.overtaken = TRUE]
        IN o \in Responses /\ o.code = r.code /\ o.rep = r.rep /\ o.overtaken
  BY ZenonT(120) DEF Responses
<1>5. running' \in [Jobs -> Responses]
  BY <1>0, <1>2, <1>4, Zenon
<1>6. ASSUME NEW k \in Jobs
      PROVE  Carried(k) /\ (k \in P /\ running'[k].code # 0 => running'[k].overtaken)
  <2>0. NoResponse.code = 0
    BY DEF NoResponse
  <2>1. running[k] \in Responses
    BY <1>0, Zenon
  <2>2. CASE k \in P /\ running[k] # NoResponse
    <3>1. running'[k] = [running[k] EXCEPT !.overtaken = TRUE]
      BY <1>2, <2>2, Zenon
    <3> QED
      BY <1>4, <2>1, <3>1, Zenon DEF Carried
  <2>3. CASE ~(k \in P /\ running[k] # NoResponse)
    <3>1. running'[k] = running[k]
      BY <1>2, <2>3, Zenon
    <3> QED
      BY <2>0, <2>3, <3>1, Zenon DEF Carried
  <2> QED
    BY <2>2, <2>3, Zenon
<1>7. ASSUME NEW s \in Stacks
      PROVE  /\ stackRow'[s] \in CachedStacks /\ stackRow'[s].at = stackRow[s].at
             /\ \/ stackRow'[s] = stackRow[s]
                \/ stackRow'[s].etag = <<>> /\ StackJob(s) \in P
  <2>1. PICK old, x : old = stackRow[s] /\ x = <<push.pull, push.before>>
    BY Zenon
  <2>2. old \in CachedStacks /\ stackRow'[s] = HintedStack(old, push)
    BY <1>0, <1>2, <2>1, Zenon
  <2>3. CASE old.state = "live" /\ x \in Range(old.entries)
    <3>1. PICK q, f, T :
             /\ q = old.entries /\ T = PullRequests \X Int
             /\ f = [i \in DOMAIN q |-> IF q[i] = x THEN <<push.pull, push.after>> ELSE q[i]]
      BY Zenon
    <3>2. q \in Seq(T)
      BY <2>2, <3>1 DEF CachedStacks
    <3>3. DOMAIN q = 1 .. Len(q) /\ Len(q) \in Nat /\ \A i \in DOMAIN q : q[i] \in T
      BY <3>2
    <3>4. <<push.pull, push.after>> \in T
      BY <1>3, <3>1
    <3>5. f \in [1 .. Len(q) -> T]
      BY <3>1, <3>3, <3>4, Zenon
    <3>6. f \in Seq(T)
      BY <3>3, <3>5
    <3>7. f \in Seq(PullRequests \X Int)
      BY <3>1, <3>6, Zenon
    <3>8. stackRow'[s] = [old EXCEPT !.etag = <<>>, !.entries = f]
      <4>1. PICK g : g = [i \in DOMAIN old.entries |->
                 IF old.entries[i] = <<push.pull, push.before>> THEN <<push.pull, push.after>>
                 ELSE old.entries[i]]
        BY Zenon
      <4>2. g = f
        BY <2>1, <3>1, <4>1, Zenon
      <4>3. HintedStack(old, push) = [old EXCEPT !.etag = <<>>, !.entries = g]
        BY <2>1, <2>2, <2>3, <4>1 DEF HintedStack, CachedStacks
      <4> QED
        BY <2>2, <4>2, <4>3, Zenon
    <3>9. stackRow'[s] \in CachedStacks /\ stackRow'[s].at = old.at /\ stackRow'[s].etag = <<>>
      BY Zenon, <2>2, <3>7, <3>8 DEF CachedStacks
    <3>10. push.pull \in Members(old)
      <4>1. x[1] = push.pull
        BY <2>1
      <4> QED
        BY <2>3, <4>1, Zenon DEF Members
    <3>11. StackJob(s) \in P
      BY <1>1, <2>1, <2>3, <3>10, Zenon DEF Targets, ListStacksAffectedByBranch
    <3> QED
      BY <2>1, <3>9, <3>11, Zenon
  <2>4. CASE ~(old.state = "live" /\ x \in Range(old.entries))
    <3>1. stackRow'[s] = old
      BY <2>1, <2>2, <2>4, Zenon DEF HintedStack
    <3> QED
      BY <2>1, <2>2, <3>1, Zenon
  <2> QED
    BY <2>3, <2>4, Zenon
<1>8. ASSUME NEW p \in PullRequests
      PROVE  /\ pullRow'[p] \in CachedPulls /\ pullRow'[p].at = pullRow[p].at
             /\ pullRow'[p] = pullRow[p] \/ pullRow'[p].etag = <<>>
  <2>1. PICK old : old = pullRow[p]
    BY Zenon
  <2>2. old \in CachedPulls /\ (pullRow'[p] = old \/ pullRow'[p] = HintedPull(old, push))
    BY <1>0, <1>2, <1>3, <2>1
  <2>3. CASE pullRow'[p] = [old EXCEPT !.sha = push.after, !.etag = <<>>]
    BY Zenon, <1>3, <2>1, <2>2, <2>3 DEF CachedPulls
  <2>4. CASE pullRow'[p] = old
    BY <2>1, <2>2, <2>4, Zenon
  <2> QED
    BY <2>2, <2>3, <2>4, Zenon DEF HintedPull
<1>9. AllCarried
  BY <1>5, <1>6, Zenon DEF AllCarried
<1>10. MembershipTypeOK'
  <2>1. DOMAIN stackRow' = Stacks /\ DOMAIN pullRow' = PullRequests
    BY <1>0, <1>2
  <2>2. stackRow' = [s \in Stacks |-> HintedStack(stackRow[s], push)]
        /\ \A s \in Stacks : HintedStack(stackRow[s], push) \in CachedStacks
    BY <1>2, <1>7, Zenon
  <2>3. stackRow' \in [Stacks -> CachedStacks]
    BY <2>2, Zenon
  <2>4. pullRow' = [p \in PullRequests |-> pullRow'[p]]
    BY Zenon, <1>0, <1>2
  <2>5. pullRow' \in [PullRequests -> CachedPulls]
    BY <1>8, <2>4, Zenon
  <2> QED
    BY <1>0, <1>2, <1>9, <2>3, <2>5, TypesStay, Zenon DEF CachedStacks, CachedPulls
<1>11. ASSUME NEW s \in Stacks PROVE StackOK(s)'
  <2>1. StackOK(s) /\ StackJob(s) \in Jobs /\ Carried(StackJob(s)) /\ StackRep(s)' = StackRep(s)
    BY <1>2, <1>6, Zenon DEF MembershipInv, Jobs, StackRep
  <2>2. CASE stackRow'[s] = stackRow[s]
    <3>1. RecordAt(StackRep(s)) \in Nat
      BY <1>0, CurrentAt, Zenon
    <3>2. RecordAt(StackRep(s)') \in Nat /\ RecordAt(StackRep(s)) <= RecordAt(StackRep(s)')
      BY <2>1, <3>1
    <3>3. running'[StackJob(s)].overtaken \in BOOLEAN /\ running[StackJob(s)].overtaken \in BOOLEAN
      BY <1>0, <1>5, <2>1 DEF Responses
    <3> QED
      BY <1>0, <2>1, <2>2, <3>2, <3>3, StackStays, ZenonT(120)
  <2>3. CASE stackRow'[s].etag = <<>> /\ StackJob(s) \in P
    <3>1. stackRow'[s].at <= RecordAt(StackRep(s))
      BY <1>7, <2>1, Zenon DEF StackOK
    <3>2. running'[StackJob(s)].code # 0 => running'[StackJob(s)].overtaken
      BY <1>6, <2>1, <2>3, Zenon
    <3> QED
      BY <1>0, <1>2, <2>1, <2>3, <3>1, <3>2, StackIsWritten, Zenon
  <2> QED
    BY <1>7, <2>2, <2>3, Zenon
<1>12. ASSUME NEW p \in PullRequests PROVE PullOK(p)'
  <2>1. PullOK(p) /\ \A k \in PullJobs(p) : Carried(k)
    BY <1>6, Zenon DEF MembershipInv, Jobs, PullJobs
  <2>2. /\ pullRow[p].etag # <<>> => /\ pullRow[p].state = "live"
                                     /\ pullRow[p].in = PullRecord(pullRow[p].etag).in
                                     /\ pullRow[p].sha = PullRecord(pullRow[p].etag).sha
        /\ pullRow[p].at <= stamp[p]
    BY <2>1, Zenon DEF PullOK
  <2>3. /\ pullRow'[p].etag # <<>> => /\ pullRow'[p].state = "live"
                                      /\ pullRow'[p].in = PullRecord(pullRow'[p].etag).in
                                      /\ pullRow'[p].sha = PullRecord(pullRow'[p].etag).sha
        /\ pullRow'[p].at <= stamp[p] /\ pullRow'[p].at = pullRow[p].at
    BY <1>8, <2>2, Zenon
  <2> QED
    BY <1>0, <1>2, <2>1, <2>3, PullIsWritten, Zenon
<1> QED
  BY <1>10, <1>11, <1>12, Zenon DEF MembershipInv

\* Empty tables satisfy the invariant.
LEMMA MembershipStart == StacksInit => MembershipInv
<1> SUFFICES ASSUME StacksInit PROVE MembershipInv
  BY Zenon
<1>0. PICK t : t = [e \in Entities |-> 0]
  BY Zenon
<1>1. /\ layout \in Layouts /\ sha \in [PullRequests -> Int] /\ changes = 0 /\ changes \in Nat
      /\ stamp = t /\ t \in [Entities -> Nat] /\ (\A e \in Entities : t[e] = 0 /\ t[e] <= 0)
      /\ pushes \in SUBSET PushHints /\ running = [j \in Jobs |-> NoResponse]
  BY <1>0 DEF StacksInit
<1>2. NoResponse \in Responses /\ NoResponse.code = 0
  BY DEF NoResponse, Responses
<1>3. running \in [Jobs -> Responses] /\ \A j \in Jobs : running[j].code = 0
  BY <1>1, <1>2, Zenon
<1>4. ASSUME NEW s \in Stacks
      PROVE  /\ StackRep(s) \in StackReps /\ RecordAt(StackRep(s)) \in Nat
             /\ Record(StackRep(s)) \in CachedStacks /\ Record(StackRep(s)).etag = StackRep(s)
             /\ Record(StackRep(s)).state = "live" /\ Record(StackRep(s)).at = RecordAt(StackRep(s))
  <2>1. StackRep(s) = StackBody(layout, sha, stamp, s)
    BY Zenon DEF StackRep, StackBody
  <2>2. 0 \in Nat
    OBVIOUS
  <2>3. LET b == StackBody(layout, sha, t, s)
            S == Stamps(layout, t, s)
        IN  b \in StackReps /\ RecordAt(b) = Max(S) /\ S \in SUBSET Nat /\ Max(S) \in S
    BY <1>1, <2>2, BodyIsTyped, ZenonT(120)
  <2>4. StackRep(s) \in StackReps /\ RecordAt(StackRep(s)) \in Nat
    BY <1>1, <2>1, <2>3, Zenon
  <2> QED
    BY <2>4, RecordIsRow, Zenon
<1>5. ASSUME NEW s \in Stacks
      PROVE  /\ stackRow[s] \in CachedStacks
             /\ stackRow[s].etag # <<>> => /\ stackRow[s].state = "live"
                                           /\ stackRow[s].entries = Record(stackRow[s].etag).entries
             /\ stackRow[s].at <= RecordAt(StackRep(s))
  <2>1. CASE stackRow[s] = NoStack
    <3>1. NoStack \in CachedStacks /\ NoStack.etag = <<>> /\ NoStack.at = 0
      BY DEF NoStack, CachedStacks, States
    <3>2. 0 <= RecordAt(StackRep(s))
      BY <1>4
    <3> QED
      BY <2>1, <3>1, <3>2, Zenon
  <2>2. CASE stackRow[s] = Record(StackRep(s))
    <3>1. RecordAt(StackRep(s)) <= RecordAt(StackRep(s))
      BY <1>4
    <3> QED
      BY <1>4, <2>2, <3>1, Zenon
  <2> QED
    BY <2>1, <2>2, Zenon DEF StacksInit
<1>6. ASSUME NEW p \in PullRequests
      PROVE  /\ pullRow[p] \in CachedPulls
             /\ pullRow[p].etag # <<>> => /\ pullRow[p].state = "live"
                                          /\ pullRow[p].in = PullRecord(pullRow[p].etag).in
                                          /\ pullRow[p].sha = PullRecord(pullRow[p].etag).sha
             /\ pullRow[p].at <= stamp[p]
  <2>0. p \in Entities /\ stamp[p] = 0
    BY <1>1, Zenon DEF Entities
  <2>1. CASE pullRow[p] = NoPull
    <3>1. NoPull.etag = <<>> /\ NoPull.at = 0
      BY DEF NoPull
    <3>2. NoPull \in CachedPulls
      <4>1. PICK f : f = <<None, None>>
        BY Zenon
      <4>2. f \in Places
        BY <4>1, Zenon DEF Places
      <4>3. NoPull = [state |-> "none", in |-> f, sha |-> 0, at |-> 0, etag |-> <<>>]
        BY <4>1, Zenon DEF NoPull
      <4> QED
        BY <4>2, <4>3 DEF CachedPulls, States
    <3> QED
      BY <2>0, <2>1, <3>1, <3>2
  <2>2. CASE pullRow[p] = PullRecord(PullRep(p))
    <3>1. PICK f, g, rep : /\ f = StackRef(layout, p) /\ g = <<f[1], f[2]>>
                           /\ rep = [at |-> 0, ref |-> f, sha |-> sha[p]]
      BY Zenon
    <3>2. f \in Refs /\ sha[p] \in Int
      BY <1>1, <3>1 DEF Refs
    <3>3. g \in Places
      BY <3>1, <3>2, Zenon DEF Places
    <3>4. rep \in PullReps /\ rep.ref = f /\ rep.at = 0 /\ rep.sha = sha[p]
      BY Zenon, <3>1, <3>2 DEF PullReps
    <3>5. PullRep(p) = rep
      BY <2>0, <3>1, Zenon DEF PullRep
    <3>6. pullRow[p] = [state |-> "live", in |-> g, sha |-> rep.sha, at |-> rep.at, etag |-> rep]
      BY <2>2, <3>1, <3>4, <3>5, ZenonT(120) DEF PullRecord
    <3>7. /\ pullRow[p] \in CachedPulls /\ pullRow[p].etag = rep /\ pullRow[p].state = "live"
          /\ pullRow[p].at = 0
      BY SMTT(60), <3>2, <3>3, <3>4, <3>6 DEF CachedPulls, States
    <3>8. pullRow[p].at <= stamp[p]
      BY <2>0, <3>7
    <3> QED
      BY <2>2, <3>5, <3>7, <3>8, Zenon
  <2> QED
    BY <2>1, <2>2, Zenon DEF StacksInit
<1>7. MembershipTypeOK
  <2>1. stackRow = [s \in Stacks |-> stackRow[s]] /\ pullRow = [p \in PullRequests |-> pullRow[p]]
    BY DEF StacksInit
  <2>2. stackRow \in [Stacks -> CachedStacks] /\ pullRow \in [PullRequests -> CachedPulls]
    BY <1>5, <1>6, <2>1, Zenon
  <2>3. /\ \A s \in Stacks : running[StackJob(s)].code = 0
        /\ \A p \in PullRequests : \A j \in PullJobs(p) : running[j].code = 0
    BY <1>3, Zenon DEF Jobs, PullJobs
  <2> QED
    BY <1>1, <1>3, <2>2, <2>3, Zenon DEF MembershipTypeOK, CachedStacks, CachedPulls
<1>8. \A s \in Stacks : StackOK(s)
  <2>1. 304 # 0
    OBVIOUS
  <2>2. \A s \in Stacks : running[StackJob(s)].code = 0
    BY <1>3, Zenon DEF Jobs
  <2> QED
    BY <1>5, <2>1, <2>2, ZenonT(120) DEF StackOK
<1>9. \A p \in PullRequests : PullOK(p)
  <2>1. \A p \in PullRequests : \A j \in PullJobs(p) : running[j].code = 0
    BY <1>3, Zenon DEF Jobs, PullJobs
  <2> QED
    BY <1>6, <2>1, Zenon DEF PullOK
<1> QED
  BY <1>7, <1>8, <1>9, Zenon DEF MembershipInv

\* Every step preserves the invariant.
LEMMA MembershipStep ==
  ASSUME MembershipInv, [StacksNext]_membershipVars
  PROVE  MembershipInv'
<1>1. ASSUME NEW j \in Jobs, Work(j)
      PROVE  MembershipInv'
  BY <1>1, JobStarts, RetryStep, ConfirmStep, PullRefresh, StackRefresh, Zenon DEF Work
<1>2. ASSUME NEW push \in pushes, BranchPush(push)
      PROVE  MembershipInv'
  BY <1>2, HintIsApplied, Zenon
<1> QED
  BY <1>1, <1>2, GitHubStep, Zenon DEF StacksNext, Working

\* What GitHub would answer with 304 is what the row shows.
THEOREM ValidatorsStandForRows == StacksSpec => []ConfirmedIsCurrent
<1>1. MembershipInv => ConfirmedIsCurrent
  <2> SUFFICES ASSUME MembershipInv PROVE ConfirmedIsCurrent
    BY Zenon
  <2>1. ASSUME NEW s \in Stacks, stackRow[s].etag = StackRep(s)
        PROVE  stackRow[s].state = "live" /\ stackRow[s].entries = Record(StackRep(s)).entries
    <3>1. StackRep(s) # <<>>
      BY BodyIsNotEmpty, Zenon DEF StackRep
    <3> QED
      BY <2>1, <3>1, Zenon DEF MembershipInv, StackOK
  <2>2. ASSUME NEW p \in PullRequests, pullRow[p].etag = PullRep(p)
        PROVE  /\ pullRow[p].state = "live" /\ pullRow[p].in = PullRecord(PullRep(p)).in
               /\ pullRow[p].sha = PullRecord(PullRep(p)).sha
    <3>1. PullRep(p) # <<>>
      BY PullBodyIsNotEmpty, Zenon DEF PullRep
    <3> QED
      BY <2>2, <3>1, Zenon DEF MembershipInv, PullOK
  <2> QED
    BY <2>1, <2>2, Zenon DEF ConfirmedIsCurrent
<1> QED
  BY <1>1, MembershipStart, MembershipStep, PTL DEF StacksSpec
=============================================================================
