---------------------------- MODULE RefreshQueue ----------------------------
(***************************************************************************)
(* The coalescing queue of refresh pointers (internal/queue), for one      *)
(* pointer identity (kind, key).  Rows of refresh_intent_generations are    *)
(* independent of one another, so one identity carries the protocol.        *)
(*                                                                         *)
(* A producer bumps the durable generation and inserts a unique River job   *)
(* in the same transaction; River drops the insert while a job of the same  *)
(* arguments is queued or running.  A worker remembers the generation it    *)
(* started from, does its work, and completes the job, the generation and   *)
(* a follow-up job in one transaction.  A branch push claims a generation:  *)
(* it bumps and completes it at once, because its own page job will do the  *)
(* work.  A pointer that River discards leaves its generation outstanding   *)
(* until the orphan reconciler inserts a replacement.                       *)
(*                                                                         *)
(* Variants are the argument shapes that share the row: River tells them    *)
(* apart, the generation row does not.  A repository has two (the plain     *)
(* metadata refresh and the one that also observes the default branch's     *)
(* head), every other kind has one.                                        *)
(***************************************************************************)
EXTENDS Naturals

CONSTANTS Variants,    \* argument shapes of the pointer's jobs
          Plain,       \* the shape producers and the reconciler insert
          MaxGen,      \* bound on generations
          MaxFaults    \* bound on failed executions

ASSUME PlainVariant == Plain \in Variants
ASSUME QueueMaxGen == MaxGen \in Nat
ASSUME QueueMaxFaults == MaxFaults \in Nat

VARIABLES gen,         \* refresh_intent_generations.generation
          done,        \* refresh_intent_generations.completed_generation
          job,         \* River's live job of each variant
          started,     \* generation snapshot of each running job
          listed,      \* the reconciler holds this row from its last scan
          failures     \* failed executions so far (model bound only)

queueVars == <<gen, done, job, started, listed, failures>>

JobStates == {"none", "queued", "running"}

Outstanding == gen > done
Live(v) == job[v] # "none"

\* River's unique insert: available, pending, retryable, running and
\* scheduled jobs of the same arguments absorb the insert.
InsertUnique(inserted) ==
    [v \in Variants |->
        IF v \in inserted /\ job[v] = "none" THEN "queued" ELSE job[v]]

QueueInit ==
    /\ gen = 0
    /\ done = 0
    /\ job = [v \in Variants |-> "none"]
    /\ started = [v \in Variants |-> 0]
    /\ listed = FALSE
    /\ failures = 0

-----------------------------------------------------------------------------
(* Producers                                                               *)

\* A webhook, sweep, backfill or follow-up asks for a refresh.
InsertRefreshes ==
    /\ gen < MaxGen
    /\ gen' = gen + 1
    /\ job' = InsertUnique({Plain})
    /\ UNCHANGED <<done, started, listed, failures>>

\* A branch push claims the next generation for its own page job, and on the
\* default branch inserts the repository's head-observing variant.
ClaimGeneration(inserted) ==
    /\ gen < MaxGen
    /\ gen' = gen + 1
    /\ done' = gen + 1
    /\ job' = InsertUnique(inserted)
    /\ UNCHANGED <<started, listed, failures>>

-----------------------------------------------------------------------------
(* Workers                                                                 *)

\* River hands the job to a worker, which snapshots the generation.
Start(v) ==
    /\ job[v] = "queued"
    /\ job' = [job EXCEPT ![v] = "running"]
    /\ started' = [started EXCEPT ![v] = gen]
    /\ UNCHANGED <<gen, done, listed, failures>>

\* completeRefresh without the recheck of the generation.
CompleteWithoutRecheck(v) ==
    /\ job[v] = "running"
    /\ done' = IF started[v] > done THEN started[v] ELSE done
    /\ job' = [job EXCEPT ![v] = "none"]
    /\ UNCHANGED <<gen, started, listed, failures>>

\* completeRefresh that completes whatever generation the row now carries.
CompleteCurrentGeneration(v) ==
    /\ job[v] = "running"
    /\ done' = gen
    /\ job' = [job EXCEPT ![v] = "none"]
    /\ UNCHANGED <<gen, started, listed, failures>>

\* The completion transaction: the job leaves River, the generation the
\* worker started from is complete, and a signal that arrived while it ran
\* and that nobody else has completed gets a follow-up job.
CompleteRefresh(v) ==
    /\ job[v] = "running"
    /\ done' = IF started[v] > done THEN started[v] ELSE done
    /\ job' = [job EXCEPT ![v] =
                 IF gen > started[v] /\ done < gen THEN "queued" ELSE "none"]
    /\ UNCHANGED <<gen, started, listed, failures>>

\* The work or the completion fails, or the process dies: River retries.
RetryJob(v) ==
    /\ job[v] = "running"
    /\ failures < MaxFaults
    /\ failures' = failures + 1
    /\ job' = [job EXCEPT ![v] = "queued"]
    /\ UNCHANGED <<gen, done, started, listed>>

\* River exhausts the attempts or an operator cancels the job.
DiscardJob(v) ==
    /\ job[v] # "none"
    /\ failures < MaxFaults
    /\ failures' = failures + 1
    /\ job' = [job EXCEPT ![v] = "none"]
    /\ UNCHANGED <<gen, done, started, listed>>

-----------------------------------------------------------------------------
(* The orphan reconciler                                                   *)

\* The scan reads outstanding rows without a lock.
ListOutstanding ==
    /\ ~listed
    /\ Outstanding
    /\ listed' = TRUE
    /\ UNCHANGED <<gen, done, job, started, failures>>

\* The reconciler that only reports a listed row.
SkipReinsert ==
    /\ listed
    /\ listed' = FALSE
    /\ UNCHANGED <<gen, done, job, started, failures>>

\* Under the completion lock the row is read again, and a generation that is
\* still outstanding gets the producer's unique insert.
ReinsertPointer ==
    /\ listed
    /\ listed' = FALSE
    /\ job' = IF Outstanding THEN InsertUnique({Plain}) ELSE job
    /\ UNCHANGED <<gen, done, started, failures>>

-----------------------------------------------------------------------------
QueueNext ==
    \/ InsertRefreshes
    \/ \E inserted \in {{}, Variants \ {Plain}} : ClaimGeneration(inserted)
    \/ \E v \in Variants :
          Start(v) \/ CompleteRefresh(v) \/ RetryJob(v) \/ DiscardJob(v)
    \/ ListOutstanding
    \/ ReinsertPointer

QueueSpec == QueueInit /\ [][QueueNext]_queueVars

-----------------------------------------------------------------------------
(* Properties                                                              *)

\* Types of the row, of River's jobs and of the workers' snapshots.
QueueTypeOK ==
    /\ gen \in 0..MaxGen
    /\ done \in 0..MaxGen
    /\ job \in [Variants -> JobStates]
    /\ started \in [Variants -> 0..MaxGen]
    /\ listed \in BOOLEAN
    /\ failures \in 0..MaxFaults

\* completed_generation never passes generation and no worker holds a
\* generation that was never issued, whatever claims, stale completions and
\* discarded jobs interleave (CompleteRefreshIntentGeneration, GREATEST).
CompletedWithinIssued ==
    /\ done <= gen
    /\ \A v \in Variants : started[v] <= gen

\* C-R5, orphan.go:37: an outstanding generation loses its last live job only
\* when River discards that job.  No interleaving of signals, claims, stale
\* completions and reconciliation drops a signal on the floor.
OutstandingLosesWorkOnlyByDiscard ==
    [][ (Outstanding /\ \A v \in Variants : ~Live(v))' =>
          \/ Outstanding /\ \A v \in Variants : ~Live(v)
          \/ \E v \in Variants : DiscardJob(v) ]_queueVars

\* A generation is complete only because a worker that started at or after
\* it finished, or because a push claimed it: completion takes done to no
\* generation younger than the snapshot of a job that is running.
CompletionCoversOnlyItsSnapshot ==
    [][ done' > done =>
          \/ \E v \in Variants : job[v] = "running" /\ done' = started[v]
          \/ gen' = gen + 1 ]_queueVars

\* Every signal is eventually completed, through coalescing onto running
\* jobs, failed attempts and discarded pointers.
EverySignalCompletes ==
    []<>(done = gen)
=============================================================================
