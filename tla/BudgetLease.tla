----------------------------- MODULE BudgetLease ----------------------------
(***************************************************************************)
(* internal/budget/lease.go: the installation budgeter is a singleton      *)
(* across processes, held by a lease in installation_budgets.  Every       *)
(* runtime has its own random token, acquires the row, renews it, saves    *)
(* snapshots to it, watches its own expiry, and drains and releases when   *)
(* it closes; a standby waits for the row to be free or expired.           *)
(*                                                                         *)
(* A deadline is the time left until it: Tick takes one unit off every     *)
(* deadline at once, whoever is slow.  The database's and the processes'   *)
(* clocks are therefore taken to agree.  Of a snapshot only the backoff of *)
(* one credential context is kept (the observed limits are BudgetGate's).  *)
(***************************************************************************)
EXTENDS Naturals

CONSTANTS
  Runtimes,     \* lease tokens: one for each process start
  Nobody,       \* lease_owner IS NULL
  TTL,          \* lease duration
  RetryAfter,   \* waits GitHub may impose
  MaxInFlight   \* bound: calls of a runtime waiting for an answer

ASSUME LeaseConstants ==
  /\ Nobody \notin Runtimes
  /\ TTL \in Nat \ {0}
  /\ RetryAfter \subseteq Nat
  /\ MaxInFlight \in Nat

VARIABLES
  owner, rowLeft, rowBackoff,  \* installation_budgets: lease_owner, lease_until, backoff_until
  phase,      \* how far each runtime is in its life
  avail,      \* g.unavailable: "open" when nil, else why it is closed
  leaseLeft,  \* g.leaseUntil
  backoff,    \* g.backoffUntil
  cancelled,  \* the lease context
  op, opLeft, \* the maintenance loop's store call and the value it carries
  expiry,     \* the watchdog's timer
  update,     \* expiryUpdates: at most one confirmed expiry
  limited,    \* backoffs being persisted by the calls that met them
  inFlight    \* admitted calls that wait for an answer

rowVars == <<owner, rowLeft, rowBackoff>>
loopVars == <<op, opLeft, expiry, update>>
gateState == <<avail, leaseLeft, backoff, cancelled, inFlight>>
leaseVars == <<rowVars, phase, gateState, loopVars, limited>>

LeaseInit ==
  /\ owner = Nobody /\ rowLeft = 0 /\ rowBackoff = 0
  /\ phase = [r \in Runtimes |-> "standby"]
  /\ avail = [r \in Runtimes |-> "none"]
  /\ leaseLeft = [r \in Runtimes |-> 0]
  /\ backoff = [r \in Runtimes |-> 0]
  /\ cancelled = [r \in Runtimes |-> FALSE]
  /\ op = [r \in Runtimes |-> "none"]
  /\ opLeft = [r \in Runtimes |-> 0]
  /\ expiry = [r \in Runtimes |-> 0]
  /\ update = [r \in Runtimes |-> {}]
  /\ limited = [r \in Runtimes |-> {}]
  /\ inFlight = [r \in Runtimes |-> 0]

Larger(m, n) == IF m < n THEN n ELSE m
Elapsed(n) == IF n = 0 THEN 0 ELSE n - 1

\* lease_owner = token AND lease_until > clock_timestamp()
Owns(r) == owner = r /\ rowLeft > 0

-----------------------------------------------------------------------------
(* Acquisition.                                                            *)

\* The mutated statement: the stored backoff is not restored.
AcquireForgetful(r) ==
  /\ phase[r] = "standby"
  /\ owner \in {Nobody, r} \/ rowLeft = 0
  /\ owner' = r /\ rowLeft' = TTL
  /\ phase' = [phase EXCEPT ![r] = "acquired"]
  /\ leaseLeft' = [leaseLeft EXCEPT ![r] = TTL]
  /\ UNCHANGED <<rowBackoff, avail, backoff, cancelled, inFlight, loopVars, limited>>

\* AcquireInstallationBudgetLease: the row is free or expired.  The statement
\* returns the stored backoff, which the new gate restores.
Acquire(r) ==
  /\ phase[r] = "standby"
  /\ owner \in {Nobody, r} \/ rowLeft = 0
  /\ owner' = r /\ rowLeft' = TTL
  /\ phase' = [phase EXCEPT ![r] = "acquired"]
  /\ leaseLeft' = [leaseLeft EXCEPT ![r] = TTL]
  /\ backoff' = [backoff EXCEPT ![r] = rowBackoff]
  /\ UNCHANGED <<rowBackoff, avail, cancelled, inFlight, loopVars, limited>>

\* NewLeased goes on: the gate opens and its maintenance starts.
AcquireReturns(r) ==
  /\ phase[r] = "acquired" /\ leaseLeft[r] > 0
  /\ phase' = [phase EXCEPT ![r] = "running"]
  /\ avail' = [avail EXCEPT ![r] = "open"]
  /\ expiry' = [expiry EXCEPT ![r] = leaseLeft[r]]
  /\ UNCHANGED <<rowVars, leaseLeft, backoff, cancelled, inFlight, op, opLeft,
                 update, limited>>

\* ReleaseInstallationBudgetLease, which checks only the token.
Release(r) ==
  IF owner = r THEN owner' = Nobody /\ rowLeft' = 0 ELSE UNCHANGED <<owner, rowLeft>>

\* The acquired lease had already expired: it is released and NewLeased fails.
AcquireTooLate(r) ==
  /\ phase[r] = "acquired" /\ leaseLeft[r] = 0
  /\ Release(r)
  /\ phase' = [phase EXCEPT ![r] = "ended"]
  /\ UNCHANGED <<rowBackoff, gateState, loopVars, limited>>

\* The standby's context is cancelled.
StandbyCancelled(r) ==
  /\ phase[r] = "standby"
  /\ phase' = [phase EXCEPT ![r] = "ended"]
  /\ UNCHANGED <<rowVars, gateState, loopVars, limited>>

-----------------------------------------------------------------------------
(* The gate, as far as the lease goes.                                     *)

\* tryAdmit, up to the backoff check.
Admit(r) ==
  /\ avail[r] = "open" /\ leaseLeft[r] > 0 /\ backoff[r] = 0
  /\ inFlight[r] < MaxInFlight
  /\ inFlight' = [inFlight EXCEPT ![r] = @ + 1]
  /\ UNCHANGED <<rowVars, phase, avail, leaseLeft, backoff, cancelled, loopVars,
                 limited>>

\* The lease context ends: the watchdog returns.
StopWatch(r) ==
  /\ cancelled' = [cancelled EXCEPT ![r] = TRUE]
  /\ expiry' = [expiry EXCEPT ![r] = 0]
  /\ update' = [update EXCEPT ![r] = {}]

\* tryAdmit notices the expiry before the watchdog does.
AdmitExpired(r) ==
  /\ avail[r] = "open" /\ leaseLeft[r] = 0
  /\ avail' = [avail EXCEPT ![r] = "lost"]
  /\ StopWatch(r)
  /\ UNCHANGED <<rowVars, phase, leaseLeft, backoff, inFlight, op, opLeft, limited>>

\* A call ends.
Finish(r) ==
  /\ inFlight[r] > 0
  /\ inFlight' = [inFlight EXCEPT ![r] = @ - 1]
  /\ UNCHANGED <<rowVars, phase, avail, leaseLeft, backoff, cancelled, loopVars,
                 limited>>

\* observeSecondaryLimit: the gate closes the context in memory; when that
\* moved the deadline the call persists it before it ends.
SecondaryLimit(r) ==
  /\ inFlight[r] > 0
  /\ inFlight' = [inFlight EXCEPT ![r] = @ - 1]
  /\ \E d \in RetryAfter :
       /\ d > backoff[r]
       /\ backoff' = [backoff EXCEPT ![r] = d]
       /\ limited' = [limited EXCEPT ![r] = @ \cup {d}]
  /\ UNCHANGED <<rowVars, phase, avail, leaseLeft, cancelled, loopVars>>

\* loseLease: admission stops, renewal is cancelled, calls are aborted; a
\* call that is persisting a backoff goes on (context.WithoutCancel).
LoseLease(r) ==
  /\ avail' = [avail EXCEPT ![r] = IF @ = "open" THEN "lost" ELSE @]
  /\ StopWatch(r)
  /\ inFlight' = [inFlight EXCEPT ![r] = 0]
  /\ UNCHANGED <<leaseLeft, backoff>>

\* persistBackoff: SaveInstallationBudgetBackoff raises the stored deadline
\* under the token; ownership lost closes the gate; after a transport error
\* the in-memory deadline stands alone.
PersistBackoff(r) ==
  /\ \E d \in limited[r] :
       /\ limited' = [limited EXCEPT ![r] = @ \ {d}]
       /\ \/ /\ Owns(r)
             /\ rowBackoff' = Larger(rowBackoff, d)
             /\ UNCHANGED <<owner, rowLeft, gateState, expiry, update>>
          \/ ~Owns(r) /\ LoseLease(r) /\ UNCHANGED rowVars
          \/ UNCHANGED <<rowVars, gateState, expiry, update>>
  /\ UNCHANGED <<phase, op, opLeft>>

-----------------------------------------------------------------------------
(* Maintenance.                                                            *)

LoopRuns(r) == phase[r] \in {"running", "closing"} /\ ~cancelled[r]

\* The renewal or the snapshot timer fires: the store call is made; a
\* snapshot carries the backoff of this moment.
StoreCall(r) ==
  /\ LoopRuns(r) /\ op[r] = "none"
  /\ \/ op' = [op EXCEPT ![r] = "renewing"] /\ UNCHANGED opLeft
     \/ /\ op' = [op EXCEPT ![r] = "saving"]
        /\ opLeft' = [opLeft EXCEPT ![r] = backoff[r]]
  /\ UNCHANGED <<rowVars, phase, gateState, expiry, update, limited>>

\* The mutated statement: a renewal checks the expiry but not the token.
RenewUnfenced(r) ==
  /\ op[r] = "renewing"
  /\ IF rowLeft > 0
     THEN /\ rowLeft' = TTL
          /\ op' = [op EXCEPT ![r] = "renewed"]
          /\ opLeft' = [opLeft EXCEPT ![r] = TTL]
     ELSE op' = [op EXCEPT ![r] = "refused"] /\ UNCHANGED <<rowLeft, opLeft>>
  /\ UNCHANGED <<owner, rowBackoff, phase, gateState, expiry, update, limited>>

\* RenewInstallationBudgetLease.
Renew(r) ==
  /\ op[r] = "renewing"
  /\ IF Owns(r)
     THEN /\ rowLeft' = TTL
          /\ op' = [op EXCEPT ![r] = "renewed"]
          /\ opLeft' = [opLeft EXCEPT ![r] = TTL]
     ELSE op' = [op EXCEPT ![r] = "refused"] /\ UNCHANGED <<rowLeft, opLeft>>
  /\ UNCHANGED <<owner, rowBackoff, phase, gateState, expiry, update, limited>>

\* SaveInstallationBudgetSnapshot: backoff_until is only ever raised.
Save(r) ==
  /\ op[r] = "saving"
  /\ IF Owns(r)
     THEN rowBackoff' = Larger(rowBackoff, opLeft[r]) /\ op' = [op EXCEPT ![r] = "none"]
     ELSE op' = [op EXCEPT ![r] = "refused"] /\ UNCHANGED rowBackoff
  /\ opLeft' = [opLeft EXCEPT ![r] = 0]
  /\ UNCHANGED <<owner, rowLeft, phase, gateState, expiry, update, limited>>

\* A store call fails in transport, before or after it took effect: the loop
\* retries later and draws no conclusion about ownership.
StoreCallFails(r) ==
  /\ op[r] # "none"
  /\ op' = [op EXCEPT ![r] = "none"]
  /\ opLeft' = [opLeft EXCEPT ![r] = 0]
  /\ UNCHANGED <<rowVars, phase, gateState, expiry, update, limited>>

\* A renewal is confirmed while it is still in the future: the gate's expiry
\* moves, unless it is closed, and the watchdog is told.
RenewReturns(r) ==
  /\ op[r] = "renewed" /\ opLeft[r] > 0
  /\ op' = [op EXCEPT ![r] = "none"]
  /\ opLeft' = [opLeft EXCEPT ![r] = 0]
  /\ leaseLeft' = [leaseLeft EXCEPT ![r] = IF avail[r] = "open" THEN opLeft[r] ELSE @]
  /\ update' = [update EXCEPT ![r] = IF cancelled[r] THEN @ ELSE {opLeft[r]}]
  /\ UNCHANGED <<rowVars, phase, avail, backoff, cancelled, inFlight, expiry, limited>>

\* A renewal or a snapshot was refused, or confirmed an expiry already past.
StoreCallRefused(r) ==
  /\ op[r] = "refused" \/ (op[r] = "renewed" /\ opLeft[r] = 0)
  /\ op' = [op EXCEPT ![r] = "none"]
  /\ opLeft' = [opLeft EXCEPT ![r] = 0]
  /\ LoseLease(r)
  /\ UNCHANGED <<rowVars, phase, limited>>

\* The loop sees its context cancelled while the gate was not being closed.
LoopCancelled(r) ==
  /\ phase[r] \in {"running", "closing"} /\ cancelled[r] /\ op[r] = "none"
  /\ avail[r] # "closed" /\ inFlight[r] > 0
  /\ LoseLease(r)
  /\ UNCHANGED <<rowVars, phase, op, opLeft, limited>>

\* watchLeaseExpiry: a confirmed expiry resets the timer; when the timer
\* fires the lease is lost, even if an update is waiting as well.
WatchUpdate(r) ==
  /\ LoopRuns(r) /\ update[r] # {}
  /\ \E e \in update[r] : expiry' = [expiry EXCEPT ![r] = e]
  /\ update' = [update EXCEPT ![r] = {}]
  /\ UNCHANGED <<rowVars, phase, gateState, op, opLeft, limited>>

WatchExpires(r) ==
  /\ LoopRuns(r) /\ expiry[r] = 0
  /\ LoseLease(r)
  /\ UNCHANGED <<rowVars, phase, op, opLeft, limited>>

-----------------------------------------------------------------------------
(* Close, and the end of a process.                                        *)

\* Admission stops; renewal stays alive while admitted calls drain.
Close(r) ==
  /\ phase[r] = "running"
  /\ phase' = [phase EXCEPT ![r] = "closing"]
  /\ avail' = [avail EXCEPT ![r] = IF @ = "open" THEN "closed" ELSE @]
  /\ UNCHANGED <<rowVars, leaseLeft, backoff, cancelled, inFlight, loopVars, limited>>

\* The calls have drained, or the deadline passed and they are aborted; the
\* maintenance is told to stop.
Drained(r) ==
  /\ phase[r] = "closing"
  /\ phase' = [phase EXCEPT ![r] = "stopping"]
  /\ inFlight' = [inFlight EXCEPT ![r] = 0]
  /\ StopWatch(r)
  /\ UNCHANGED <<rowVars, avail, leaseLeft, backoff, op, opLeft, limited>>

\* Maintenance has ended; the final snapshot is saved, refused or fails.
FinalSave(r) ==
  /\ phase[r] = "stopping" /\ op[r] = "none"
  /\ phase' = [phase EXCEPT ![r] = "saved"]
  /\ \/ Owns(r) /\ rowBackoff' = Larger(rowBackoff, backoff[r])
     \/ UNCHANGED rowBackoff
  /\ UNCHANGED <<owner, rowLeft, gateState, loopVars, limited>>

\* Maintenance does not end in time: Close gives up and the lease is left to
\* expire.
StopTimesOut(r) ==
  /\ phase[r] = "stopping" /\ op[r] # "none"
  /\ phase' = [phase EXCEPT ![r] = "ended"]
  /\ UNCHANGED <<rowVars, gateState, loopVars, limited>>

\* The release is tried once, whatever became of the snapshot.
FinalRelease(r) ==
  /\ phase[r] = "saved"
  /\ phase' = [phase EXCEPT ![r] = "ended"]
  /\ Release(r) \/ UNCHANGED <<owner, rowLeft>>
  /\ UNCHANGED <<rowBackoff, gateState, loopVars, limited>>

\* The process dies, and its memory, its calls and its store calls with it.
Crash(r) ==
  /\ phase[r] \notin {"standby", "ended"}
  /\ phase' = [phase EXCEPT ![r] = "ended"]
  /\ avail' = [avail EXCEPT ![r] = "lost"]
  /\ StopWatch(r)
  /\ leaseLeft' = [leaseLeft EXCEPT ![r] = 0]
  /\ backoff' = [backoff EXCEPT ![r] = 0]
  /\ inFlight' = [inFlight EXCEPT ![r] = 0]
  /\ op' = [op EXCEPT ![r] = "none"]
  /\ opLeft' = [opLeft EXCEPT ![r] = 0]
  /\ limited' = [limited EXCEPT ![r] = {}]
  /\ UNCHANGED rowVars

Tick ==
  /\ rowLeft' = Elapsed(rowLeft)
  /\ rowBackoff' = Elapsed(rowBackoff)
  /\ leaseLeft' = [r \in Runtimes |-> Elapsed(leaseLeft[r])]
  /\ backoff' = [r \in Runtimes |-> Elapsed(backoff[r])]
  /\ opLeft' = [r \in Runtimes |-> Elapsed(opLeft[r])]
  /\ expiry' = [r \in Runtimes |-> Elapsed(expiry[r])]
  /\ update' = [r \in Runtimes |-> {Elapsed(e) : e \in update[r]}]
  /\ limited' = [r \in Runtimes |-> {Elapsed(d) : d \in limited[r]}]
  /\ UNCHANGED <<owner, phase, avail, cancelled, inFlight, op>>

-----------------------------------------------------------------------------
Starting(r) == Acquire(r) \/ AcquireReturns(r) \/ AcquireTooLate(r)
Looping(r) ==
  \/ Renew(r) \/ Save(r) \/ RenewReturns(r) \/ StoreCallRefused(r)
  \/ LoopCancelled(r)
Watching(r) == WatchUpdate(r) \/ WatchExpires(r)
Closing(r) == Drained(r) \/ FinalSave(r) \/ StopTimesOut(r) \/ FinalRelease(r)

LeaseNext ==
  \/ Tick
  \/ \E r \in Runtimes :
       \/ Starting(r) \/ StandbyCancelled(r)
       \/ Admit(r) \/ AdmitExpired(r) \/ Finish(r)
       \/ SecondaryLimit(r) \/ PersistBackoff(r)
       \/ StoreCall(r) \/ StoreCallFails(r) \/ Looping(r) \/ Watching(r)
       \/ Close(r) \/ Closing(r) \/ Crash(r)

LeaseSpec == LeaseInit /\ [][LeaseNext]_leaseVars

-----------------------------------------------------------------------------
(* Properties.                                                             *)

LeaseTypeOK ==
  /\ owner \in Runtimes \cup {Nobody} /\ rowLeft \in Nat /\ rowBackoff \in Nat
  /\ phase \in [Runtimes -> {"standby", "acquired", "running", "closing",
                             "stopping", "saved", "ended"}]
  /\ avail \in [Runtimes -> {"none", "open", "lost", "closed"}]
  /\ leaseLeft \in [Runtimes -> Nat]
  /\ backoff \in [Runtimes -> Nat]
  /\ cancelled \in [Runtimes -> BOOLEAN]
  /\ op \in [Runtimes -> {"none", "renewing", "renewed", "saving", "refused"}]
  /\ opLeft \in [Runtimes -> Nat]
  /\ expiry \in [Runtimes -> Nat]
  /\ update \in [Runtimes -> SUBSET Nat]
  /\ limited \in [Runtimes -> SUBSET Nat]
  /\ inFlight \in [Runtimes -> 0..MaxInFlight]

\* The gate would admit a call of runtime r now, backoff aside.
Serving(r) == avail[r] = "open" /\ leaseLeft[r] > 0

\* C-B1: a gate admits only while its runtime owns the unexpired lease in the
\* database, so no two processes admit calls at the same time, however late
\* renewals return, are lost, or race with expiry, takeover and Close.
AdmitsOnlyAsOwner == \A r \in Runtimes : Serving(r) => Owns(r)

\* observeSecondaryLimit: "losing this credential-context closure on handoff is
\* unsafe".  A gate that can admit honours every backoff any owner persisted.
HonoursPersistedBackoff ==
  \A r \in Runtimes : Serving(r) => backoff[r] >= rowBackoff

\* backoff_until moves only forward: no snapshot taken before a backoff was
\* met lowers it, only time does.
BackoffOnlyRaised == [][rowBackoff' >= rowBackoff \/ Tick]_leaseVars
=============================================================================
