------------------------- MODULE BudgetProofs --------------------------
(***************************************************************************)
(* The lease's safety properties for any set of runtimes, any lease        *)
(* duration and any waits GitHub imposes.  AdmitsOnlyAsOwner is not        *)
(* inductive: the deadline a gate believes in may come from a renewal that *)
(* is still travelling, so the invariant bounds every deadline in flight   *)
(* by the one in the row, and bounds the row's backoff by its owner's; a   *)
(* renewal must not shorten the row, so the row is bounded by TTL.         *)
(***************************************************************************)
EXTENDS BudgetLease, BudgetGate, FiniteSetTheorems, TLAPS

\* A deadline runtime r may come to rely on is at most the row's, and the row
\* is r's.
ClaimOK(r) ==
  /\ (avail[r] = "open" \/ phase[r] = "acquired") /\ leaseLeft[r] > 0
       => owner = r /\ rowLeft >= leaseLeft[r]
  /\ avail[r] = "open" /\ op[r] = "renewed" /\ opLeft[r] > 0
       => owner = r /\ rowLeft >= opLeft[r]

\* Only a running runtime has an open gate, and a standby owns nothing.
PhaseOK(r) ==
  /\ avail[r] = "open" => phase[r] = "running"
  /\ phase[r] = "standby" => owner # r
  /\ phase[r] \in {"standby", "acquired"} =>
       op[r] = "none" /\ limited[r] = {} /\ avail[r] = "none" /\ inFlight[r] = 0

\* What the owner knows of the backoff is at least what the row holds and
\* what its calls and its snapshots are about to write.
BackoffOK(r) ==
  /\ owner = r /\ phase[r] # "ended" => backoff[r] >= rowBackoff
  /\ \A d \in limited[r] : d <= backoff[r]
  /\ op[r] = "saving" => opLeft[r] <= backoff[r]

\* The row never promises more than a renewal made now would.
LeaseInv ==
  /\ LeaseTypeOK
  /\ rowLeft <= TTL
  /\ \A r \in Runtimes : ClaimOK(r) /\ PhaseOK(r) /\ BackoffOK(r)

\* The empty row and the standbys satisfy the invariant.
LEMMA LeaseInitInv == LeaseInit => LeaseInv
  BY LeaseConstants
  DEF LeaseInit, LeaseInv, LeaseTypeOK, ClaimOK, PhaseOK, BackoffOK

\* Passing time keeps every order between deadlines.
LEMMA ElapsedMonotone ==
    ASSUME NEW m \in Nat, NEW n \in Nat
    PROVE  /\ Elapsed(m) \in Nat
           /\ m <= n => Elapsed(m) <= Elapsed(n)
           /\ Elapsed(m) > 0 => m > 0
  BY DEF Elapsed

\* Time passing preserves the invariant.
LEMMA TickInv == LeaseInv /\ Tick => LeaseInv'
<1> SUFFICES ASSUME LeaseInv, Tick PROVE LeaseInv'
  BY Zenon
<1> USE DEF LeaseInv
<1>1. LeaseTypeOK' /\ rowLeft' <= TTL
  BY LeaseConstants, ElapsedMonotone DEF LeaseTypeOK, Tick, Elapsed
<1>2. ASSUME NEW r \in Runtimes PROVE ClaimOK(r)'
  BY ZenonT(120), ElapsedMonotone DEF LeaseTypeOK, Tick, ClaimOK
<1>3. ASSUME NEW r \in Runtimes PROVE PhaseOK(r)'
  BY Zenon DEF LeaseTypeOK, Tick, PhaseOK
<1>4. ASSUME NEW r \in Runtimes PROVE BackoffOK(r)'
  <2>1. owner = r /\ phase[r] # "ended" => backoff'[r] >= rowBackoff'
    BY Zenon, ElapsedMonotone DEF LeaseTypeOK, Tick, BackoffOK
  <2>2. ASSUME NEW d \in limited'[r] PROVE d <= backoff'[r]
    <3>1. PICK e \in limited[r] : d = Elapsed(e)
      BY Zenon, <2>2 DEF Tick
    <3>2. e \in Nat /\ backoff[r] \in Nat /\ e <= backoff[r]
      BY Zenon DEF LeaseTypeOK, BackoffOK
    <3> QED
      BY Zenon, <3>1, <3>2, ElapsedMonotone DEF Tick
  <2>3. op[r] = "saving" => opLeft'[r] <= backoff'[r]
    BY Zenon, ElapsedMonotone DEF LeaseTypeOK, Tick, BackoffOK
  <2> QED
    BY Zenon, <2>1, <2>2, <2>3 DEF Tick, BackoffOK
<1> QED
  BY Zenon, <1>1, <1>2, <1>3, <1>4

\* A runtime of which nothing new is claimed keeps what is said of it.
LEMMA WeakerClaims ==
    ASSUME LeaseInv, NEW q \in Runtimes,
           owner' = owner, rowLeft' = rowLeft, rowBackoff' = rowBackoff,
           phase'[q] = phase[q], leaseLeft'[q] = leaseLeft[q], backoff'[q] = backoff[q],
           avail'[q] = "open" => avail[q] = "open",
           avail[q] = "none" => avail'[q] = "none",
           op'[q] = "none" \/ (op'[q] = op[q] /\ opLeft'[q] = opLeft[q]),
           limited'[q] \subseteq limited[q],
           inFlight[q] = 0 => inFlight'[q] = 0
    PROVE  ClaimOK(q)' /\ PhaseOK(q)' /\ BackoffOK(q)'
<1>1. ClaimOK(q) /\ PhaseOK(q) /\ BackoffOK(q)
  BY Zenon DEF LeaseInv
<1>2. ClaimOK(q)'
  BY Zenon, <1>1 DEF ClaimOK
<1>3. PhaseOK(q)'
  BY Zenon, <1>1 DEF PhaseOK
<1>4. BackoffOK(q)'
  BY Zenon, <1>1 DEF BackoffOK
<1> QED
  BY Zenon, <1>2, <1>3, <1>4

\* loseLease claims nothing new, whatever call of the store it follows.
LEMMA LoseLeaseInv ==
    ASSUME LeaseInv, NEW r \in Runtimes, LoseLease(r), UNCHANGED <<rowVars, phase>>,
           \/ UNCHANGED <<op, opLeft>>
           \/ op' = [op EXCEPT ![r] = "none"] /\ opLeft' = [opLeft EXCEPT ![r] = 0],
           limited' = limited \/ \E d : limited' = [limited EXCEPT ![r] = @ \ {d}]
    PROVE  LeaseInv'
<1>1. LeaseTypeOK /\ owner' = owner /\ rowLeft' = rowLeft /\ rowBackoff' = rowBackoff
  BY Zenon DEF LeaseInv, rowVars
<1>2. 0 \in 0..MaxInFlight /\ 0 \in Nat
  BY LeaseConstants
<1>3. /\ avail' = [avail EXCEPT ![r] = IF @ = "open" THEN "lost" ELSE @]
      /\ cancelled' = [cancelled EXCEPT ![r] = TRUE]
      /\ expiry' = [expiry EXCEPT ![r] = 0]
      /\ update' = [update EXCEPT ![r] = {}]
      /\ inFlight' = [inFlight EXCEPT ![r] = 0]
      /\ UNCHANGED <<leaseLeft, backoff>>
  BY Zenon DEF LoseLease, StopWatch
<1>4. /\ avail' \in [Runtimes -> {"none", "open", "lost", "closed"}]
      /\ cancelled' \in [Runtimes -> BOOLEAN] /\ expiry' \in [Runtimes -> Nat]
      /\ update' \in [Runtimes -> SUBSET Nat] /\ inFlight' \in [Runtimes -> 0..MaxInFlight]
  BY Zenon, <1>1, <1>2, <1>3 DEF LeaseTypeOK
<1>5. /\ op' \in [Runtimes -> {"none", "renewing", "renewed", "saving", "refused"}]
      /\ opLeft' \in [Runtimes -> Nat]
      /\ \A q \in Runtimes : op'[q] = "none" \/ (op'[q] = op[q] /\ opLeft'[q] = opLeft[q])
  <2>1. /\ op \in [Runtimes -> {"none", "renewing", "renewed", "saving", "refused"}]
        /\ opLeft \in [Runtimes -> Nat]
    BY Zenon, <1>1 DEF LeaseTypeOK
  <2>2. CASE UNCHANGED <<op, opLeft>>
    BY Zenon, <2>1, <2>2
  <2>3. CASE op' = [op EXCEPT ![r] = "none"] /\ opLeft' = [opLeft EXCEPT ![r] = 0]
    BY Zenon, <1>2, <2>1, <2>3
  <2> QED
    BY Zenon, <2>2, <2>3
<1>6. limited' \in [Runtimes -> SUBSET Nat] /\ \A q \in Runtimes : limited'[q] \subseteq limited[q]
  <2>1. limited \in [Runtimes -> SUBSET Nat]
    BY Zenon, <1>1 DEF LeaseTypeOK
  <2>2. CASE limited' = limited
    BY Zenon, <2>1, <2>2
  <2>3. ASSUME NEW d, limited' = [limited EXCEPT ![r] = @ \ {d}]
        PROVE  /\ limited' \in [Runtimes -> SUBSET Nat]
               /\ \A q \in Runtimes : limited'[q] \subseteq limited[q]
    <3>1. limited[r] \ {d} \in SUBSET Nat /\ limited[r] \ {d} \subseteq limited[r]
      BY Zenon, <2>1
    <3> QED
      BY Zenon, <2>1, <2>3, <3>1
  <2> QED
    BY Zenon, <2>2, <2>3
<1>7. LeaseTypeOK'
  BY Zenon, <1>1, <1>3, <1>4, <1>5, <1>6 DEF LeaseTypeOK
<1>8. \A q \in Runtimes :
        /\ avail'[q] = "open" => avail[q] = "open"
        /\ avail[q] = "none" => avail'[q] = "none"
        /\ inFlight[q] = 0 => inFlight'[q] = 0
  BY <1>1, <1>3 DEF LeaseTypeOK
<1>9. ASSUME NEW q \in Runtimes PROVE ClaimOK(q)' /\ PhaseOK(q)' /\ BackoffOK(q)'
  <2>1. phase'[q] = phase[q] /\ leaseLeft'[q] = leaseLeft[q] /\ backoff'[q] = backoff[q]
    BY Zenon, <1>3
  <2>2. /\ avail'[q] = "open" => avail[q] = "open"
        /\ avail[q] = "none" => avail'[q] = "none"
        /\ inFlight[q] = 0 => inFlight'[q] = 0
    BY Zenon, <1>8
  <2>3. op'[q] = "none" \/ (op'[q] = op[q] /\ opLeft'[q] = opLeft[q])
    BY Zenon, <1>5
  <2>4. limited'[q] \subseteq limited[q]
    BY Zenon, <1>6
  <2> QED
    BY Zenon, <1>1, <2>1, <2>2, <2>3, <2>4, WeakerClaims
<1> QED
  BY Zenon, <1>1, <1>7, <1>9 DEF LeaseInv

\* A renewal only lengthens the row of its owner.
LEMMA RenewInv ==
    ASSUME LeaseInv, NEW r \in Runtimes, Renew(r)
    PROVE  LeaseInv'
<1>1. /\ LeaseTypeOK /\ rowLeft <= TTL /\ op[r] = "renewing" /\ TTL \in Nat
      /\ UNCHANGED <<owner, rowBackoff, phase, gateState, expiry, update, limited>>
  BY Zenon, LeaseConstants DEF LeaseInv, Renew
<1>2. CASE ~Owns(r)
  <2>1. op' = [op EXCEPT ![r] = "refused"] /\ UNCHANGED <<rowLeft, opLeft>>
    BY Zenon, <1>2 DEF Renew
  <2>2. LeaseTypeOK'
    BY Zenon, <1>1, <2>1 DEF LeaseTypeOK, gateState
  <2>3. ASSUME NEW q \in Runtimes PROVE ClaimOK(q)' /\ PhaseOK(q)' /\ BackoffOK(q)'
    <3>1. ClaimOK(q) /\ PhaseOK(q) /\ BackoffOK(q)
      BY Zenon DEF LeaseInv
    <3>2. op'[q] = op[q] \/ (op'[q] = "refused" /\ op[q] = "renewing")
      BY Zenon, <1>1, <2>1 DEF LeaseTypeOK
    <3>3. ClaimOK(q)'
      BY Zenon, <1>1, <2>1, <3>1, <3>2 DEF ClaimOK, gateState
    <3>4. PhaseOK(q)'
      BY Zenon, <1>1, <2>1, <3>1, <3>2 DEF PhaseOK, gateState
    <3>5. BackoffOK(q)'
      BY Zenon, <1>1, <2>1, <3>1, <3>2 DEF BackoffOK, gateState
    <3> QED
      BY Zenon, <3>3, <3>4, <3>5
  <2> QED
    BY Zenon, <1>1, <2>1, <2>2, <2>3 DEF LeaseInv
<1>3. CASE Owns(r)
  <2>1. /\ rowLeft' = TTL /\ op' = [op EXCEPT ![r] = "renewed"]
        /\ opLeft' = [opLeft EXCEPT ![r] = TTL] /\ owner = r
    BY Zenon, <1>3 DEF Renew, Owns
  <2>2. LeaseTypeOK' /\ rowLeft' <= TTL
    <3>1. TTL <= TTL
      BY <1>1
    <3> QED
      BY Zenon, <1>1, <2>1, <3>1 DEF LeaseTypeOK, gateState
  <2>3. ASSUME NEW q \in Runtimes PROVE ClaimOK(q)' /\ PhaseOK(q)' /\ BackoffOK(q)'
    <3>1. ClaimOK(q) /\ PhaseOK(q) /\ BackoffOK(q)
      BY Zenon DEF LeaseInv
    <3>2. /\ q # r => op'[q] = op[q] /\ opLeft'[q] = opLeft[q]
          /\ q = r => op'[q] = "renewed" /\ opLeft'[q] = TTL
      BY Zenon, <1>1, <2>1 DEF LeaseTypeOK
    <3>3. ClaimOK(q)'
      <4>1. leaseLeft[q] \in Nat /\ rowLeft \in Nat
        BY Zenon, <1>1 DEF LeaseTypeOK
      <4>2. TTL >= TTL /\ (rowLeft >= leaseLeft[q] => TTL >= leaseLeft[q])
        BY <1>1, <4>1
      <4> QED
        BY Zenon, <1>1, <2>1, <3>1, <3>2, <4>2 DEF ClaimOK, gateState
    <3>4. PhaseOK(q)'
      BY Zenon, <1>1, <2>1, <3>1, <3>2 DEF PhaseOK, gateState
    <3>5. BackoffOK(q)'
      BY Zenon, <1>1, <2>1, <3>1, <3>2 DEF BackoffOK, gateState
    <3> QED
      BY Zenon, <3>3, <3>4, <3>5
  <2> QED
    BY Zenon, <2>2, <2>3 DEF LeaseInv
<1> QED
  BY Zenon, <1>2, <1>3

\* A confirmed renewal moves the deadline of the gate to one the row bounds.
LEMMA RenewReturnsInv ==
    ASSUME LeaseInv, NEW r \in Runtimes, RenewReturns(r)
    PROVE  LeaseInv'
<1>1. /\ LeaseTypeOK /\ op[r] = "renewed" /\ opLeft[r] > 0
      /\ op' = [op EXCEPT ![r] = "none"] /\ opLeft' = [opLeft EXCEPT ![r] = 0]
      /\ leaseLeft' = [leaseLeft EXCEPT ![r] = IF avail[r] = "open" THEN opLeft[r] ELSE @]
      /\ update' = [update EXCEPT ![r] = IF cancelled[r] THEN @ ELSE {opLeft[r]}]
      /\ UNCHANGED <<rowVars, phase, avail, backoff, cancelled, inFlight, expiry, limited>>
  BY Zenon DEF LeaseInv, RenewReturns
<1>2. 0 \in Nat
  OBVIOUS
<1>3. leaseLeft' \in [Runtimes -> Nat] /\ opLeft' \in [Runtimes -> Nat]
  BY Zenon, <1>1, <1>2 DEF LeaseTypeOK
<1>4. update' \in [Runtimes -> SUBSET Nat]
  BY <1>1 DEF LeaseTypeOK
<1>5. LeaseTypeOK'
  BY Zenon, <1>1, <1>3, <1>4 DEF LeaseTypeOK, rowVars
<1>6. ASSUME NEW q \in Runtimes, q # r PROVE ClaimOK(q)' /\ PhaseOK(q)' /\ BackoffOK(q)'
  <2>1. op'[q] = op[q] /\ opLeft'[q] = opLeft[q] /\ leaseLeft'[q] = leaseLeft[q]
    BY Zenon, <1>1, <1>6 DEF LeaseTypeOK
  <2>2. /\ owner' = owner /\ rowLeft' = rowLeft /\ rowBackoff' = rowBackoff
        /\ phase'[q] = phase[q] /\ backoff'[q] = backoff[q] /\ avail'[q] = avail[q]
        /\ limited'[q] \subseteq limited[q] /\ inFlight'[q] = inFlight[q]
    BY Zenon, <1>1 DEF rowVars
  <2> QED
    BY Zenon, <2>1, <2>2, WeakerClaims
<1>7. ClaimOK(r)' /\ PhaseOK(r)' /\ BackoffOK(r)'
  <2>1. ClaimOK(r) /\ PhaseOK(r) /\ BackoffOK(r)
    BY Zenon DEF LeaseInv
  <2>2. op'[r] = "none" /\ (avail[r] = "open" => leaseLeft'[r] = opLeft[r])
    BY Zenon, <1>1 DEF LeaseTypeOK
  <2>3. phase[r] # "acquired"
    BY Zenon, <1>1, <2>1 DEF PhaseOK
  <2>4. avail[r] = "open" => owner = r /\ rowLeft >= opLeft[r]
    BY Zenon, <1>1, <2>1 DEF ClaimOK
  <2>5. ClaimOK(r)'
    BY Zenon, <1>1, <2>2, <2>3, <2>4 DEF ClaimOK, rowVars
  <2>6. PhaseOK(r)'
    BY Zenon, <1>1, <2>1, <2>2 DEF PhaseOK, rowVars
  <2>7. BackoffOK(r)'
    BY Zenon, <1>1, <2>1, <2>2 DEF BackoffOK, rowVars
  <2> QED
    BY Zenon, <2>5, <2>6, <2>7
<1> QED
  BY Zenon, <1>1, <1>5, <1>6, <1>7 DEF LeaseInv, rowVars

\* What dies claims nothing.
LEMMA CrashInv ==
    ASSUME LeaseInv, NEW r \in Runtimes, Crash(r)
    PROVE  LeaseInv'
<1>1. /\ LeaseTypeOK /\ owner' = owner /\ rowLeft' = rowLeft /\ rowBackoff' = rowBackoff
  BY Zenon DEF LeaseInv, Crash, rowVars
<1>2. 0 \in 0..MaxInFlight /\ 0 \in Nat
  BY LeaseConstants
<1>3. /\ phase' = [phase EXCEPT ![r] = "ended"] /\ avail' = [avail EXCEPT ![r] = "lost"]
      /\ leaseLeft' = [leaseLeft EXCEPT ![r] = 0] /\ backoff' = [backoff EXCEPT ![r] = 0]
      /\ op' = [op EXCEPT ![r] = "none"] /\ opLeft' = [opLeft EXCEPT ![r] = 0]
      /\ limited' = [limited EXCEPT ![r] = {}] /\ inFlight' = [inFlight EXCEPT ![r] = 0]
  BY Zenon DEF Crash
<1>4. /\ cancelled' = [cancelled EXCEPT ![r] = TRUE] /\ expiry' = [expiry EXCEPT ![r] = 0]
      /\ update' = [update EXCEPT ![r] = {}]
  BY Zenon DEF Crash, StopWatch
<1>5. LeaseTypeOK'
  <2>1. /\ phase' \in [Runtimes -> {"standby", "acquired", "running", "closing",
                                    "stopping", "saved", "ended"}]
        /\ avail' \in [Runtimes -> {"none", "open", "lost", "closed"}]
        /\ op' \in [Runtimes -> {"none", "renewing", "renewed", "saving", "refused"}]
    BY Zenon, <1>1, <1>3 DEF LeaseTypeOK
  <2>2. /\ leaseLeft' \in [Runtimes -> Nat] /\ backoff' \in [Runtimes -> Nat]
        /\ opLeft' \in [Runtimes -> Nat] /\ limited' \in [Runtimes -> SUBSET Nat]
        /\ inFlight' \in [Runtimes -> 0..MaxInFlight]
    BY Zenon, <1>1, <1>2, <1>3 DEF LeaseTypeOK
  <2>3. /\ cancelled' \in [Runtimes -> BOOLEAN] /\ expiry' \in [Runtimes -> Nat]
        /\ update' \in [Runtimes -> SUBSET Nat]
    BY Zenon, <1>1, <1>2, <1>4 DEF LeaseTypeOK
  <2> QED
    BY Zenon, <1>1, <2>1, <2>2, <2>3 DEF LeaseTypeOK
<1>6. ASSUME NEW q \in Runtimes, q # r PROVE ClaimOK(q)' /\ PhaseOK(q)' /\ BackoffOK(q)'
  <2>1. /\ phase'[q] = phase[q] /\ avail'[q] = avail[q] /\ leaseLeft'[q] = leaseLeft[q]
        /\ backoff'[q] = backoff[q] /\ op'[q] = op[q] /\ opLeft'[q] = opLeft[q]
        /\ limited'[q] = limited[q] /\ inFlight'[q] = inFlight[q]
    BY Zenon, <1>1, <1>3, <1>6 DEF LeaseTypeOK
  <2> QED
    BY Zenon, <1>1, <2>1, WeakerClaims
<1>7. ClaimOK(r)' /\ PhaseOK(r)' /\ BackoffOK(r)'
  <2>1. phase'[r] = "ended" /\ avail'[r] = "lost" /\ op'[r] = "none" /\ limited'[r] = {}
    BY Zenon, <1>1, <1>3 DEF LeaseTypeOK
  <2> QED
    BY Zenon, <2>1 DEF ClaimOK, PhaseOK, BackoffOK
<1> QED
  BY Zenon, <1>1, <1>5, <1>6, <1>7 DEF LeaseInv

\* The final snapshot raises the row's backoff to what its owner knows at most.
LEMMA FinalSaveInv ==
    ASSUME LeaseInv, NEW r \in Runtimes, FinalSave(r)
    PROVE  LeaseInv'
<1>1. /\ LeaseTypeOK /\ phase[r] = "stopping" /\ phase' = [phase EXCEPT ![r] = "saved"]
      /\ UNCHANGED <<owner, rowLeft, gateState, loopVars, limited>>
  BY Zenon DEF LeaseInv, FinalSave
<1>2. /\ rowBackoff' \in Nat
      /\ rowBackoff' = rowBackoff \/ (owner = r /\ (backoff[r] >= rowBackoff => backoff[r] >= rowBackoff'))
  <2>1. rowBackoff \in Nat /\ backoff[r] \in Nat
    BY Zenon, <1>1 DEF LeaseTypeOK
  <2>2. (owner = r /\ rowBackoff' = Larger(rowBackoff, backoff[r])) \/ rowBackoff' = rowBackoff
    BY Zenon DEF FinalSave, Owns
  <2> QED
    BY <2>1, <2>2 DEF Larger
<1>3. LeaseTypeOK'
  BY Zenon, <1>1, <1>2 DEF LeaseTypeOK, gateState, loopVars
<1>4. ASSUME NEW q \in Runtimes PROVE ClaimOK(q)' /\ PhaseOK(q)' /\ BackoffOK(q)'
  <2>1. ClaimOK(q) /\ PhaseOK(q) /\ BackoffOK(q)
    BY Zenon DEF LeaseInv
  <2>2. phase'[q] = phase[q] \/ (phase[q] = "stopping" /\ phase'[q] = "saved")
    BY Zenon, <1>1 DEF LeaseTypeOK
  <2>3. ClaimOK(q)'
    BY Zenon, <1>1, <2>1, <2>2 DEF ClaimOK, gateState, loopVars
  <2>4. PhaseOK(q)'
    BY Zenon, <1>1, <2>1, <2>2 DEF PhaseOK, gateState, loopVars
  <2>5. BackoffOK(q)'
    BY Zenon, <1>1, <1>2, <2>1, <2>2 DEF BackoffOK, gateState, loopVars
  <2> QED
    BY Zenon, <2>3, <2>4, <2>5
<1> QED
  BY Zenon, <1>1, <1>3, <1>4 DEF LeaseInv

\* A wait GitHub imposes raises what the runtime knows of the backoff.
LEMMA SecondaryLimitInv ==
    ASSUME LeaseInv, NEW r \in Runtimes, SecondaryLimit(r)
    PROVE  LeaseInv'
<1>1. /\ LeaseTypeOK /\ rowLeft <= TTL /\ inFlight[r] > 0
      /\ inFlight' = [inFlight EXCEPT ![r] = @ - 1]
      /\ owner' = owner /\ rowLeft' = rowLeft /\ rowBackoff' = rowBackoff
      /\ UNCHANGED <<phase, avail, leaseLeft, cancelled, op, opLeft, expiry, update>>
  BY Zenon DEF LeaseInv, SecondaryLimit, rowVars, loopVars
<1>2. PICK d \in RetryAfter :
        /\ d > backoff[r]
        /\ backoff' = [backoff EXCEPT ![r] = d]
        /\ limited' = [limited EXCEPT ![r] = @ \cup {d}]
  BY Zenon DEF SecondaryLimit
<1>3. /\ d \in Nat /\ backoff[r] \in Nat /\ rowBackoff \in Nat /\ opLeft[r] \in Nat
      /\ limited[r] \in SUBSET Nat /\ inFlight[r] \in 0..MaxInFlight /\ MaxInFlight \in Nat
  BY Zenon, <1>1, <1>2, LeaseConstants DEF LeaseTypeOK
<1>4. /\ inFlight[r] - 1 \in 0..MaxInFlight /\ inFlight[r] # 0 /\ d <= d
      /\ \A n \in Nat : (n <= backoff[r] => n <= d) /\ (backoff[r] >= n => d >= n)
  BY <1>1, <1>2, <1>3
<1>5. LeaseTypeOK'
  <2>1. inFlight' \in [Runtimes -> 0..MaxInFlight] /\ backoff' \in [Runtimes -> Nat]
    BY Zenon, <1>1, <1>2, <1>3, <1>4 DEF LeaseTypeOK
  <2>2. limited[r] \cup {d} \in SUBSET Nat
    BY Zenon, <1>3
  <2>3. limited' \in [Runtimes -> SUBSET Nat]
    BY Zenon, <1>1, <1>2, <2>2 DEF LeaseTypeOK
  <2> QED
    BY Zenon, <1>1, <2>1, <2>3 DEF LeaseTypeOK
<1>6. ASSUME NEW q \in Runtimes, q # r PROVE ClaimOK(q)' /\ PhaseOK(q)' /\ BackoffOK(q)'
  <2>1. /\ backoff'[q] = backoff[q] /\ inFlight'[q] = inFlight[q]
        /\ limited'[q] \subseteq limited[q]
    BY Zenon, <1>1, <1>2, <1>6 DEF LeaseTypeOK
  <2>2. /\ phase'[q] = phase[q] /\ leaseLeft'[q] = leaseLeft[q] /\ avail'[q] = avail[q]
        /\ op'[q] = op[q] /\ opLeft'[q] = opLeft[q]
    BY Zenon, <1>1
  <2> QED
    BY Zenon, <1>1, <2>1, <2>2, WeakerClaims
<1>7. ClaimOK(r)' /\ PhaseOK(r)' /\ BackoffOK(r)'
  <2>1. ClaimOK(r) /\ PhaseOK(r) /\ BackoffOK(r)
    BY Zenon DEF LeaseInv
  <2>2. ClaimOK(r)'
    BY Zenon, <1>1, <2>1 DEF ClaimOK
  <2>3. phase[r] \notin {"standby", "acquired"}
    BY Zenon, <1>4, <2>1 DEF PhaseOK
  <2>4. PhaseOK(r)'
    BY Zenon, <1>1, <2>1, <2>3 DEF PhaseOK
  <2>5. backoff'[r] = d /\ limited'[r] = limited[r] \cup {d}
    BY Zenon, <1>1, <1>2 DEF LeaseTypeOK
  <2>6. \A n \in limited'[r] : n <= backoff'[r]
    BY Zenon, <1>3, <1>4, <2>1, <2>5 DEF BackoffOK
  <2>7. BackoffOK(r)'
    BY Zenon, <1>1, <1>3, <1>4, <2>1, <2>5, <2>6 DEF BackoffOK
  <2> QED
    BY Zenon, <2>2, <2>4, <2>7
<1> QED
  BY Zenon, <1>1, <1>5, <1>6, <1>7 DEF LeaseInv

\* The acquisition of the row and its outcome preserve the invariant.
LEMMA StartInv ==
    ASSUME LeaseInv, NEW r \in Runtimes, Starting(r) \/ StandbyCancelled(r)
    PROVE  LeaseInv'
<1> USE LeaseConstants
    DEF LeaseInv, LeaseTypeOK, ClaimOK, PhaseOK, BackoffOK, rowVars, loopVars, gateState
<1>1. CASE Acquire(r)
  BY <1>1 DEF Acquire
<1>2. CASE AcquireReturns(r)
  BY <1>2 DEF AcquireReturns
<1>3. CASE AcquireTooLate(r)
  BY <1>3 DEF AcquireTooLate, Release
<1>4. CASE StandbyCancelled(r)
  BY <1>4 DEF StandbyCancelled
<1> HIDE LeaseConstants
    DEF LeaseInv, LeaseTypeOK, ClaimOK, PhaseOK, BackoffOK, rowVars, loopVars,
        gateState
<1> QED
  BY Zenon, <1>1, <1>2, <1>3, <1>4 DEF Starting

\* Calls, and the backoffs they meet and persist, preserve the invariant.
LEMMA CallInv ==
    ASSUME LeaseInv, NEW r \in Runtimes,
           \/ Admit(r) \/ AdmitExpired(r) \/ Finish(r)
           \/ SecondaryLimit(r) \/ PersistBackoff(r)
    PROVE  LeaseInv'
<1> USE LeaseConstants
    DEF LeaseInv, LeaseTypeOK, ClaimOK, PhaseOK, BackoffOK, rowVars, loopVars, gateState
<1>1. CASE Admit(r)
  BY <1>1 DEF Admit
<1>2. CASE AdmitExpired(r)
  BY <1>2 DEF AdmitExpired, StopWatch
<1>3. CASE Finish(r)
  BY <1>3 DEF Finish
<1>5. CASE PersistBackoff(r)
  <2>1. PICK d \in limited[r] :
          /\ limited' = [limited EXCEPT ![r] = @ \ {d}]
          /\ \/ /\ Owns(r)
                /\ rowBackoff' = Larger(rowBackoff, d)
                /\ UNCHANGED <<owner, rowLeft, gateState, expiry, update>>
             \/ ~Owns(r) /\ LoseLease(r) /\ UNCHANGED rowVars
             \/ UNCHANGED <<rowVars, gateState, expiry, update>>
    BY ZenonT(120), <1>5 DEF PersistBackoff
  <2>2. UNCHANGED <<phase, op, opLeft>> /\ d \in Nat
    BY Zenon, <1>5, <2>1 DEF PersistBackoff
  <2>3. CASE Owns(r) /\ UNCHANGED <<owner, rowLeft, gateState, expiry, update>>
                    /\ rowBackoff' = Larger(rowBackoff, d)
    BY ZenonT(120), <2>1, <2>2, <2>3 DEF Owns, Larger
  <2>5. CASE UNCHANGED <<rowVars, gateState, expiry, update>>
    BY ZenonT(120), <2>1, <2>2, <2>5
  <2> HIDE LeaseConstants
      DEF LeaseInv, LeaseTypeOK, ClaimOK, PhaseOK, BackoffOK, rowVars, loopVars,
          gateState
  <2>4. CASE LoseLease(r) /\ UNCHANGED rowVars
    BY Zenon, <2>1, <2>2, <2>4, LoseLeaseInv
  <2> QED
    BY Zenon, <2>1, <2>3, <2>4, <2>5
<1> HIDE LeaseConstants
    DEF LeaseInv, LeaseTypeOK, ClaimOK, PhaseOK, BackoffOK, rowVars, loopVars,
        gateState
<1>4. CASE SecondaryLimit(r)
  BY Zenon, <1>4, SecondaryLimitInv
<1> QED
  BY Zenon, <1>1, <1>2, <1>3, <1>4, <1>5

\* The maintenance loop and the watchdog preserve the invariant.
LEMMA LoopInv ==
    ASSUME LeaseInv, NEW r \in Runtimes,
           StoreCall(r) \/ StoreCallFails(r) \/ Looping(r) \/ Watching(r)
    PROVE  LeaseInv'
<1> USE LeaseConstants
    DEF LeaseInv, LeaseTypeOK, ClaimOK, PhaseOK, BackoffOK, rowVars, loopVars, gateState
<1>1. CASE StoreCall(r)
  BY <1>1 DEF StoreCall, LoopRuns
<1>2. CASE StoreCallFails(r)
  BY <1>2 DEF StoreCallFails
<1>4. CASE Save(r)
  BY <1>4 DEF Save, Owns, Larger
<1>8. CASE WatchUpdate(r)
  BY <1>8 DEF WatchUpdate
<1> HIDE LeaseConstants
    DEF LeaseInv, LeaseTypeOK, ClaimOK, PhaseOK, BackoffOK, rowVars, loopVars,
        gateState
<1>3. CASE Renew(r)
  BY Zenon, <1>3, RenewInv
<1>5. CASE RenewReturns(r)
  BY Zenon, <1>5, RenewReturnsInv
<1>6. CASE StoreCallRefused(r)
  BY Zenon, <1>6, LoseLeaseInv DEF StoreCallRefused
<1>7. CASE LoopCancelled(r)
  BY Zenon, <1>7, LoseLeaseInv DEF LoopCancelled
<1>9. CASE WatchExpires(r)
  BY Zenon, <1>9, LoseLeaseInv DEF WatchExpires
<1> QED
  BY ZenonT(120), <1>1, <1>2, <1>3, <1>4, <1>5, <1>6, <1>7, <1>8, <1>9
     DEF Looping, Watching

\* Close and the death of a process preserve the invariant.
LEMMA CloseInv ==
    ASSUME LeaseInv, NEW r \in Runtimes, Close(r) \/ Closing(r) \/ Crash(r)
    PROVE  LeaseInv'
<1> USE LeaseConstants
    DEF LeaseInv, LeaseTypeOK, ClaimOK, PhaseOK, BackoffOK, rowVars, loopVars, gateState
<1>1. CASE Close(r)
  BY <1>1 DEF Close
<1>2. CASE Drained(r)
  BY <1>2 DEF Drained, StopWatch
<1>4. CASE StopTimesOut(r)
  BY ZenonT(120), <1>4 DEF StopTimesOut
<1>5. CASE FinalRelease(r)
  BY <1>5 DEF FinalRelease, Release
<1> HIDE LeaseConstants
    DEF LeaseInv, LeaseTypeOK, ClaimOK, PhaseOK, BackoffOK, rowVars, loopVars,
        gateState
<1>3. CASE FinalSave(r)
  BY Zenon, <1>3, FinalSaveInv
<1>6. CASE Crash(r)
  BY Zenon, <1>6, CrashInv
<1> QED
  BY Zenon, <1>1, <1>2, <1>3, <1>4, <1>5, <1>6 DEF Closing

\* Every step preserves the invariant.
LEMMA LeaseStepInv == LeaseInv /\ [LeaseNext]_leaseVars => LeaseInv'
<1> SUFFICES ASSUME LeaseInv, [LeaseNext]_leaseVars PROVE LeaseInv'
  BY Zenon
<1>1. CASE Tick
  BY Zenon, <1>1, TickInv
<1>2. CASE UNCHANGED leaseVars
  BY Zenon, <1>2 DEF LeaseInv, LeaseTypeOK, ClaimOK, PhaseOK, BackoffOK, leaseVars, rowVars,
              loopVars, gateState
<1> QED
  BY Zenon, <1>1, <1>2, StartInv, CallInv, LoopInv, CloseInv DEF LeaseNext

\* The invariant holds of every behaviour of the runtimes.
THEOREM LeaseInvariant == LeaseSpec => []LeaseInv
  BY LeaseInitInv, LeaseStepInv, PTL DEF LeaseSpec

\* C-B1 for any number of processes: a gate that admits is the gate of the
\* runtime that owns the unexpired row.
THEOREM OnlyOwnerAdmits == LeaseSpec => []AdmitsOnlyAsOwner
<1>1. LeaseInv => AdmitsOnlyAsOwner
  BY DEF LeaseInv, LeaseTypeOK, ClaimOK, AdmitsOnlyAsOwner, Serving, Owns
<1> QED
  BY <1>1, LeaseInvariant, PTL

\* A gate that admits honours every backoff that any owner persisted.
THEOREM PersistedBackoffIsHonoured == LeaseSpec => []HonoursPersistedBackoff
<1>1. LeaseInv => HonoursPersistedBackoff
  BY Zenon DEF LeaseInv, LeaseTypeOK, ClaimOK, PhaseOK, BackoffOK, HonoursPersistedBackoff,
         Serving
<1> QED
  BY <1>1, LeaseInvariant, PTL

\* No statement lowers the stored backoff, whatever stale value it carries.
THEOREM StoredBackoffIsOnlyRaised == LeaseSpec => BackoffOnlyRaised
<1>1. LeaseTypeOK /\ [LeaseNext]_leaseVars => [rowBackoff' >= rowBackoff \/ Tick]_leaseVars
  <2> SUFFICES ASSUME LeaseTypeOK, LeaseNext, ~Tick PROVE rowBackoff' >= rowBackoff
    BY Zenon
  <2>1. rowBackoff \in Nat
    BY Zenon DEF LeaseTypeOK
  <2>2. PICK r \in Runtimes :
          \/ Starting(r) \/ StandbyCancelled(r)
          \/ Admit(r) \/ AdmitExpired(r) \/ Finish(r)
          \/ SecondaryLimit(r) \/ PersistBackoff(r)
          \/ StoreCall(r) \/ StoreCallFails(r) \/ Looping(r) \/ Watching(r)
          \/ Close(r) \/ Closing(r) \/ Crash(r)
    BY Zenon DEF LeaseNext
  <2>3. \A d \in Nat : Larger(rowBackoff, d) >= rowBackoff
    BY <2>1 DEF Larger
  <2>4. CASE PersistBackoff(r)
    BY <2>1, <2>3, <2>4 DEF PersistBackoff, rowVars, LeaseTypeOK
  <2>5. CASE Save(r)
    BY <2>1, <2>3, <2>5 DEF Save, LeaseTypeOK
  <2>6. CASE FinalSave(r)
    BY <2>1, <2>3, <2>6 DEF FinalSave, LeaseTypeOK
  <2>7. CASE ~PersistBackoff(r) /\ ~Save(r) /\ ~FinalSave(r)
    <3>1. rowBackoff' = rowBackoff
      BY Zenon, <2>2, <2>7 DEF rowVars, Starting, Acquire, AcquireReturns, AcquireTooLate,
         StandbyCancelled, Admit, AdmitExpired, Finish, SecondaryLimit, StoreCall,
         StoreCallFails, Looping, Renew, RenewReturns, StoreCallRefused,
         LoopCancelled, Watching, WatchUpdate, WatchExpires, Close, Closing, Drained,
         StopTimesOut, FinalRelease, Crash
    <3> QED
      BY <2>1, <3>1
  <2> QED
    BY Zenon, <2>4, <2>5, <2>6, <2>7
<1>2. LeaseInv => LeaseTypeOK
  BY Zenon DEF LeaseInv
<1> QED
  BY <1>1, <1>2, LeaseInvariant, PTL DEF LeaseSpec, BackoffOnlyRaised

-----------------------------------------------------------------------------
(* The gate: what it believes is left of a window is at most what GitHub   *)
(* has left, the points GitHub took unseen and those of the answers that   *)
(* are still on their way.  Answers arrive in any order, so this must hold *)
(* of what the gate would believe after any of them.                       *)

Readings == [current : BOOLEAN, remaining : Nat]

GateTypeOK ==
  /\ DOMAIN st = Agents /\ DOMAIN held = Agents
  /\ answer \in [Agents -> Readings] /\ pool \in [Pools -> Readings]
  /\ server \in [Pools -> Nat] /\ unseen \in [Pools -> Nat]

Admitted == {"admitted", "minting", "authorized", "failing", "sent", "served", "body"}

\* An admitted call has its admission until it is over.
AdmissionsAreHeld == \A a \in Agents : st[a] \in Admitted => held[a] # "none"

\* Of the gate's reading and any of these answers, one is within the rest.
WithinCount(p) ==
  \A T \in SUBSET OnTheWay(p) :
    \/ T = {} /\ ~pool[p].current
    \/ pool[p].current /\
         pool[p].remaining <= server[p] + unseen[p] + Cardinality(OnTheWay(p) \ T)
    \/ \E a \in T :
         answer[a].remaining <= server[p] + unseen[p] + Cardinality(OnTheWay(p) \ T)

GateInv == GateTypeOK /\ AdmissionsAreHeld /\ \A p \in Pools : WithinCount(p)

\* What is stored is within what GitHub has left and has taken since.
StoredInv ==
  /\ saved \in [Pools -> Readings] /\ lag \in [Pools -> Nat]
  /\ \A p \in Pools : saved[p].current => saved[p].remaining <= server[p] + lag[p]

\* There are finitely many agents, each with a pool and a floor.
LEMMA AgentsAreFinite ==
  /\ IsFiniteSet(Agents) /\ Mint \in Agents /\ Calls \subseteq Agents
  /\ \A a \in Agents : PoolFor(a) \in Pools /\ FloorOf[ClassFor(a)] \in Nat
<1>1. IsFiniteSet(Agents)
  BY GateConstants, FS_AddElement, Zenon DEF Agents
<1>2. \A a \in Agents : PoolFor(a) \in Pools
  BY GateConstants DEF PoolFor, Agents, Pools
<1>3. \A a \in Agents : ClassFor(a) \in Classes
  BY GateConstants DEF ClassFor, Agents, Classes
<1> QED
  BY <1>1, <1>2, <1>3, GateConstants, Zenon DEF Agents

\* Finitely many agents have a request on its way to a pool.
LEMMA OnTheWayIsFinite ==
  ASSUME NEW p
  PROVE  IsFiniteSet(OnTheWay(p)) /\ Cardinality(OnTheWay(p)) \in Nat
<1>1. OnTheWay(p) \in SUBSET Agents
  BY Zenon DEF OnTheWay
<1> QED
  BY <1>1, AgentsAreFinite, FS_Subset, FS_CardinalityType, Zenon

\* An agent that leaves a finite set makes it one smaller.
LEMMA OneFewer ==
  ASSUME NEW S, IsFiniteSet(S), NEW x \in S
  PROVE  /\ IsFiniteSet(S \ {x}) /\ Cardinality(S) \in Nat /\ Cardinality(S \ {x}) \in Nat
         /\ Cardinality(S) = Cardinality(S \ {x}) + 1
<1>1. IsFiniteSet(S \ {x}) /\ Cardinality(S \ {x}) = Cardinality(S) - 1
  BY FS_RemoveElement
<1>2. Cardinality(S) \in Nat /\ Cardinality(S \ {x}) \in Nat
  BY <1>1, FS_CardinalityType
<1> QED
  BY <1>1, <1>2

\* A part of a finite set is finite.
LEMMA RestIsFinite ==
  ASSUME NEW S, IsFiniteSet(S), NEW T
  PROVE  IsFiniteSet(S \ T) /\ Cardinality(S \ T) \in Nat
<1>1. S \ T \in SUBSET S
  BY Zenon
<1> QED
  BY <1>1, FS_Subset, FS_CardinalityType, Zenon

\* A step that moves no answer and no count.
LEMMA CountsStay ==
  ASSUME GateInv, UNCHANGED <<pool, server, unseen, answer>>,
         \A a \in Agents : st'[a] = "served" <=> st[a] = "served"
  PROVE  \A p \in Pools : WithinCount(p)'
<1> SUFFICES ASSUME NEW p \in Pools PROVE WithinCount(p)'
  BY Zenon
<1>1. OnTheWay(p)' = OnTheWay(p)
  BY Zenon DEF OnTheWay
<1> QED
  BY <1>1, Zenon DEF GateInv, WithinCount

\* An agent that gives up leaves the point of its answer among the unseen.
LEMMA CountsLeave ==
  ASSUME GateInv, UNCHANGED <<pool, server, answer>>, NEW a \in Agents, Abandon(a),
         st'[a] # "served",
         \A b \in Agents \ {a} : st'[b] = "served" <=> st[b] = "served"
  PROVE  \A p \in Pools : WithinCount(p)'
<1> SUFFICES ASSUME NEW p \in Pools PROVE WithinCount(p)'
  BY Zenon
<1>1. WithinCount(p) /\ unseen[p] \in Nat /\ server[p] \in Nat /\ PoolFor(a) \in Pools
      /\ pool[p].remaining \in Nat /\ \A b \in Agents : answer[b].remaining \in Nat
  BY Zenon, AgentsAreFinite DEF GateInv, GateTypeOK, Readings
<1>2. unseen' = [unseen EXCEPT ![PoolFor(a)] =
                   @ + IF st[a] = "served" /\ answer[a].current THEN 1 ELSE 0]
  BY Zenon DEF Abandon
<1>3. CASE a \in OnTheWay(p)
  <2>1. unseen'[p] = unseen[p] + 1
    BY Zenon, <1>1, <1>2, <1>3 DEF OnTheWay, GateInv, GateTypeOK
  <2>2. PICK S : S = OnTheWay(p) /\ IsFiniteSet(S) /\ a \in S /\ S \subseteq Agents
    BY <1>3, OnTheWayIsFinite, Zenon DEF OnTheWay
  <2>3. OnTheWay(p)' = S \ {a}
    BY <2>2, Zenon DEF OnTheWay
  <2>4. ASSUME NEW T \in SUBSET (S \ {a})
        PROVE  \/ T = {} /\ ~pool[p].current
               \/ pool[p].current /\
                    pool[p].remaining <= server[p] + unseen'[p] + Cardinality((S \ {a}) \ T)
               \/ \E b \in T :
                    answer[b].remaining <= server[p] + unseen'[p] + Cardinality((S \ {a}) \ T)
    <3>1. PICK n : n = Cardinality((S \ {a}) \ T) /\ n \in Nat /\ Cardinality(S \ T) = n + 1
      <4>0. IsFiniteSet(S \ T) /\ a \in S \ T
        BY <2>2, RestIsFinite
      <4>1. PICK U : U = S \ T /\ IsFiniteSet(U) /\ a \in U
        BY <4>0, Zenon
      <4>2. (S \ {a}) \ T = U \ {a}
        BY <4>1, Zenon
      <4>3. Cardinality(U \ {a}) \in Nat /\ Cardinality(U) = Cardinality(U \ {a}) + 1
        BY <4>1, OneFewer, Zenon
      <4> QED
        BY Zenon, <4>1, <4>2, <4>3
    <3>2. server[p] + unseen[p] + Cardinality(S \ T) = server[p] + unseen'[p] + n
      BY <1>1, <2>1, <3>1
    <3>3. \/ T = {} /\ ~pool[p].current
          \/ pool[p].current /\
               pool[p].remaining <= server[p] + unseen[p] + Cardinality(S \ T)
          \/ \E b \in T :
               answer[b].remaining <= server[p] + unseen[p] + Cardinality(S \ T)
      BY <1>1, <2>2, Zenon DEF WithinCount
    <3> QED
      BY <3>1, <3>2, <3>3, Zenon
  <2> QED
    BY <2>3, <2>4, Zenon DEF WithinCount
<1>4. CASE a \notin OnTheWay(p)
  <2>1. unseen'[p] = unseen[p]
    BY <1>1, <1>2, <1>4 DEF OnTheWay, GateInv, GateTypeOK
  <2>2. OnTheWay(p)' = OnTheWay(p)
    BY <1>4, Zenon DEF OnTheWay
  <2> QED
    BY <1>1, <2>1, <2>2, Zenon DEF WithinCount
<1> QED
  BY <1>3, <1>4, Zenon

\* GitHub takes a point and its answer sets out.
LEMMA CountsServe ==
  ASSUME GateInv, NEW a \in Agents, Serve(a)
  PROVE  GateTypeOK' /\ \A p \in Pools : WithinCount(p)'
<1> DEFINE q == PoolFor(a)
<1>1. PICK cost \in 0 .. 1 :
        /\ st[a] = "sent" /\ cost <= server[q] /\ UNCHANGED <<pool, unseen, held>>
        /\ server' = [server EXCEPT ![q] = @ - cost]
        /\ answer' = [answer EXCEPT ![a] = [current |-> TRUE, remaining |-> server[q] - cost]]
        /\ st' = [st EXCEPT ![a] = "served"]
  BY Zenon DEF Serve
<1>2. q \in Pools /\ server[q] \in Nat /\ server[q] - cost \in Nat
  <2>1. q \in Pools /\ server[q] \in Nat
    BY Zenon, AgentsAreFinite DEF GateInv, GateTypeOK
  <2> QED
    BY <1>1, <2>1
<1>3. GateTypeOK'
  BY Zenon, <1>1, <1>2 DEF GateInv, GateTypeOK, Readings
<1>4. ASSUME NEW p \in Pools PROVE WithinCount(p)'
  <2>1. /\ WithinCount(p) /\ unseen[p] \in Nat /\ server[p] \in Nat /\ pool[p].remaining \in Nat
        /\ \A b \in Agents : answer[b].remaining \in Nat
    BY DEF GateInv, GateTypeOK, Readings
  <2>2. PICK S : /\ S = OnTheWay(p) /\ IsFiniteSet(S) /\ S \subseteq Agents /\ a \notin S
    BY <1>1, OnTheWayIsFinite, Zenon DEF OnTheWay
  <2>3. \A b \in S : answer'[b] = answer[b]
    BY <1>1, <2>2, Zenon DEF GateInv, GateTypeOK
  <2>4. CASE p = q
    <3>1. OnTheWay(p)' = S \cup {a}
      BY Zenon, <1>1, <2>2, <2>4 DEF OnTheWay, GateInv, GateTypeOK
    <3>2. PICK W : W = S \cup {a} /\ IsFiniteSet(W) /\ a \in W
      BY <2>2, FS_AddElement, Zenon
    <3>3. server'[p] = server[p] - cost /\ answer'[a].remaining = server[p] - cost
      BY Zenon, <1>1, <1>2, <2>4 DEF GateInv, GateTypeOK
    <3>4. ASSUME NEW T \in SUBSET W
          PROVE  \/ T = {} /\ ~pool[p].current
                 \/ pool[p].current /\
                      pool[p].remaining <= server'[p] + unseen[p] + Cardinality(W \ T)
                 \/ \E b \in T :
                      answer'[b].remaining <= server'[p] + unseen[p] + Cardinality(W \ T)
      <4>1. CASE a \in T
        <5>1. Cardinality(W \ T) \in Nat
          BY <3>2, RestIsFinite, Zenon
        <5>2. answer'[a].remaining <= server'[p] + unseen[p] + Cardinality(W \ T)
          BY SMTT(60), <1>1, <1>2, <2>1, <2>4, <3>3, <5>1
        <5> QED
          BY <4>1, <5>2, Zenon
      <4>2. CASE a \notin T
        <5>1. T \in SUBSET S
          BY <2>2, <3>2, <4>2, Zenon
        <5>2. PICK U : U = W \ T /\ IsFiniteSet(U) /\ a \in U
          BY <3>2, <4>2, RestIsFinite, ZenonT(120)
        <5>3. S \ T = U \ {a}
          BY <2>2, <3>2, <5>2, Zenon
        <5>4. PICK m, n : /\ m = Cardinality(S \ T) /\ n = Cardinality(W \ T)
                          /\ m \in Nat /\ n = m + 1
          BY <5>2, <5>3, OneFewer
        <5>5. \/ T = {} /\ ~pool[p].current
              \/ pool[p].current /\ pool[p].remaining <= server[p] + unseen[p] + m
              \/ \E b \in T : answer[b].remaining <= server[p] + unseen[p] + m
          BY <2>1, <2>2, <5>1, <5>4, Zenon DEF WithinCount
        <5>6. \A r \in Nat : r <= server[p] + unseen[p] + m => r <= server'[p] + unseen[p] + n
          BY SMTT(60), <1>1, <2>1, <3>3, <5>4
        <5>7. \A b \in T : answer'[b].remaining = answer[b].remaining /\ answer[b].remaining \in Nat
          BY <2>1, <2>2, <2>3, <5>1, Zenon
        <5> QED
          BY <2>1, <5>4, <5>5, <5>6, <5>7, Zenon
      <4> QED
        BY <4>1, <4>2, Zenon
    <3> QED
      BY <1>1, <3>1, <3>2, <3>4, Zenon DEF WithinCount
  <2>5. CASE p # q
    <3>1. OnTheWay(p)' = S
      BY Zenon, <1>1, <2>2, <2>5 DEF OnTheWay, GateInv, GateTypeOK
    <3>2. server'[p] = server[p]
      BY <1>1, <1>2, <2>5, Zenon DEF GateInv, GateTypeOK
    <3> QED
      BY <1>1, <2>1, <2>2, <2>3, <3>1, <3>2, Zenon DEF WithinCount
  <2> QED
    BY <2>4, <2>5, Zenon
<1> QED
  BY <1>3, <1>4, Zenon

\* The answer arrives and the lower reading wins.
LEMMA CountsObserve ==
  ASSUME GateInv, NEW a \in Agents, Observe(a)
  PROVE  GateTypeOK' /\ \A p \in Pools : WithinCount(p)'
<1> DEFINE q == PoolFor(a)
<1>1. /\ st[a] = "served" /\ UNCHANGED <<held, server, unseen>>
      /\ pool' = [pool EXCEPT ![q] = MergeObservation(@, answer[a])]
      /\ answer' = [answer EXCEPT ![a] = Expired]
      /\ st' = Signal([st EXCEPT ![a] = "body"])
  BY Zenon DEF Observe
<1>2. q \in Pools /\ pool[q] \in Readings /\ answer[a] \in Readings /\ Expired \in Readings
  BY Zenon, <1>1, AgentsAreFinite DEF GateInv, GateTypeOK, Readings, Expired
<1>3. MergeObservation(pool[q], answer[a]) \in {pool[q], answer[a]}
  BY Zenon DEF MergeObservation
<1>4. GateTypeOK'
  BY Zenon, <1>1, <1>2, <1>3 DEF GateInv, GateTypeOK, Signal
<1>5. /\ st'[a] # "served"
      /\ \A b \in Agents \ {a} : st'[b] = "served" <=> st[b] = "served"
  BY Zenon, <1>1 DEF Signal, Asleep, GateInv, GateTypeOK
<1>6. ASSUME NEW p \in Pools PROVE WithinCount(p)'
  <2>1. /\ WithinCount(p) /\ unseen[p] \in Nat /\ server[p] \in Nat /\ pool[p].remaining \in Nat
        /\ \A b \in Agents : answer[b].remaining \in Nat
    BY DEF GateInv, GateTypeOK, Readings
  <2>2. PICK S : S = OnTheWay(p) /\ IsFiniteSet(S) /\ S \subseteq Agents
    BY OnTheWayIsFinite, Zenon DEF OnTheWay
  <2>3. OnTheWay(p)' = S \ {a} /\ \A b \in S \ {a} : answer'[b] = answer[b]
    BY <1>1, <1>5, <2>2, ZenonT(120) DEF OnTheWay, GateInv, GateTypeOK
  <2>4. \/ a \in S /\ pool'[p].current /\ pool'[p].remaining <= answer[a].remaining
             /\ (pool[p].current => pool'[p].remaining <= pool[p].remaining)
        \/ a \notin S /\ pool'[p] = pool[p]
    <3>1. CASE p # q
      <4>1. a \notin S
        BY Zenon, <2>2, <3>1 DEF OnTheWay
      <4>2. pool'[p] = pool[p]
        BY Zenon, <1>1, <3>1 DEF GateInv, GateTypeOK
      <4> QED
        BY Zenon, <4>1, <4>2
    <3>2. CASE p = q
      <4>1. pool'[p] = MergeObservation(pool[p], answer[a])
        BY Zenon, <1>1, <3>2 DEF GateInv, GateTypeOK
      <4>2. a \in S <=> answer[a].current
        BY Zenon, <1>1, <2>2, <3>2 DEF OnTheWay
      <4> QED
        BY <2>1, <4>1, <4>2 DEF MergeObservation
    <3> QED
      BY Zenon, <3>1, <3>2
  <2>5. ASSUME NEW T \in SUBSET (S \ {a})
        PROVE  \/ T = {} /\ ~pool'[p].current
               \/ pool'[p].current /\
                    pool'[p].remaining <= server[p] + unseen[p] + Cardinality((S \ {a}) \ T)
               \/ \E b \in T :
                    answer[b].remaining <= server[p] + unseen[p] + Cardinality((S \ {a}) \ T)
    <3>1. CASE a \in S
      <4>0. /\ T \cup {a} \in SUBSET S /\ T \cup {a} # {}
            /\ S \ (T \cup {a}) = (S \ {a}) \ T
        BY <3>1
      <4>1. PICK U : U = T \cup {a} /\ U \in SUBSET S /\ U # {} /\ S \ U = (S \ {a}) \ T
        BY <4>0, Zenon
      <4>2. PICK n : n = Cardinality((S \ {a}) \ T) /\ n \in Nat
        BY <2>2, <4>1, RestIsFinite
      <4>3. \/ pool[p].current /\ pool[p].remaining <= server[p] + unseen[p] + n
            \/ \E b \in U : answer[b].remaining <= server[p] + unseen[p] + n
        <5>1. \/ U = {} /\ ~pool[p].current
              \/ pool[p].current /\
                   pool[p].remaining <= server[p] + unseen[p] + Cardinality(S \ U)
              \/ \E b \in U :
                   answer[b].remaining <= server[p] + unseen[p] + Cardinality(S \ U)
          BY <2>1, <2>2, <4>1, Zenon DEF WithinCount
        <5> QED
          BY <4>1, <4>2, <5>1, Zenon
      <4>4. pool'[p].remaining \in Nat /\ answer[a].remaining \in Nat
        BY <1>4, <2>1 DEF GateTypeOK, Readings
      <4>5. \/ pool'[p].remaining <= server[p] + unseen[p] + n
            \/ \E b \in T : answer[b].remaining <= server[p] + unseen[p] + n
        <5>1. CASE pool[p].current /\ pool[p].remaining <= server[p] + unseen[p] + n
          BY SMTT(60), <2>1, <2>4, <3>1, <4>2, <4>4, <5>1
        <5>2. CASE answer[a].remaining <= server[p] + unseen[p] + n
          BY SMTT(60), <2>1, <2>4, <3>1, <4>2, <4>4, <5>2
        <5>3. CASE \E b \in T : answer[b].remaining <= server[p] + unseen[p] + n
          BY <5>3, Zenon
        <5> QED
          BY <4>1, <4>3, <5>1, <5>2, <5>3, Zenon
      <4> QED
        BY <2>4, <3>1, <4>2, <4>5, Zenon
    <3>2. CASE a \notin S
      <4>1. S \ {a} = S
        BY <3>2, Zenon
      <4> QED
        BY <2>1, <2>2, <2>4, <3>2, <4>1, Zenon DEF WithinCount
    <3> QED
      BY <3>1, <3>2, Zenon
  <2> QED
    BY <1>1, <2>3, <2>5, Zenon DEF WithinCount
<1> QED
  BY <1>4, <1>6, Zenon

\* GitHub takes a point for a request whose caller is gone.
LEMMA CountsStray ==
  ASSUME GateInv, NEW q \in Pools, ServeStray(q)
  PROVE  GateTypeOK' /\ \A p \in Pools : WithinCount(p)'
<1>1. /\ UNCHANGED <<st, held, pool, answer>>
      /\ \/ UNCHANGED <<server, unseen>>
         \/ /\ server[q] > 0
            /\ server' = [server EXCEPT ![q] = @ - 1]
            /\ unseen' = [unseen EXCEPT ![q] = @ + 1]
  BY Zenon DEF ServeStray
<1>2. GateTypeOK'
  BY SMTT(60), <1>1 DEF GateInv, GateTypeOK
<1>3. ASSUME NEW p \in Pools PROVE WithinCount(p)'
  <2>1. server'[p] + unseen'[p] = server[p] + unseen[p]
    BY SMTT(60), <1>1 DEF GateInv, GateTypeOK
  <2>2. OnTheWay(p)' = OnTheWay(p)
    BY <1>1, Zenon DEF OnTheWay
  <2> QED
    BY <1>1, <2>1, <2>2, Zenon DEF GateInv, WithinCount
<1> QED
  BY <1>2, <1>3, Zenon

\* A window ends: nothing known of it counts any more.
LEMMA CountsRollover ==
  ASSUME GateInv, NEW q \in Pools, Rollover(q)
  PROVE  GateTypeOK' /\ \A p \in Pools : WithinCount(p)'
<1>1. /\ UNCHANGED <<st, held>>
      /\ server' = [server EXCEPT ![q] = Limit]
      /\ pool' = [pool EXCEPT ![q] = Expired]
      /\ answer' = [a \in Agents |-> IF PoolFor(a) = q THEN Expired ELSE answer[a]]
      /\ unseen' = [unseen EXCEPT ![q] = 0]
  BY Zenon DEF Rollover
<1>2. GateTypeOK'
  BY Zenon, <1>1, GateConstants DEF GateInv, GateTypeOK, Readings, Expired
<1>3. ASSUME NEW p \in Pools PROVE WithinCount(p)'
  <2>1. CASE p = q
    <3>1. OnTheWay(p)' = {} /\ ~pool'[p].current
      BY Zenon, <1>1, <2>1 DEF OnTheWay, Expired, GateInv, GateTypeOK
    <3>2. \A T \in SUBSET {} : T = {}
      BY Zenon
    <3> QED
      BY <3>1, <3>2, Zenon DEF WithinCount
  <2>2. CASE p # q
    <3>1. OnTheWay(p)' = OnTheWay(p) /\ \A a \in OnTheWay(p) : answer'[a] = answer[a]
      BY Zenon, <1>1, <2>2 DEF OnTheWay
    <3>2. server'[p] = server[p] /\ unseen'[p] = unseen[p] /\ pool'[p] = pool[p]
      BY <1>1, <2>2, Zenon DEF GateInv, GateTypeOK
    <3> QED
      BY <3>1, <3>2, Zenon DEF GateInv, WithinCount
  <2> QED
    BY <2>1, <2>2, Zenon
<1> QED
  BY <1>2, <1>3, Zenon

\* finishAdmission ends one call and moves no other past its own answer.
LEMMA AdmissionEnds ==
  ASSUME GateInv, NEW a \in Agents, FinishAdmission(a)
  PROVE  /\ DOMAIN st' = Agents /\ DOMAIN held' = Agents /\ AdmissionsAreHeld'
         /\ st'[a] # "served"
         /\ \A b \in Agents \ {a} : st'[b] = "served" <=> st[b] = "served"
<1>1. /\ held' = [held EXCEPT ![a] = "none"]
      /\ DOMAIN st = Agents /\ DOMAIN held = Agents
      /\ \A b \in Agents : st[b] \in Admitted => held[b] # "none"
  BY Zenon DEF FinishAdmission, GateInv, GateTypeOK, AdmissionsAreHeld
<1>2. PICK ended, told :
        /\ ended = [st EXCEPT ![a] = IF a = Mint THEN "idle" ELSE "done"]
        /\ told = IF a = Mint THEN MintOutcome(ended, "failing") ELSE ended
        /\ st' = IF held[a] # "none" THEN Signal(told) ELSE told
  BY Zenon DEF FinishAdmission
<1>3. /\ DOMAIN ended = Agents /\ ended[a] \in {"idle", "done"}
      /\ \A b \in Agents \ {a} : ended[b] = st[b]
  BY <1>1, <1>2
<1>4. /\ DOMAIN told = Agents /\ told[a] \in {"idle", "done"}
      /\ \A b \in Agents \ {a} :
           told[b] = st[b] \/ (st[b] = "minting" /\ told[b] = "failing")
  BY <1>2, <1>3 DEF MintOutcome
<1>5. /\ DOMAIN st' = Agents /\ st'[a] \in {"idle", "done"}
      /\ \A b \in Agents \ {a} :
           \/ st'[b] = st[b]
           \/ st[b] = "minting" /\ st'[b] = "failing"
           \/ st[b] \in Asleep /\ st'[b] = "asking"
  BY ZenonT(120), <1>2, <1>4 DEF Signal, Asleep
<1>6. DOMAIN held' = Agents /\ \A b \in Agents \ {a} : held'[b] = held[b]
  BY <1>1, Zenon
<1>7. ASSUME NEW b \in Agents, st'[b] \in Admitted PROVE held'[b] # "none"
  BY Zenon, <1>1, <1>5, <1>6, <1>7 DEF Admitted, Asleep
<1> QED
  BY Zenon, <1>5, <1>6, <1>7 DEF AdmissionsAreHeld, Asleep

\* A step that touches neither a count nor an answer.
LEMMA QuietStep ==
  ASSUME GateInv, UNCHANGED <<pool, server, unseen, answer>>,
         DOMAIN st' = Agents, DOMAIN held' = Agents, AdmissionsAreHeld',
         \A a \in Agents : st'[a] = "served" <=> st[a] = "served"
  PROVE  GateInv'
<1>1. GateTypeOK'
  BY Zenon DEF GateInv, GateTypeOK
<1> QED
  BY <1>1, CountsStay, Zenon DEF GateInv

\* A call that ends with no answer on its way.
LEMMA EndStep ==
  ASSUME GateInv, NEW a \in Agents, FinishAdmission(a), st[a] # "served",
         UNCHANGED <<pool, server, unseen, answer>>
  PROVE  GateInv'
BY AdmissionEnds, QuietStep, Zenon

\* A call that is given up.
LEMMA GiveUpStep ==
  ASSUME GateInv, NEW a \in Agents, FinishAdmission(a), Abandon(a),
         UNCHANGED <<pool, server, answer>>
  PROVE  GateInv'
<1>1. /\ DOMAIN st' = Agents /\ DOMAIN held' = Agents /\ AdmissionsAreHeld'
      /\ st'[a] # "served"
      /\ \A b \in Agents \ {a} : st'[b] = "served" <=> st[b] = "served"
  BY AdmissionEnds, ZenonT(120)
<1>2. unseen' \in [Pools -> Nat]
  <2>1. unseen \in [Pools -> Nat] /\ PoolFor(a) \in Pools
    BY Zenon, AgentsAreFinite DEF GateInv, GateTypeOK
  <2> QED
    BY <2>1 DEF Abandon
<1>3. \A p \in Pools : WithinCount(p)'
  BY <1>1, CountsLeave, Zenon
<1> QED
  BY <1>1, <1>2, <1>3, Zenon DEF GateInv, GateTypeOK

\* What an agent's goroutine does.
LEMMA GoroutineStep ==
  ASSUME GateInv, NEW a \in Agents, Goroutine(a)
  PROVE  GateInv'
<1>0. /\ DOMAIN st = Agents /\ DOMAIN held = Agents
      /\ \A b \in Agents : st[b] \in Admitted => held[b] # "none"
  BY Zenon DEF GateInv, GateTypeOK, AdmissionsAreHeld
<1>1. ASSUME NEW what \in Asleep, Sleep(a, what), st[a] = "asking" PROVE GateInv'
  <2>1. /\ st' = [st EXCEPT ![a] = what] /\ UNCHANGED held
        /\ UNCHANGED <<pool, server, unseen, answer>>
    BY <1>1, Zenon DEF Sleep
  <2>2. /\ DOMAIN st' = Agents /\ DOMAIN held' = Agents /\ AdmissionsAreHeld'
        /\ \A b \in Agents : st'[b] = "served" <=> st[b] = "served"
    BY Zenon, <1>0, <1>1, <2>1 DEF Asleep, Admitted, AdmissionsAreHeld
  <2> QED
    BY <2>1, <2>2, QuietStep, Zenon
<1>2. CASE TryAdmitBackoff(a) \/ TryAdmitNoSlot(a) \/ TryAdmitStarved(a)
  BY Zenon, <1>1, <1>2 DEF TryAdmitBackoff, TryAdmitNoSlot, TryAdmitStarved, Asleep
<1>3. CASE AdmitCall(a)
  <2>1. /\ st' = [st EXCEPT ![a] = "admitted"] /\ st[a] = "asking"
        /\ held' = [held EXCEPT ![a] = IF ReuseSlot(a) THEN "nested" ELSE "slot"]
        /\ UNCHANGED <<pool, server, unseen, answer>>
    BY <1>3, Zenon DEF AdmitCall
  <2>2. /\ DOMAIN st' = Agents /\ DOMAIN held' = Agents /\ AdmissionsAreHeld'
        /\ \A b \in Agents : st'[b] = "served" <=> st[b] = "served"
    BY <1>0, <2>1 DEF AdmissionsAreHeld
  <2> QED
    BY <2>1, <2>2, QuietStep, Zenon
<1>4. CASE Refuse(a)
  BY <1>4, EndStep DEF Refuse
<1>5. CASE TimerFires(a)
  <2>1. /\ st' = [st EXCEPT ![a] = "asking"] /\ UNCHANGED held
        /\ st[a] \in {"awaits backoff", "awaits reset"}
        /\ UNCHANGED <<pool, server, unseen, answer>>
    BY <1>5, Zenon DEF TimerFires
  <2>2. /\ DOMAIN st' = Agents /\ DOMAIN held' = Agents /\ AdmissionsAreHeld'
        /\ \A b \in Agents : st'[b] = "served" <=> st[b] = "served"
    BY Zenon, <1>0, <2>1 DEF Admitted, AdmissionsAreHeld
  <2> QED
    BY <2>1, <2>2, QuietStep, Zenon
<1>6. CASE Send(a)
  <2>1. /\ st' = [st EXCEPT ![a] = "sent"] /\ UNCHANGED held
        /\ st[a] \in {"admitted", "authorized"}
        /\ UNCHANGED <<pool, server, unseen, answer>>
    BY <1>6, Zenon DEF Send
  <2>2. /\ DOMAIN st' = Agents /\ DOMAIN held' = Agents /\ AdmissionsAreHeld'
        /\ \A b \in Agents : st'[b] = "served" <=> st[b] = "served"
    BY <1>0, <2>1 DEF Admitted, AdmissionsAreHeld
  <2> QED
    BY <2>1, <2>2, QuietStep, Zenon
<1>7. CASE Serve(a)
  <2>1. st[a] = "sent" /\ st' = [st EXCEPT ![a] = "served"] /\ UNCHANGED held
    BY <1>7, Zenon DEF Serve
  <2>2. AdmissionsAreHeld'
    BY <1>0, <2>1 DEF Admitted, AdmissionsAreHeld
  <2> QED
    BY <1>7, <2>2, CountsServe, Zenon DEF GateInv
<1>8. CASE Observe(a)
  <2>1. st[a] = "served" /\ st' = Signal([st EXCEPT ![a] = "body"]) /\ UNCHANGED held
    BY <1>8, Zenon DEF Observe
  <2>2. AdmissionsAreHeld'
    BY Zenon, <1>0, <2>1 DEF Admitted, AdmissionsAreHeld, Signal, Asleep
  <2> QED
    BY <1>8, <2>2, CountsObserve, Zenon DEF GateInv
<1>9. CASE CloseBody(a)
  BY <1>9, EndStep DEF CloseBody
<1>10. CASE Abort(a)
  BY <1>10, GiveUpStep, Zenon DEF Abort
<1>11. CASE a \in Calls /\ NeedToken(a)
  <2>1. /\ st[a] = "admitted" /\ UNCHANGED held
        /\ UNCHANGED <<pool, server, unseen, answer>>
        /\ \/ st[Mint] = "idle" /\ st' = [st EXCEPT ![a] = "minting", ![Mint] = "asking"]
           \/ st' = [st EXCEPT ![a] = "minting"]
    BY <1>11, Zenon DEF NeedToken
  <2>2. /\ DOMAIN st' = Agents /\ DOMAIN held' = Agents /\ AdmissionsAreHeld'
        /\ \A b \in Agents : st'[b] = "served" <=> st[b] = "served"
    BY <1>0, <1>11, <2>1, AgentsAreFinite DEF Admitted, AdmissionsAreHeld
  <2> QED
    BY <2>1, <2>2, QuietStep, Zenon
<1>12. CASE a \in Calls /\ BeforeSendFails(a)
  BY <1>12, EndStep DEF BeforeSendFails
<1>13. CASE a = Mint /\ MintReturns
  <2>1. PICK next \in {"failing", "authorized"} :
          /\ st' = Signal(MintOutcome([st EXCEPT ![Mint] = "idle"], next))
          /\ held' = [held EXCEPT ![Mint] = "none"] /\ st[Mint] = "body"
          /\ UNCHANGED <<pool, server, unseen, answer>>
    BY Zenon, <1>13 DEF MintReturns
  <2>2. /\ DOMAIN st' = Agents /\ DOMAIN held' = Agents
        /\ st'[Mint] = "idle"
        /\ \A b \in Agents \ {Mint} :
             /\ held'[b] = held[b]
             /\ \/ st'[b] = st[b]
                \/ st[b] = "minting" /\ st'[b] = next
                \/ st[b] \in Asleep /\ st'[b] = "asking"
    BY Zenon, <1>0, <2>1, AgentsAreFinite DEF Signal, MintOutcome, Asleep
  <2>3. /\ AdmissionsAreHeld'
        /\ \A b \in Agents : st'[b] = "served" <=> st[b] = "served"
    BY ZenonT(120), <1>0, <2>1, <2>2, AgentsAreFinite DEF Admitted, AdmissionsAreHeld, Asleep
  <2> QED
    BY <2>1, <2>2, <2>3, QuietStep, Zenon
<1> QED
  BY <1>2, <1>3, <1>4, <1>5, <1>6, <1>7, <1>8, <1>9, <1>10, <1>11, <1>12, <1>13, ZenonT(120)
     DEF Goroutine, Step, TryAdmit

\* A new gate has nothing in flight and knows what was stored.
LEMMA TakeoverStep ==
  ASSUME GateInv, StoredInv, NewLeased
  PROVE  GateInv'
<1>1. /\ st' = [a \in Agents |-> IF a = Mint \/ st[a] = "idle" THEN "idle" ELSE "done"]
      /\ held' = [a \in Agents |-> "none"] /\ answer' = [a \in Agents |-> Expired]
      /\ pool' = saved /\ unseen' = lag /\ UNCHANGED server
  BY Zenon DEF NewLeased, Restore
<1>2. GateTypeOK'
  BY <1>1 DEF GateInv, GateTypeOK, StoredInv, Readings, Expired
<1>3. \A a \in Agents : st'[a] \in {"idle", "done"}
  BY <1>1, Zenon
<1>4. AdmissionsAreHeld'
  BY <1>3 DEF AdmissionsAreHeld, Admitted
<1>5. ASSUME NEW p \in Pools PROVE WithinCount(p)'
  <2>1. OnTheWay(p)' = {}
    BY <1>3 DEF OnTheWay
  <2>2. \A T \in SUBSET {} : T = {} /\ {} \ T = {}
    BY Zenon
  <2>3. /\ server[p] \in Nat /\ lag[p] \in Nat /\ saved[p] \in Readings
        /\ saved[p].current => saved[p].remaining <= server[p] + lag[p]
    BY Zenon DEF GateInv, GateTypeOK, StoredInv
  <2>4. pool'[p].current => pool'[p].remaining <= server'[p] + unseen'[p] + Cardinality({})
    <3>1. Cardinality({}) = 0
      BY FS_EmptySet, Zenon
    <3> QED
      BY <1>1, <2>3, <3>1 DEF Readings
  <2> QED
    BY <2>1, <2>2, <2>4, Zenon DEF WithinCount
<1> QED
  BY <1>2, <1>4, <1>5, Zenon DEF GateInv

\* Every step of the gate, of its holders and of GitHub preserves the
\* invariant.
LEMMA GateStep == GateInv /\ StoredInv /\ [GateNext]_gateVars => GateInv'
<1> SUFFICES ASSUME GateInv, StoredInv, [GateNext]_gateVars PROVE GateInv'
  BY Zenon
<1>0. /\ DOMAIN st = Agents /\ DOMAIN held = Agents
      /\ \A b \in Agents : st[b] \in Admitted => held[b] # "none"
  BY Zenon DEF GateInv, GateTypeOK, AdmissionsAreHeld
<1>1. CASE \E a \in Agents : Goroutine(a)
  BY <1>1, GoroutineStep, Zenon
<1>2. CASE \E c \in Calls : Do(c)
  <2>1. PICK c \in Agents : /\ st[c] = "idle" /\ st' = [st EXCEPT ![c] = "asking"]
                            /\ UNCHANGED <<held, pool, server, unseen, answer>>
    BY <1>2, AgentsAreFinite, Zenon DEF Do
  <2>2. /\ DOMAIN st' = Agents /\ DOMAIN held' = Agents /\ AdmissionsAreHeld'
        /\ \A b \in Agents : st'[b] = "served" <=> st[b] = "served"
    BY <1>0, <2>1 DEF Admitted, AdmissionsAreHeld
  <2> QED
    BY <2>1, <2>2, QuietStep, Zenon
<1>3. CASE \E c \in Calls : Cancel(c)
  BY <1>3, AgentsAreFinite, GiveUpStep, Zenon DEF Cancel
<1>4. CASE MintTimesOut
  BY <1>4, AgentsAreFinite, GiveUpStep, Zenon DEF MintTimesOut
<1>5. CASE CloseGate
  <2>1. st' = Signal(st) /\ UNCHANGED <<held, pool, server, unseen, answer>>
    BY <1>5, Zenon DEF CloseGate
  <2>2. /\ DOMAIN st' = Agents /\ DOMAIN held' = Agents /\ AdmissionsAreHeld'
        /\ \A b \in Agents : st'[b] = "served" <=> st[b] = "served"
    BY Zenon, <1>0, <2>1 DEF Admitted, AdmissionsAreHeld, Signal, Asleep
  <2> QED
    BY <2>1, <2>2, QuietStep, Zenon
<1>6. CASE TokenExpires \/ DrainTimesOut \/ GateDrained \/ SaveSnapshot
           \/ (\E x \in AuthContexts : BackoffEnds(x)) \/ UNCHANGED gateVars
  <2>1. UNCHANGED <<st, held, pool, server, unseen, answer>>
    BY <1>6, Zenon DEF TokenExpires, DrainTimesOut, GateDrained, SaveSnapshot, BackoffEnds,
                          gateVars
  <2> QED
    BY <1>0, <2>1, QuietStep, Zenon DEF AdmissionsAreHeld
<1>7. CASE \E p \in Pools : ServeStray(p)
  <2>1. UNCHANGED <<st, held>>
    BY <1>7, Zenon DEF ServeStray
  <2> QED
    BY <1>0, <1>7, <2>1, CountsStray, Zenon DEF GateInv, AdmissionsAreHeld
<1>8. CASE \E p \in Pools : Rollover(p)
  <2>1. UNCHANGED <<st, held>>
    BY <1>8, Zenon DEF Rollover
  <2> QED
    BY <1>0, <1>8, <2>1, CountsRollover, Zenon DEF GateInv, AdmissionsAreHeld
<1>9. CASE NewLeased
  BY <1>9, TakeoverStep, Zenon
<1> QED
  BY <1>1, <1>2, <1>3, <1>4, <1>5, <1>6, <1>7, <1>8, <1>9, Zenon DEF GateNext

\* What is stored stays within GitHub's count and what it lacks.
LEMMA StoredStep == GateInv /\ StoredInv /\ [GateNext]_gateVars => StoredInv'
<1> SUFFICES ASSUME GateInv, StoredInv, [GateNext]_gateVars PROVE StoredInv'
  BY Zenon
<1>0. /\ server \in [Pools -> Nat] /\ unseen \in [Pools -> Nat] /\ pool \in [Pools -> Readings]
      /\ saved \in [Pools -> Readings] /\ lag \in [Pools -> Nat]
      /\ \A p \in Pools : saved[p].current => saved[p].remaining <= server[p] + lag[p]
  BY Zenon DEF GateInv, GateTypeOK, StoredInv
<1>1. ASSUME UNCHANGED <<server, saved, lag>> PROVE StoredInv'
  BY <1>0, <1>1, Zenon DEF StoredInv
<1>2. CASE \E a \in Agents : Serve(a)
  <2>1. PICK q \in Pools, cost \in 0 .. 1 :
          /\ cost <= server[q] /\ server' = [server EXCEPT ![q] = @ - cost]
          /\ lag' = [lag EXCEPT ![q] = @ + cost] /\ UNCHANGED saved
    BY <1>2, AgentsAreFinite, Zenon DEF Serve
  <2>2. lag' \in [Pools -> Nat]
    BY <1>0, <2>1
  <2>3. ASSUME NEW p \in Pools PROVE server'[p] + lag'[p] = server[p] + lag[p]
    <3>1. server[p] \in Nat /\ lag[p] \in Nat
      BY <1>0, Zenon
    <3>2. CASE p = q
      <4>1. server'[p] = server[p] - cost /\ lag'[p] = lag[p] + cost
        BY <1>0, <2>1, <3>2, Zenon
      <4> QED
        BY <3>1, <4>1
    <3>3. CASE p # q
      BY <1>0, <2>1, <3>3, Zenon
    <3> QED
      BY <3>2, <3>3, Zenon
  <2> QED
    BY <1>0, <2>1, <2>2, <2>3, Zenon DEF StoredInv
<1>3. CASE \E p \in Pools : ServeStray(p)
  <2>1. PICK q \in Pools :
          /\ UNCHANGED saved
          /\ \/ UNCHANGED <<server, lag>>
             \/ /\ server[q] > 0 /\ server' = [server EXCEPT ![q] = @ - 1]
                /\ lag' = [lag EXCEPT ![q] = @ + 1]
    BY <1>3, Zenon DEF ServeStray
  <2>2. lag' \in [Pools -> Nat] /\ \A p \in Pools : server'[p] + lag'[p] = server[p] + lag[p]
    BY SMTT(60), <1>0, <2>1
  <2> QED
    BY <1>0, <2>1, <2>2, Zenon DEF StoredInv
<1>4. CASE \E p \in Pools : Rollover(p)
  <2>1. PICK q \in Pools :
          /\ server' = [server EXCEPT ![q] = Limit] /\ lag' = [lag EXCEPT ![q] = 0]
          /\ saved' = [saved EXCEPT ![q] = Expired]
    BY <1>4, Zenon DEF Rollover
  <2>2. Expired \in Readings /\ ~Expired.current
    BY DEF Expired, Readings
  <2>3. lag' \in [Pools -> Nat] /\ saved' \in [Pools -> Readings]
    BY <1>0, <2>1, <2>2
  <2>4. ASSUME NEW p \in Pools, p # q
        PROVE  server'[p] = server[p] /\ lag'[p] = lag[p] /\ saved'[p] = saved[p]
    BY <1>0, <2>1, <2>4, Zenon
  <2>5. saved'[q] = Expired
    BY <1>0, <2>1, Zenon
  <2> QED
    BY <1>0, <2>2, <2>3, <2>4, <2>5, Zenon DEF StoredInv
<1>5. CASE SaveSnapshot
  <2>1. saved' = pool /\ UNCHANGED server
        /\ lag' = [p \in Pools |-> unseen[p] + Cardinality(OnTheWay(p))]
    BY <1>5, Zenon DEF SaveSnapshot
  <2>2. ASSUME NEW p \in Pools
        PROVE  /\ unseen[p] + Cardinality(OnTheWay(p)) \in Nat
               /\ pool[p].current =>
                    pool[p].remaining <= server[p] + (unseen[p] + Cardinality(OnTheWay(p)))
    <3>1. PICK n : n = Cardinality(OnTheWay(p)) /\ n \in Nat
      BY OnTheWayIsFinite, Zenon
    <3>2. pool[p].current => pool[p].remaining <= server[p] + unseen[p] + n
      <4>1. OnTheWay(p) \ {} = OnTheWay(p) /\ {} \in SUBSET OnTheWay(p) /\ ~\E a \in {} : TRUE
        BY Zenon
      <4> QED
        BY <3>1, <4>1, Zenon DEF GateInv, WithinCount
    <3>3. server[p] \in Nat /\ unseen[p] \in Nat /\ pool[p].remaining \in Nat
      BY <1>0 DEF Readings
    <3> QED
      BY <3>1, <3>2, <3>3
  <2> QED
    BY <1>0, <2>1, <2>2, Zenon DEF StoredInv
<1>6. CASE \E a \in Agents : Goroutine(a) /\ ~Serve(a)
  <2>1. PICK a \in Agents : Goroutine(a) /\ ~Serve(a)
    BY <1>6, Zenon
  <2>2. CASE TryAdmit(a)
    BY <1>1, <2>2, Zenon DEF TryAdmit, TryAdmitBackoff, TryAdmitNoSlot, TryAdmitStarved,
                             AdmitCall, Refuse, Sleep, storedVars
  <2>3. CASE TimerFires(a) \/ Send(a) \/ Observe(a) \/ CloseBody(a) \/ Abort(a)
    BY <1>1, <2>3, Zenon DEF TimerFires, Send, Observe, CloseBody, Abort, storedVars
  <2>4. CASE NeedToken(a) \/ BeforeSendFails(a) \/ MintReturns
    BY <1>1, <2>4, Zenon DEF NeedToken, BeforeSendFails, MintReturns, storedVars
  <2> QED
    BY <2>1, <2>2, <2>3, <2>4, Zenon DEF Goroutine, Step
<1>7. CASE \E c \in Calls : Do(c) \/ Cancel(c)
  BY <1>1, <1>7, Zenon DEF Do, Cancel, storedVars
<1>8. CASE MintTimesOut \/ TokenExpires \/ CloseGate \/ DrainTimesOut \/ GateDrained \/ NewLeased
  BY <1>1, <1>8, Zenon DEF MintTimesOut, TokenExpires, CloseGate, DrainTimesOut, GateDrained,
                           NewLeased, storedVars
<1>9. CASE (\E x \in AuthContexts : BackoffEnds(x)) \/ UNCHANGED gateVars
  BY <1>1, <1>9, Zenon DEF BackoffEnds, gateVars, storedVars
<1> QED
  BY <1>2, <1>3, <1>4, <1>5, <1>6, <1>7, <1>8, <1>9, Zenon DEF GateNext

\* The idle gate satisfies the invariant.
LEMMA GateStart == GateInit => GateInv /\ StoredInv
<1> SUFFICES ASSUME GateInit PROVE GateInv /\ StoredInv
  BY Zenon
<1>1. GateTypeOK
  BY GateConstants DEF GateInit, GateTypeOK, Readings, Expired
<1>2. AdmissionsAreHeld
  BY DEF GateInit, AdmissionsAreHeld, Admitted
<1>3. ASSUME NEW p \in Pools PROVE WithinCount(p)
  <2>1. OnTheWay(p) = {} /\ ~pool[p].current
    BY DEF GateInit, OnTheWay, Expired
  <2>2. \A T \in SUBSET {} : T = {}
    BY Zenon
  <2> QED
    BY <2>1, <2>2, Zenon DEF WithinCount
<1>4. StoredInv
  BY GateConstants DEF GateInit, StoredInv, Readings, Expired
<1> QED
  BY <1>1, <1>2, <1>3, <1>4, Zenon DEF GateInv

\* The reservations of a pool cover the answers on their way and the requests
\* GitHub has not counted, which are different calls.
LEMMA ReservationsCover ==
  ASSUME GateInv, NEW p
  PROVE  /\ Uncounted(p) \in Nat /\ Reserved(p) \in Nat
         /\ Cardinality(OnTheWay(p)) + Uncounted(p) <= Reserved(p)
<1>1. PICK U, W, H :
        /\ U = {a \in Agents : held[a] # "none" /\ PoolFor(a) = p
                  /\ st[a] \in {"admitted", "minting", "authorized", "sent"}}
        /\ W = OnTheWay(p)
        /\ H = {a \in Agents : held[a] # "none" /\ PoolFor(a) = p}
  BY Zenon
<1>2. U \cup W \in SUBSET H /\ U \in SUBSET H /\ U \cap W = {}
  BY <1>1 DEF OnTheWay, GateInv, AdmissionsAreHeld, Admitted
<1>3. H \in SUBSET Agents
  BY <1>1, Zenon
<1>4. IsFiniteSet(H) /\ Cardinality(H) \in Nat
  BY <1>3, AgentsAreFinite, FS_Subset, FS_CardinalityType, Zenon
<1>5. /\ IsFiniteSet(U) /\ Cardinality(U) \in Nat /\ Cardinality(U \cup W) <= Cardinality(H)
  BY <1>2, <1>4, FS_Subset, FS_CardinalityType, Zenon
<1>6. IsFiniteSet(W) /\ Cardinality(W) \in Nat
  BY <1>1, OnTheWayIsFinite, Zenon
<1>7. Cardinality(U \cup W) = Cardinality(U) + Cardinality(W)
  <2>1. Cardinality(U \cup W) = Cardinality(U) + Cardinality(W) - Cardinality(U \cap W)
    BY <1>5, <1>6, FS_Union, Zenon
  <2>2. Cardinality(U \cap W) = 0
    BY <1>2, FS_EmptySet, Zenon
  <2> QED
    BY <1>5, <1>6, <2>1, <2>2
<1>8. Uncounted(p) = Cardinality(U) /\ Reserved(p) = Cardinality(H)
  BY <1>1, Zenon DEF Uncounted, Reserved
<1>9. PICK u, w, h, j : /\ u = Cardinality(U) /\ w = Cardinality(W) /\ h = Cardinality(H)
                        /\ j = Cardinality(U \cup W)
  BY Zenon
<1>10. u \in Nat /\ w \in Nat /\ h \in Nat /\ w + u <= h
  BY <1>4, <1>5, <1>6, <1>7, <1>9
<1> QED
  BY <1>1, <1>8, <1>9, <1>10, Zenon

\* A call admitted is one request more to be counted.
LEMMA AdmittedIsUncounted ==
  ASSUME GateInv, NEW a \in Agents, AdmitCall(a)
  PROVE  Uncounted(PoolFor(a))' = Uncounted(PoolFor(a)) + 1
<1>1. PICK p : p = PoolFor(a)
  BY Zenon
<1>2. /\ st' = [st EXCEPT ![a] = "admitted"] /\ st[a] = "asking"
      /\ held' = [held EXCEPT ![a] = IF ReuseSlot(a) THEN "nested" ELSE "slot"]
      /\ DOMAIN st = Agents /\ DOMAIN held = Agents
  BY Zenon DEF AdmitCall, GateInv, GateTypeOK
<1>3. PICK U, V :
        /\ U = {b \in Agents : held[b] # "none" /\ PoolFor(b) = p
                  /\ st[b] \in {"admitted", "minting", "authorized", "sent"}}
        /\ V = {b \in Agents : held'[b] # "none" /\ PoolFor(b) = p
                  /\ st'[b] \in {"admitted", "minting", "authorized", "sent"}}
  BY Zenon
<1>4. V = U \cup {a} /\ a \notin U
  BY <1>1, <1>2, <1>3
<1>5. U \in SUBSET Agents
  BY <1>3, Zenon
<1>6. IsFiniteSet(U) /\ Cardinality(U) \in Nat
  BY <1>5, AgentsAreFinite, FS_Subset, FS_CardinalityType, Zenon
<1>7. Cardinality(V) = Cardinality(U) + 1
  BY <1>4, <1>6, FS_AddElement
<1>8. Uncounted(PoolFor(a)) = Cardinality(U) /\ Uncounted(PoolFor(a))' = Cardinality(V)
  BY <1>1, <1>3, Zenon DEF Uncounted
<1> QED
  BY <1>7, <1>8, Zenon

\* tryAdmit and mergeObservation: a call admitted in a window the gate has
\* seen leaves its class's floor untouched in GitHub's own count, up to the
\* points the gate has no count of, whatever the number of calls in flight, the
\* floors, the slots, the order of answers and the holders before this one.
THEOREM FloorsAreKept == GateSpec => HeadroomKept
<1>1. ASSUME GateInv, NEW a \in Agents, AdmitCall(a), pool[PoolFor(a)].current
      PROVE  server[PoolFor(a)] + unseen[PoolFor(a)]
               >= FloorOf[ClassFor(a)] + Uncounted(PoolFor(a))'
  <2>1. PICK p, floor : p = PoolFor(a) /\ floor = FloorOf[ClassFor(a)]
    BY Zenon
  <2>2. /\ p \in Pools /\ floor \in Nat /\ server[p] \in Nat /\ unseen[p] \in Nat
        /\ pool[p].remaining \in Nat /\ pool[p].current
    BY <1>1, <2>1, AgentsAreFinite DEF GateInv, GateTypeOK, Readings
  <2>3. PICK r, u, w, v : /\ r = Reserved(p) /\ u = Uncounted(p)
                          /\ w = Cardinality(OnTheWay(p)) /\ v = Uncounted(PoolFor(a))'
    BY Zenon
  <2>4. u \in Nat /\ r \in Nat /\ w \in Nat /\ w + u <= r
    BY <1>1, <2>3, ReservationsCover, OnTheWayIsFinite, Zenon
  <2>5. v = u + 1
    BY <1>1, <2>1, <2>3, AdmittedIsUncounted, Zenon
  <2>6. ~(pool[p].remaining < r + 1 + floor)
    BY <1>1, <2>1, <2>2, <2>3, Zenon DEF AdmitCall, Starved
  <2>7. pool[p].remaining <= server[p] + unseen[p] + w
    <3>1. OnTheWay(p) \ {} = OnTheWay(p) /\ {} \in SUBSET OnTheWay(p)
      BY Zenon
    <3> QED
      BY <1>1, <2>2, <2>3, <3>1, Zenon DEF GateInv, WithinCount
  <2>8. server[p] + unseen[p] >= floor + v
    BY <2>2, <2>4, <2>5, <2>6, <2>7
  <2> QED
    BY <2>1, <2>3, <2>8, Zenon
<1>2. GateInv /\ [GateNext]_gateVars
        => [\A a \in Agents :
              (AdmitCall(a) /\ pool[PoolFor(a)].current)
                => server[PoolFor(a)] + unseen[PoolFor(a)]
                     >= FloorOf[ClassFor(a)] + Uncounted(PoolFor(a))']_gateVars
  BY <1>1, Zenon
<1> QED
  BY <1>2, GateStart, GateStep, StoredStep, PTL DEF GateSpec, HeadroomKept
=============================================================================
