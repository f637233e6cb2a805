------------------------------ MODULE MCHandoff ------------------------------
(***************************************************************************)
(* The three owners of a shared resource, checked in one run: the lease of *)
(* the installation budget, the lease of the gap-heal cursor and the gate  *)
(* that shares out the budget.  They do not interact, so a behaviour moves *)
(* only the one that "focus" names.                                        *)
(***************************************************************************)
EXTENDS BudgetLease, BudgetGate, DeliveryGap, TLC

CONSTANTS c1, c2, c3

VARIABLE focus

\* A REST call whose token exchange shares a pool with two calls that carry
\* the App's JWT, one of each class.
GateCalls == {c1, c2, c3}
GateClasses == c1 :> "interactive" @@ c2 :> "event" @@ c3 :> "sweep"
GatePools == c1 :> "rest" @@ c2 :> "app_jwt_rest" @@ c3 :> "app_jwt_rest"
GateFloors == "interactive" :> 0 @@ "event" :> 1 @@ "sweep" :> 2

Init ==
  /\ LeaseInit /\ GapInit /\ GateInit
  /\ focus \in {"lease", "gap", "gate"}

Next ==
  /\ UNCHANGED focus
  /\ \/ focus = "lease" /\ LeaseNext /\ UNCHANGED <<gapVars, gateVars>>
     \/ focus = "gap" /\ GapNext /\ UNCHANGED <<leaseVars, gateVars>>
     \/ focus = "gate" /\ GateNext /\ UNCHANGED <<leaseVars, gapVars>>

Spec == Init /\ [][Next]_<<leaseVars, gapVars, gateVars, focus>>

Symmetry == Permutations(Jobs)

\* Bound: a runtime persists one backoff at a time, and a runtime that has
\* ended none.
OneBackoff ==
  \A r \in Runtimes :
    Cardinality(limited[r]) <= IF phase[r] = "ended" THEN 0 ELSE 1
=============================================================================
