------------------------------ MODULE MCService ------------------------------
(***************************************************************************)
(* The two ends of the program that others wait for, checked in one run:   *)
(* the way of a webhook delivery to a completed refresh, and the calls     *)
(* that pass the gate.  A behaviour moves only the one "focus" names.      *)
(***************************************************************************)
EXTENDS WebhookIngest, TLC

CONSTANTS c1, c2, c3, Mint

VARIABLES
  st, held, parent, pool, shut, token, closing, server, answer,
  throttled, stray, unseen, saved, lag, gateFaults,
  focus

\* Two installation calls of different pools and a call with the App's JWT,
\* which share one slot.
Gate == INSTANCE BudgetGate WITH
          Calls <- {c1, c2, c3}, MaxConcurrent <- 1, Limit <- 3, MaxGateFaults <- MaxFaults,
          ClassOf <- (c1 :> "event" @@ c2 :> "sweep" @@ c3 :> "sweep"),
          PoolOf <- (c1 :> "rest" @@ c2 :> "graphql" @@ c3 :> "app_jwt_rest"),
          FloorOf <- ("interactive" :> 0 @@ "event" :> 1 @@ "sweep" :> 2)

gateVars == <<st, held, parent, pool, shut, token, closing, server,
              answer, throttled, stray, unseen, saved, lag, gateFaults>>

Init == IngestInit /\ Gate!GateInit /\ focus \in {"ingest", "gate"}

Next ==
    /\ UNCHANGED focus
    /\ \/ focus = "ingest" /\ IngestNext /\ UNCHANGED gateVars
       \/ focus = "gate" /\ Gate!GateNext /\ UNCHANGED ingestVars

\* IngestFairness and GateFairness, each in the behaviours of its component.
OfIngest == focus = "ingest"
OfGate == focus = "gate"

Fairness ==
    /\ WF_ingestVars(OfIngest /\ Serving)
    /\ WF_ingestVars(OfIngest /\ Reconciling)
    /\ \A a \in Gate!Agents : WF_gateVars(OfGate /\ Gate!Goroutine(a))
    /\ WF_gateVars(OfGate /\ Gate!MintTimesOut)
    /\ \A p \in Gate!Pools : WF_gateVars(OfGate /\ Gate!Rollover(p))
    /\ \A x \in Gate!AuthContexts : WF_gateVars(OfGate /\ Gate!BackoffEnds(x))

Spec ==
    /\ Init /\ [][Next]_<<ingestVars, gateVars, focus>>
    /\ Fairness

\* Gate.Do: every call that entered the gate returns.
EveryCallReturns == Gate!EveryCallReturns
=============================================================================
