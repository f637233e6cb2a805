----------------------------- MODULE MCReconcile -----------------------------
(***************************************************************************)
(* The four loops that repair the cache without webhooks, checked in one   *)
(* run: the staleness schedule, the listing sweep, the backfill and the    *)
(* drift detector.  They meet only in the refresh queue, which each module *)
(* has for itself, so a behaviour moves only the one "focus" names.        *)
(***************************************************************************)
EXTENDS StalenessSchedule, ListingSweep, Backfill, DriftDetector

VARIABLE focus

FocusInit ==
    /\ Init /\ SweepInit /\ BackfillInit /\ DriftInit
    /\ focus \in {"schedule", "sweep", "backfill", "drift"}
    /\ focus # "sweep" => cached = listed
    /\ focus # "backfill" => \A r \in Repos : openPulls[r] \in {{}, PullRequests}

FocusNext ==
    /\ UNCHANGED focus
    /\ \/ /\ focus = "schedule" /\ Next
          /\ UNCHANGED <<sweepVars, backfillVars, driftVars>>
       \/ /\ focus = "sweep" /\ SweepNext
          /\ UNCHANGED <<scheduleVars, backfillVars, driftVars>>
       \/ /\ focus = "backfill" /\ BackfillNext
          /\ UNCHANGED <<scheduleVars, sweepVars, driftVars>>
       \/ /\ focus = "drift" /\ DriftNext
          /\ UNCHANGED <<scheduleVars, sweepVars, backfillVars>>

\* The fairness of each module, in the behaviours of its component.
FocusFairness ==
    /\ WF_sweepVars(focus = "sweep" /\ Sweeping)
    /\ \A e \in Pulls : WF_sweepVars(focus = "sweep" /\ Refresh(e))
    /\ WF_backfillVars(focus = "backfill" /\ Working)
    /\ SF_backfillVars(focus = "backfill" /\ Committing)
    /\ WF_backfillVars(focus = "backfill" /\ Finishing)
    /\ WF_driftVars(focus = "drift" /\ Detecting)
    /\ WF_driftVars(focus = "drift" /\ RefreshWorkers)

FocusSpec ==
    /\ FocusInit
    /\ [][FocusNext]_<<scheduleVars, sweepVars, backfillVars, driftVars, focus>>
    /\ FocusFairness
=============================================================================
