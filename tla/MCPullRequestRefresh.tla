------------------------ MODULE MCPullRequestRefresh ------------------------
(* A small instance of PullRequestRefresh for TLC. *)
EXTENDS PullRequestRefresh

\* The second push moves updated_at, the first does not.
StepStamp == [r \in 0..MaxRemote |-> r \div 2]

\* Bound: a membership resolution meets two signals and no failure.
MembershipBound ==
    resolutions > 0 => gen < MaxGen /\ failures = 0 /\ pageFailures = 0
=============================================================================
