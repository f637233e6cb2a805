------------------------------- MODULE MCFetch -------------------------------
(***************************************************************************)
(* The parts of internal/fetch and of the rows it writes, checked in one   *)
(* run: the discovery of a repository, the batches of pull-request         *)
(* fetches, the pages of a branch reconciliation, the rows of one pull     *)
(* request, and listings that are replaced as a whole.  A behaviour moves  *)
(* only the one "focus" names.                                             *)
(***************************************************************************)
EXTENDS DiscoveryGate, BranchPages, FetchCoordinator, PullRequestCache, ConditionalListing

VARIABLES focus

\* The third caller refreshes the first one's pull request too.
SharedPullRequest == [i \in Callers |-> IF i = 3 THEN 1 ELSE i]

\* An item that has no time yet, and two that have the same.
TimedVersions == {[at |-> 0, content |-> "a"], [at |-> 1, content |-> "a"],
                  [at |-> 1, content |-> "b"]}

\* Bound: with three refreshes, the last item has not been listed.
ListingBound ==
    runs > 2 => listed[Max(Items)] = Absent

FocusInit ==
    /\ Init /\ CoordinatorInit /\ BranchInit /\ CacheInit
    /\ ListingInit
    /\ focus \in {"discovery", "batches", "branch", "rows", "listing"}
    /\ focus # "batches" => stale = {}
    /\ focus # "listing" => kind = "checks"

FocusNext ==
    /\ UNCHANGED focus
    /\ \/ /\ focus = "discovery" /\ Next
          /\ UNCHANGED <<coordinatorVars, pageVars, prCacheVars, listingVars>>
       \/ /\ focus = "batches" /\ CoordinatorNext
          /\ UNCHANGED <<gateVars, pageVars, prCacheVars, listingVars>>
       \/ /\ focus = "branch" /\ BranchNext
          /\ UNCHANGED <<gateVars, coordinatorVars, prCacheVars, listingVars>>
       \/ /\ focus = "rows" /\ CacheNext
          /\ UNCHANGED <<gateVars, coordinatorVars, pageVars, listingVars>>
       \/ /\ focus = "listing" /\ ListingNext /\ ListingBound'
          /\ UNCHANGED <<gateVars, coordinatorVars, pageVars, prCacheVars>>

\* The Fairness of each module, in the behaviours of its component.
FocusFairness ==
    /\ WF_coordinatorVars(focus = "batches" /\ Batching)
    /\ WF_pageVars(focus = "branch" /\ Reconciling)

FocusSpec ==
    /\ FocusInit
    /\ [][FocusNext]_<<gateVars, coordinatorVars, pageVars, prCacheVars,
                      listingVars, focus>>
    /\ FocusFairness

\* applyPullRequest, ApplyChecksObserved, ApplyRepoRulesObserved: a visible
\* change marks derivation and emits an event.
ChangesAreEmitted == PullChangesAreEmitted /\ []ListingIsAccounted
=============================================================================
