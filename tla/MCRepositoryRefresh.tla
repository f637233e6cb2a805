------------------------- MODULE MCRepositoryRefresh -------------------------
(***************************************************************************)
(* Small instances for TLC of how a repository's row follows its signals   *)
(* and of how the rows of stacks and pull requests follow each other.  A   *)
(* behaviour moves only the one "focus" names.                             *)
(***************************************************************************)
EXTENDS RepositoryRefresh, StackMembership

VARIABLE focus

\* One stack of two, split in two stacks, and turned around.
StackLayouts ==
    {[s \in Stacks |-> l[s - 10]] :
       l \in {<<<<1, 2>>, <<>>>>, <<<<1>>, <<2>>>>, <<<<2, 1>>, <<>>>>}}

FocusInit ==
    /\ RepoInit /\ StacksInit
    /\ focus \in {"repository", "stacks"}
    /\ focus # "stacks" => mixed
    /\ mixed => layout[11] = <<1, 2>>

FocusNext ==
    /\ UNCHANGED focus
    /\ \/ focus = "repository" /\ RepoNext /\ UNCHANGED membershipVars
       \/ focus = "stacks" /\ StacksNext /\ UNCHANGED repoVars

\* RepoFairness, in the behaviours of its component.
FocusFairness ==
    /\ \A v \in Variants :
         /\ WF_repoVars(focus = "repository" /\ StartRefresh(v))
         /\ WF_repoVars(focus = "repository" /\
              (\/ ReadRow(v) \/ BeginObservation(v) \/ GetRepository(v)
               \/ GetBranchHead(v) \/ ApplyRepository(v) \/ RetryObservation(v)
               \/ Complete(v)))
    /\ WF_repoVars(focus = "repository" /\ Reconcile)

FocusSpec == FocusInit /\ [][FocusNext]_<<repoVars, membershipVars, focus>> /\ FocusFairness
==============================================================================
