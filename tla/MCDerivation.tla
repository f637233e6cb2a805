----------------------------- MODULE MCDerivation -----------------------------
(* A small instance of Derivation for TLC. *)
EXTENDS Derivation, TLC

CONSTANTS w1, w2

\* A writer that moves the pull request between scopes, and one of all that
\* can change in the meantime.
WriterKinds == w1 :> {"pull"} @@ w2 :> {"stack", "checks", "repository"}
=============================================================================
