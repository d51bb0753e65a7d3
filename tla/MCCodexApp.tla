------------------------------ MODULE MCCodexApp ------------------------------
(* Instances of CodexApp for TLC. *)
EXTENDS CodexApp, TLC

CONSTANTS k1, k2

\* Calls differ in nothing, and no step or invariant chooses among them.
CallSymmetry == Permutations(Calls)
=============================================================================
