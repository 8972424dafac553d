----------------------------- MODULE MCConsole ------------------------------
(***************************************************************************)
(* Instances of Console for TLC in which several tasks print.              *)
(***************************************************************************)
EXTENDS Console, TLC

\* The writers are alike.
Symmetry == Permutations(WRITERS)

=============================================================================
