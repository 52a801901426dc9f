------------------------------ MODULE MCWatch ------------------------------
(***************************************************************************)
(* Instances of Watch for TLC.                                             *)
(***************************************************************************)
EXTENDS Watch, TLC

\* Watches are interchangeable, and so are reader identities (safety only).
Symmetry == Permutations(Watches) \cup Permutations(Readers)
=============================================================================
