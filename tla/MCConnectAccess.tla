-------------------------- MODULE MCConnectAccess --------------------------
(***************************************************************************)
(* Instances of ConnectAccess for TLC.                                     *)
(***************************************************************************)
EXTENDS ConnectAccess, TLC

\* The callers are interchangeable.
Symmetry == Permutations(Callers)
=============================================================================
