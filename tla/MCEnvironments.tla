-------------------------- MODULE MCEnvironments --------------------------
(***************************************************************************)
(* Instances of Environments for TLC.                                      *)
(***************************************************************************)
EXTENDS Environments

\* Two servers carry one label, a third carries none; the user types a name of its
\* own, or one whose secret name is the label's too ("my laptop" and "my-laptop").
CONSTANTS e1, e2, e3, laptop, my_laptop, desk

MCNames == {e1, e2, e3, laptop, my_laptop, desk}
MCLabel == (e1 :> laptop) @@ (e2 :> laptop) @@ (e3 :> None)
MCSecretName == [n \in MCNames |-> IF n = my_laptop THEN laptop ELSE n]
===========================================================================
