------------------------------- MODULE MCFiles -------------------------------
(***************************************************************************)
(* Instances of Files for TLC: files of one and two units in a plan of two.*)
(***************************************************************************)
EXTENDS Files, TLC

CONSTANTS f1, f2, f3

Sizes == (f1 :> 1) @@ (f2 :> 2) @@ (f3 :> 2)
=============================================================================
