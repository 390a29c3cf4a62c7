------------------------------- MODULE MCSignUp -------------------------------
(***************************************************************************)
(* Instances of SignUp for TLC: a person with one identity, and two        *)
(* organizations: one the person may register, one that exists.            *)
(***************************************************************************)
EXTENDS SignUp

CONSTANTS b, i1

Returning == {<<i1, b>>}
=============================================================================
