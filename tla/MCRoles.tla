------------------------------ MODULE MCRoles ------------------------------
(***************************************************************************)
(* Instances of Roles for TLC: requests, users and custom roles are        *)
(* interchangeable.                                                        *)
(***************************************************************************)
EXTENDS Roles, TLC

Symmetry == Permutations(Proc) \cup Permutations(User) \cup Permutations(Custom)
=============================================================================
