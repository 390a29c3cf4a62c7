------------------------- MODULE MCPermissionCache -------------------------
(***************************************************************************)
(* An instance of PermissionCache for TLC.  No symmetry: the run checks a  *)
(* liveness property.                                                      *)
(***************************************************************************)
EXTENDS PermissionCache, TLC
=============================================================================
