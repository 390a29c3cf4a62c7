----------------------------- MODULE MCSessions -----------------------------
(***************************************************************************)
(* Instances of Sessions for TLC.  Requests, tokens and passwords are      *)
(* interchangeable, so the safety runs use their permutations.             *)
(***************************************************************************)
EXTENDS Sessions, TLC

Symmetry ==
    Permutations(Proc) \cup Permutations(Token) \cup Permutations(Password)
        \cup Permutations(ResetToken) \cup Permutations(VerifyToken)
=============================================================================
