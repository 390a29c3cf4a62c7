----------------------------- MODULE MCRealtime -----------------------------
(***************************************************************************)
(* Instances of Realtime for TLC: two notifications for one user, a stream *)
(* of that user and one of another, channels of one event.                 *)
(***************************************************************************)
EXTENDS Realtime, TLC

CONSTANTS n1, n2, c1, c2, u1, u2

Owners == [x \in Note \cup Stream |-> IF x \in {c2} THEN u2 ELSE u1]
=============================================================================
