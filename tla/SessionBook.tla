---------------------------- MODULE SessionBook ----------------------------
(***************************************************************************)
(* What internal/identity promises about refresh tokens, with no request,  *)
(* lock or transaction in sight: a session is a family of refresh tokens   *)
(* of which at most one is usable; a refresh exchanges that one for a new  *)
(* one; a session that lost its usable token never gets another.           *)
(***************************************************************************)
CONSTANTS Token, None

VARIABLES
    issued,  \* tokens handed out so far
    usable   \* [Token -> the usable token of the session it began, or None]

Free(t) == t \notin issued

TypeOK ==
    /\ issued \in SUBSET Token
    /\ usable \in [Token -> Token \cup {None}]

Init ==
    /\ issued = {}
    /\ usable = [f \in Token |-> None]

\* A login begins a session with its first token.
Open(t) ==
    /\ Free(t)
    /\ issued' = issued \cup {t}
    /\ usable' = [usable EXCEPT ![t] = t]

\* A refresh replaces the usable token of a session that still has one.
Exchange(f, n) ==
    /\ usable[f] # None
    /\ Free(n)
    /\ issued' = issued \cup {n}
    /\ usable' = [usable EXCEPT ![f] = n]

\* Logout, reuse of a spent token, a new password: sessions end.
End(F) ==
    /\ usable' = [f \in Token |-> IF f \in F THEN None ELSE usable[f]]
    /\ UNCHANGED issued

Next ==
    \/ \E t \in Token : Open(t)
    \/ \E f, n \in Token : Exchange(f, n)
    \/ \E F \in SUBSET Token : End(F)

Spec == Init /\ [][Next]_<<issued, usable>>
=============================================================================
