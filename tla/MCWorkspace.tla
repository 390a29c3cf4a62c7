----------------------------- MODULE MCWorkspace -----------------------------
(***************************************************************************)
(* Instances of Workspace for TLC: a tenant with a team, two projects and  *)
(* a user, and the team of another tenant.                                 *)
(***************************************************************************)
EXTENDS Workspace, TLC

CONSTANTS a, b, t1, t2, u1, s1, s2

Owner == [r \in Row \cup User |-> IF r \in {t2} THEN b ELSE a]

\* Rows begin with the slug s1, and with any team or none.
Fresh == {[slug |-> s1, text |-> x, team |-> t] : x \in Text, t \in Team \cup {None}}

\* Rename, leave the team, join a team of either tenant.
Edits == {[slug |-> s2], [team |-> None], [team |-> t1], [team |-> t2]}

Symmetry == Permutations(Proc) \cup Permutations(Project)
=============================================================================
