---------------------------- MODULE MCCredentials ----------------------------
(***************************************************************************)
(* Instances of Credentials for TLC: a tenant with a user and no key yet,  *)
(* and a second tenant that may come to be, with any slug free then.       *)
(***************************************************************************)
EXTENDS Credentials, TLC

CONSTANTS a, b, s1, s2, u1, u2

Owner == (u1 :> a) @@ (u2 :> b)
Slugs == [t \in Tenant |-> IF t = a THEN s1 ELSE None]
Keys == [k \in Key |-> None]
=============================================================================
