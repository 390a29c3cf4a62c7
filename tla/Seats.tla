------------------------------- MODULE Seats -------------------------------
(***************************************************************************)
(* Seats of one tenant: internal/invitations (create, revoke, accept), the *)
(* seat quota and the plan changes of internal/billing, over the tables    *)
(* invitations, users, subscriptions and tenants.                          *)
(*                                                                         *)
(* Every read of a request is a transaction of its own, and so is every    *)
(* write: what the request decides on is what it has read before.  Whether *)
(* the inviter may delegate the role is the matter of Roles.               *)
(***************************************************************************)
EXTENDS Naturals, FiniteSets

CONSTANTS
    Proc,     \* requests that may run at the same time
    Email,    \* people; one of them is the first user of the tenant
    Inv,      \* ids of invitations (bounds how many are ever created)
    Plan,     \* the plans of the catalog
    Free,     \* the plan of a tenant without subscription
    Limit,    \* max_seats of each plan, None when unlimited
    SignUps,  \* people who may sign up by OAuth without an invitation
    None

Subscription == [plan : Plan, cancels : BOOLEAN]

ASSUME SeatsAssumption ==
    /\ Free \in Plan /\ None \notin Plan /\ None \notin Email /\ None \notin Inv
    /\ None \notin Subscription
    /\ Limit \in [Plan -> Nat \cup {None}]
    /\ SignUps \subseteq Email

VARIABLES
    status,    \* [Inv -> invitations.status, "absent" without a row]
    email,     \* [Inv -> the person invited, None without a row]
    lapsed,    \* invitations whose expires_at has passed
    member,    \* people with a live account
    sub,       \* the subscription row, or None
    planCode,  \* tenants.plan_code
    req        \* the requests in progress

invitations == <<status, email, lapsed>>
billing == <<sub, planCode>>
vars == <<status, email, lapsed, member, sub, planCode, req>>

Op == {"none", "invite", "revoke", "accept", "change", "cancel"}

\* n is the count a quota check has read; existing says that the upsert has
\* found a row to update.
Request == [op : Op, pc : {"idle", "count", "insert", "update", "select", "claim",
                           "upsert", "write"},
            email : Email \cup {None}, inv : Inv \cup {None},
            plan : Plan \cup {None}, n : Nat, existing : BOOLEAN]

NoRequest == [op |-> "none", pc |-> "idle", email |-> None, inv |-> None,
              plan |-> None, n |-> 0, existing |-> FALSE]

Pending(i) == status[i] = "pending"

TypeOK ==
    /\ status \in [Inv -> {"absent", "pending", "accepted", "revoked"}]
    /\ email \in [Inv -> Email \cup {None}]
    /\ \A i \in Inv : email[i] = None <=> status[i] = "absent"
    /\ \A i, j \in Inv : (Pending(i) /\ Pending(j) /\ email[i] = email[j]) => i = j
    /\ lapsed \in SUBSET Inv
    /\ member \in SUBSET Email
    /\ sub \in Subscription \cup {None}
    /\ planCode \in Plan
    /\ req \in [Proc -> Request]

-----------------------------------------------------------------------------
\* Helpers

At(p, l) == req[p].pc = l
Goto(p, l) == req' = [req EXCEPT ![p].pc = l]
Answer(p) == req' = [req EXCEPT ![p] = NoRequest]
Begin(p, r) == At(p, "idle") /\ req' = [req EXCEPT ![p] = r]

\* FindSubscription, with the free plan when there is none; neither its status
\* nor the end of its period is looked at.
ActivePlan == IF sub = None THEN Free ELSE sub.plan

\* CountUsage: seats, and seats with the pending invitations in force.
Seats == Cardinality(member)
Occupied == Seats + Cardinality({i \in Inv : Pending(i) /\ i \notin lapsed})

\* A plan without limit has room for any number.
HasRoom(n, plan) == Limit[plan] # None => n < Limit[plan]
Fits(n, plan) == Limit[plan] # None => n <= Limit[plan]

-----------------------------------------------------------------------------
\* Invitations

\* Create, up to the read of the plan in CheckSeatQuota.
Invite(p, e) ==
    /\ Begin(p, [NoRequest EXCEPT !.op = "invite", !.pc = "count", !.email = e,
                                  !.plan = ActivePlan])
    /\ UNCHANGED <<invitations, member, billing>>

\* Fault: the comparison lets one invitation too many through.
CheckSeatQuotaLoose(p) ==
    /\ At(p, "count")
    /\ req' = [req EXCEPT ![p] = IF Fits(Occupied, req[p].plan)
                                 THEN [@ EXCEPT !.pc = "insert", !.n = Occupied]
                                 ELSE NoRequest]
    /\ UNCHANGED <<invitations, member, billing>>

CheckSeatQuota(p) ==
    /\ At(p, "count")
    /\ req' = [req EXCEPT ![p] = IF HasRoom(Occupied, req[p].plan)
                                 THEN [@ EXCEPT !.pc = "insert", !.n = Occupied]
                                 ELSE NoRequest]
    /\ UNCHANGED <<invitations, member, billing>>

\* The unique index on pending invitations knows nothing of expires_at.
Taken(e) == \E i \in Inv : Pending(i) /\ email[i] = e

InsertInvitation(p) ==
    /\ At(p, "insert")
    /\ ~Taken(req[p].email)
    /\ \E i \in Inv :
        /\ status[i] = "absent"
        /\ status' = [status EXCEPT ![i] = "pending"]
        /\ email' = [email EXCEPT ![i] = req[p].email]
    /\ Answer(p)
    /\ UNCHANGED <<lapsed, member, billing>>

InvitationConflict(p) ==
    /\ At(p, "insert")
    /\ Taken(req[p].email)
    /\ Answer(p)
    /\ UNCHANGED <<invitations, member, billing>>

\* Revoke looks at the invitation, and changes it if it is pending still.
Revoke(p, i) ==
    /\ Pending(i)
    /\ Begin(p, [NoRequest EXCEPT !.op = "revoke", !.pc = "update", !.inv = i])
    /\ UNCHANGED <<invitations, member, billing>>

UpdateStatus(p) ==
    /\ At(p, "update")
    /\ status' = IF Pending(req[p].inv)
                 THEN [status EXCEPT ![req[p].inv] = "revoked"] ELSE status
    /\ Answer(p)
    /\ UNCHANGED <<email, lapsed, member, billing>>

\* Accept looks at the invitation before it calls accept_invitation ...
Redeemable(i) == Pending(i) /\ i \notin lapsed

Accept(p, i) ==
    /\ Redeemable(i)
    /\ Begin(p, [NoRequest EXCEPT !.op = "accept", !.pc = "select", !.inv = i])
    /\ UNCHANGED <<invitations, member, billing>>

\* ... which looks again, in the snapshot of its SELECT, ...
SelectInvitation(p) ==
    /\ At(p, "select")
    /\ IF Redeemable(req[p].inv) THEN Goto(p, "claim") ELSE Answer(p)
    /\ UNCHANGED <<invitations, member, billing>>

\* Fault: the claim is an UPDATE by id alone.
ClaimById(p) ==
    LET i == req[p].inv IN
    /\ At(p, "claim")
    /\ status' = [status EXCEPT ![i] = "accepted"]
    /\ member' = member \cup {email[i]}
    /\ Answer(p)
    /\ UNCHANGED <<email, lapsed, billing>>

\* ... and claims the row by UPDATE ... WHERE status = 'pending'.  A person
\* who has an account keeps it, anybody else gets one.
ClaimInvitation(p) ==
    LET i == req[p].inv IN
    /\ At(p, "claim")
    /\ IF Pending(i)
       THEN /\ status' = [status EXCEPT ![i] = "accepted"]
            /\ member' = member \cup {email[i]}
       ELSE UNCHANGED <<status, member>>
    /\ Answer(p)
    /\ UNCHANGED <<email, lapsed, billing>>

-----------------------------------------------------------------------------
\* Plans

\* ChangePlan refuses a plan the seats in use do not fit in.
ChangePlan(p, plan) ==
    /\ Fits(Seats, plan)
    /\ Begin(p, [NoRequest EXCEPT !.op = "change", !.pc = "upsert", !.plan = plan,
                                  !.n = Seats])
    /\ UNCHANGED <<invitations, member, billing>>

\* Cancel keeps the row it has read, the plan included, for the upsert.
Cancel(p) ==
    /\ sub # None
    /\ Begin(p, [NoRequest EXCEPT !.op = "cancel", !.pc = "upsert", !.plan = sub.plan])
    /\ UNCHANGED <<invitations, member, billing>>

\* UpsertSubscription looks for the row in its transaction, and inserts or
\* updates it.  A concurrent insert makes its own fail.
UpsertFind(p) ==
    /\ At(p, "upsert")
    /\ req' = [req EXCEPT ![p] = [@ EXCEPT !.pc = "write", !.existing = sub # None]]
    /\ UNCHANGED <<invitations, member, billing>>

\* Fault: tenants.plan_code is written only for a new subscription.
UpsertOneTable(p) ==
    /\ At(p, "write")
    /\ req[p].existing \/ sub = None
    /\ sub' = [plan |-> req[p].plan, cancels |-> req[p].op = "cancel"]
    /\ planCode' = IF req[p].existing THEN planCode ELSE req[p].plan
    /\ Answer(p)
    /\ UNCHANGED <<invitations, member>>

UpsertSubscription(p) ==
    /\ At(p, "write")
    /\ req[p].existing \/ sub = None
    /\ sub' = [plan |-> req[p].plan, cancels |-> req[p].op = "cancel"]
    /\ planCode' = req[p].plan
    /\ Answer(p)
    /\ UNCHANGED <<invitations, member>>

-----------------------------------------------------------------------------
\* The environment

\* A failed statement or a lost client, at any step: the transaction open then
\* is rolled back.
Abort(p) ==
    /\ ~At(p, "idle")
    /\ Answer(p)
    /\ UNCHANGED <<invitations, member, billing>>

Lapse(i) ==
    /\ Pending(i) /\ i \notin lapsed
    /\ lapsed' = lapsed \cup {i}
    /\ UNCHANGED <<status, email, member, billing, req>>

\* OAuthCallback provisions an account without a look at the quota.
SignUp(e) ==
    /\ e \in SignUps \ member
    /\ member' = member \cup {e}
    /\ UNCHANGED <<invitations, billing, req>>

\* An operator deletes an account (deleted_at): nothing in the program does.
\* The person may join again, as somebody new.
OperatorDeletes(e) ==
    /\ e \in member
    /\ member' = member \ {e}
    /\ UNCHANGED <<invitations, billing, req>>

-----------------------------------------------------------------------------
\* Specification

\* A registered tenant: one user, no subscription.
Init ==
    /\ status = [i \in Inv |-> "absent"]
    /\ email = [i \in Inv |-> None]
    /\ lapsed = {}
    /\ \E e \in Email : member = {e}
    /\ sub = None
    /\ planCode = Free
    /\ req = [p \in Proc |-> NoRequest]

Arrive(p) ==
    \/ \E e \in Email : Invite(p, e)
    \/ \E i \in Inv : Revoke(p, i) \/ Accept(p, i)
    \/ \E plan \in Plan : ChangePlan(p, plan)
    \/ Cancel(p)

Step(p) ==
    \/ CheckSeatQuota(p)
    \/ InsertInvitation(p)
    \/ InvitationConflict(p)
    \/ UpdateStatus(p)
    \/ SelectInvitation(p)
    \/ ClaimInvitation(p)
    \/ UpsertFind(p)
    \/ UpsertSubscription(p)
    \/ Abort(p)

Next ==
    \/ \E p \in Proc : Arrive(p) \/ Step(p)
    \/ \E i \in Inv : Lapse(i)
    \/ \E e \in Email : SignUp(e) \/ OperatorDeletes(e)

Spec == Init /\ [][Next]_vars

-----------------------------------------------------------------------------
\* Properties

\* tenants.plan_code, which every request is given, agrees with the
\* subscription whatever plan changes and cancellations overlap
\* (UpsertSubscription: "prevents the two from disagreeing").
PlanCodeInStep == planCode = ActivePlan

\* An invitation is resolved once: accepted or revoked it stays so, however
\* its acceptances and its revocations overlap.
ResolvedOnce ==
    [][\A i \in Inv : status[i] \in {"accepted", "revoked"} =>
        status'[i] = status[i]]_vars

\* A quota check that nothing overtook is exact: unless somebody joined or was
\* invited after the count, an invitation leaves the tenant within the plan the
\* check has read, and a plan change within the new plan.
ExactWhenNotOvertaken ==
    [][\A p \in Proc :
        /\ (InsertInvitation(p) /\ Occupied <= req[p].n) =>
               Fits(Occupied', req[p].plan)
        /\ (UpsertSubscription(p) /\ req[p].op = "change" /\ Seats <= req[p].n) =>
               Fits(Seats', ActivePlan')]_vars
=============================================================================
