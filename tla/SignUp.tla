-------------------------------- MODULE SignUp --------------------------------
(***************************************************************************)
(* How a person comes to have an account and to sign in with it: Register  *)
(* and OAuthCallback of internal/identity, Accept of internal/invitations. *)
(*                                                                         *)
(* Register and accept_invitation write all they write in one transaction; *)
(* a sign-up by OAuth writes the user, the role and the link in three, and *)
(* a failure or another request may come between them.  The module follows *)
(* one person: one e-mail address, the same in every organization.         *)
(***************************************************************************)
EXTENDS Naturals, FiniteSets

CONSTANTS
    Proc,         \* requests that may run at the same time
    Tenant,
    Existing,     \* tenants that others have registered before
    Account,      \* ids of users, in the order they are created (a bound)
    Identity,     \* identities the person has at the provider
    Persistent,   \* pairs of an identity and a tenant that come back until signed in
    MaxFailures,  \* bound on the failures of a statement
    MaxDeletions, \* bound on what the operator does
    None

ASSUME SignUpAssumption ==
    /\ Account \subseteq Nat /\ MaxFailures \in Nat /\ MaxDeletions \in Nat
    /\ None \notin Tenant \cup Account \cup Identity
    /\ Existing \subseteq Tenant /\ Persistent \subseteq Identity \X Tenant

VARIABLES
    registered, \* tenants that exist
    account,    \* [Account -> the row of users, and whether it has a role]
    link,       \* [Identity -> the account of its row in oauth_accounts, or None]
    invited,    \* tenants with a pending invitation for the person
    signedIn,   \* [Identity -> accounts it was given tokens for]
    cut,        \* history: accounts whose sign-up stopped before role or link
    failures, deletions,
    req         \* the requests in progress

tables == <<registered, account, link, invited>>
bounds == <<failures, deletions>>
vars == <<tables, signedIn, cut, bounds, req>>

Row == [tenant : Tenant \cup {None}, state : {"none", "live", "disabled", "deleted"},
        password : BOOLEAN, role : BOOLEAN]

NoRow == [tenant |-> None, state |-> "none", password |-> FALSE, role |-> FALSE]

Request == [pc : {"idle", "account", "match", "create", "role", "link", "validate",
                  "issue", "exists", "accept"},
            tenant : Tenant \cup {None},
            identity : Identity \cup {None},
            account : Account \cup {None},
            password : BOOLEAN]

NoRequest == [pc |-> "idle", tenant |-> None, identity |-> None, account |-> None,
              password |-> FALSE]

Undeleted(u) == account[u].state \in {"live", "disabled"}

TypeOK ==
    /\ registered \in SUBSET Tenant
    /\ account \in [Account -> Row]
    /\ link \in [Identity -> Account \cup {None}]
    /\ invited \in SUBSET registered
    /\ signedIn \in [Identity -> SUBSET Account]
    /\ cut \in [role : SUBSET Account, link : SUBSET Account]
    /\ failures \in 0..MaxFailures /\ deletions \in 0..MaxDeletions
    /\ req \in [Proc -> Request]
    /\ \A u, v \in Account :
         Undeleted(u) /\ Undeleted(v) /\ account[u].tenant = account[v].tenant => u = v

-----------------------------------------------------------------------------
\* Helpers

At(p, l) == req[p].pc = l
Goto(p, l) == req' = [req EXCEPT ![p].pc = l]
Answer(p) == req' = [req EXCEPT ![p] = NoRequest]

\* The live row with the person's e-mail, of which there is at most one.
ByEmail(t) == {u \in Account : Undeleted(u) /\ account[u].tenant = t}
Unused(u) == account[u].state = "none" /\ \A v \in Account : v < u => account[v].state # "none"
NewRow(t, password, role) ==
    [tenant |-> t, state |-> "live", password |-> password, role |-> role]

\* A statement fails: the request is told, or takes it for an answer.
Failing == failures < MaxFailures /\ failures' = failures + 1

-----------------------------------------------------------------------------
\* Register: tenant, owner and role in one transaction.  That the tokens may
\* fail after it changes nothing: the owner has a password to sign in with.

Register(t) ==
    /\ t \notin registered
    /\ \E u \in Account :
         /\ Unused(u)
         /\ registered' = registered \cup {t}
         /\ account' = [account EXCEPT ![u] = NewRow(t, TRUE, TRUE)]
    /\ UNCHANGED <<link, invited, signedIn, cut, bounds, req>>

-----------------------------------------------------------------------------
\* OAuthCallback

\* The state names a tenant that is active, the provider vouches for the code.
OAuthCallback(p, i, t) ==
    /\ At(p, "idle") /\ t \in registered
    /\ req' = [req EXCEPT ![p] = [NoRequest EXCEPT !.pc = "account", !.tenant = t,
                                                   !.identity = i]]
    /\ UNCHANGED <<tables, signedIn, cut, bounds>>

FindOAuthAccount(p) ==
    LET u == link[req[p].identity] IN
    /\ At(p, "account")
    /\ IF u = None THEN Goto(p, "match")
       ELSE IF account[u].tenant # req[p].tenant THEN Answer(p)
       ELSE req' = [req EXCEPT ![p].pc = "validate", ![p].account = u]
    /\ UNCHANGED <<tables, signedIn, cut, bounds>>

\* Any error is taken for an identity without a link.
FindOAuthAccountFails(p) ==
    /\ At(p, "account") /\ Failing
    /\ Goto(p, "match")
    /\ UNCHANGED <<tables, signedIn, cut, deletions>>

\* Fault: an account that exists is not looked for.
MatchNobody(p) ==
    /\ At(p, "match")
    /\ Goto(p, "create")
    /\ UNCHANGED <<tables, signedIn, cut, bounds>>

FindByEmailInTenant(p) ==
    /\ At(p, "match")
    /\ IF ByEmail(req[p].tenant) = {}
       THEN Goto(p, "create")
       ELSE \E u \in ByEmail(req[p].tenant) :
              IF account[u].state = "disabled" THEN Answer(p)
              ELSE req' = [req EXCEPT ![p].pc = "link", ![p].account = u]
    /\ UNCHANGED <<tables, signedIn, cut, bounds>>

\* Any error is taken for nobody with that address.
FindByEmailInTenantFails(p) ==
    /\ At(p, "match") /\ Failing
    /\ Goto(p, "create")
    /\ UNCHANGED <<tables, signedIn, cut, deletions>>

\* The unique index refuses a second live row for the address.
Create(p) ==
    /\ At(p, "create")
    /\ \/ /\ ByEmail(req[p].tenant) # {}
          /\ Answer(p) /\ account' = account
       \/ /\ ByEmail(req[p].tenant) = {}
          /\ \E u \in Account :
               /\ Unused(u)
               /\ account' = [account EXCEPT ![u] = NewRow(req[p].tenant, FALSE, FALSE)]
               /\ req' = [req EXCEPT ![p].pc = "role", ![p].account = u]
    /\ UNCHANGED <<registered, link, invited, signedIn, cut, bounds>>

\* Member, in every organization; a system role is never deleted.
AssignSystemRole(p) ==
    /\ At(p, "role")
    /\ account' = [account EXCEPT ![req[p].account].role = TRUE]
    /\ Goto(p, "link")
    /\ UNCHANGED <<registered, link, invited, signedIn, cut, bounds>>

\* Fault: a link that exists is replaced.
Relink(p) ==
    /\ At(p, "link")
    /\ link' = [link EXCEPT ![req[p].identity] = req[p].account]
    /\ Goto(p, "validate")
    /\ UNCHANGED <<registered, account, invited, signedIn, cut, bounds>>

\* An identity has one link, in all organizations together: the request that
\* comes second fails, and leaves what it has created.
CreateOAuthAccount(p) ==
    LET u == req[p].account IN
    /\ At(p, "link")
    /\ IF link[req[p].identity] = None
       THEN /\ link' = [link EXCEPT ![req[p].identity] = u]
            /\ Goto(p, "validate")
            /\ cut' = cut
       ELSE /\ link' = link
            /\ cut' = [cut EXCEPT !.link = @ \cup {u}]
            /\ Answer(p)
    /\ UNCHANGED <<registered, account, invited, signedIn, bounds>>

ValidateCredentialState(p) ==
    /\ At(p, "validate")
    /\ IF account[req[p].account].state = "live" THEN Goto(p, "issue") ELSE Answer(p)
    /\ UNCHANGED <<tables, signedIn, cut, bounds>>

\* issueTokenPair looks at the account again, under a lock.
IssueTokenPair(p) ==
    /\ At(p, "issue")
    /\ IF account[req[p].account].state = "live"
       THEN signedIn' = [signedIn EXCEPT ![req[p].identity] = @ \cup {req[p].account}]
       ELSE signedIn' = signedIn
    /\ Answer(p)
    /\ UNCHANGED <<tables, cut, bounds>>

-----------------------------------------------------------------------------
\* Invitations

\* A member invites the person, as Seats says.
Invite(t) ==
    /\ t \in registered \ invited
    /\ invited' = invited \cup {t}
    /\ UNCHANGED <<registered, account, link, signedIn, cut, bounds, req>>

Accept(p, t) ==
    /\ At(p, "idle") /\ t \in invited
    /\ req' = [req EXCEPT ![p] = [NoRequest EXCEPT !.pc = "exists", !.tenant = t]]
    /\ UNCHANGED <<tables, signedIn, cut, bounds>>

\* Fault: nobody is asked for a password.
AskNobody(p) ==
    /\ At(p, "exists")
    /\ Goto(p, "accept")
    /\ UNCHANGED <<tables, signedIn, cut, bounds>>

\* A password is asked of whoever has no account at this moment.
UserExistsInTenant(p) ==
    /\ At(p, "exists")
    /\ req' = [req EXCEPT ![p].pc = "accept",
                          ![p].password = ByEmail(req[p].tenant) = {}]
    /\ UNCHANGED <<tables, signedIn, cut, bounds>>

\* Fault: a new account is not given the role of the invitation.
AcceptWithoutRole(p) ==
    LET t == req[p].tenant IN
    /\ At(p, "accept") /\ t \in invited
    /\ invited' = invited \ {t}
    /\ \E u \in Account :
         /\ IF ByEmail(t) = {} THEN Unused(u) ELSE u \in ByEmail(t)
         /\ account' = [account EXCEPT ![u] =
                          IF Unused(u) THEN NewRow(t, req[p].password, FALSE) ELSE @]
    /\ cut' = cut
    /\ Answer(p)
    /\ UNCHANGED <<registered, link, signedIn, bounds>>

\* accept_invitation: the claim, the account unless there is one, and the role,
\* in one transaction.  The password is the one asked for before.
AcceptInvitation(p) ==
    LET t == req[p].tenant IN
    /\ At(p, "accept")
    /\ \/ /\ t \notin invited
          /\ UNCHANGED <<account, invited, cut>>
       \/ /\ t \in invited
          /\ invited' = invited \ {t}
          /\ \E u \in Account :
               /\ IF ByEmail(t) = {} THEN Unused(u) ELSE u \in ByEmail(t)
               /\ account' = [account EXCEPT ![u] =
                    IF Unused(u) THEN NewRow(t, req[p].password, TRUE)
                    ELSE [@ EXCEPT !.role = TRUE]]
               /\ cut' = IF Unused(u) /\ ~req[p].password /\ deletions > 0
                         THEN [cut EXCEPT !.link = @ \cup {u}] ELSE cut
    /\ Answer(p)
    /\ UNCHANGED <<registered, link, signedIn, bounds>>

-----------------------------------------------------------------------------
\* Failures and the operator

\* A statement fails, or its answer is lost, or the client gives up.
Fail(p) ==
    LET u == req[p].account IN
    /\ ~At(p, "idle") /\ Failing
    /\ cut' = [role |-> cut.role \cup (IF At(p, "role") THEN {u} ELSE {}),
               link |-> cut.link \cup (IF At(p, "role") \/ At(p, "link")
                                       THEN {u} ELSE {})]
    /\ Answer(p)
    /\ UNCHANGED <<tables, signedIn, deletions>>

\* The operator deletes or disables an account; nothing in the program does.
OperatorEnds(u, state) ==
    /\ account[u].state = "live" /\ deletions < MaxDeletions
    /\ deletions' = deletions + 1
    /\ account' = [account EXCEPT ![u].state = state]
    /\ UNCHANGED <<registered, link, invited, signedIn, cut, failures, req>>

-----------------------------------------------------------------------------
\* The system

Init ==
    /\ registered = Existing
    /\ account = [u \in Account |-> NoRow]
    /\ link = [i \in Identity |-> None]
    /\ invited = {}
    /\ signedIn = [i \in Identity |-> {}]
    /\ cut = [role |-> {}, link |-> {}]
    /\ failures = 0 /\ deletions = 0
    /\ req = [p \in Proc |-> NoRequest]

Step(p) ==
    \/ FindOAuthAccount(p) \/ FindByEmailInTenant(p) \/ Create(p)
    \/ AssignSystemRole(p) \/ CreateOAuthAccount(p) \/ ValidateCredentialState(p)
    \/ IssueTokenPair(p) \/ UserExistsInTenant(p) \/ AcceptInvitation(p)

Next ==
    \/ \E t \in Tenant : Register(t) \/ Invite(t)
    \/ \E p \in Proc :
         \/ \E i \in Identity, t \in Tenant : OAuthCallback(p, i, t)
         \/ \E t \in Tenant : Accept(p, t)
         \/ Step(p)
         \/ FindOAuthAccountFails(p) \/ FindByEmailInTenantFails(p) \/ Fail(p)
    \/ \E u \in Account, st \in {"disabled", "deleted"} : OperatorEnds(u, st)

Spec == Init /\ [][Next]_vars

\* Requests run on, and a person who was refused tries again, sooner or later
\* with no request of theirs already on its way.
FairSpec ==
    /\ Spec
    /\ \A p \in Proc : WF_vars(Step(p))
    /\ \A r \in Persistent : SF_vars(\E p \in Proc : OAuthCallback(p, r[1], r[2]))

-----------------------------------------------------------------------------
\* Properties

\* Every account has a role, from the moment it can be used, but for a sign-up
\* by OAuth that stopped, or still is, between creating the user and granting
\* the role: no retry grants it then, since the account is found by its address.
RolelessOnlyWhenCut ==
    \A u \in Account : account[u].state # "none" /\ ~account[u].role =>
      u \in cut.role \/ \E p \in Proc : At(p, "role") /\ req[p].account = u

\* Every account has a password or an identity to sign in with, but for a
\* sign-up that stopped before the link, lost the link to a request of the same
\* identity, or an invitation accepted while the account was deleted.
ReachableUnlessCut ==
    \A u \in Account : account[u].state = "live" /\ ~account[u].password =>
      \/ \E i \in Identity : link[i] = u
      \/ u \in cut.link
      \/ \E p \in Proc : req[p].account = u /\ req[p].pc \in {"role", "link"}

\* Whatever callbacks overlap, in one organization or in two, an identity is
\* given tokens for one account and no other.
SameAccountEachTime == \A i \in Identity : Cardinality(signedIn[i]) <= 1

\* A sign-up that failed half-way can be completed: who comes back to the same
\* organization signs in, unless the identity is linked elsewhere or the
\* account was ended by the operator.
RetriesSignIn ==
    \A r \in Persistent :
      LET i == r[1]
          t == r[2]
      IN  t \in registered ~>
            \/ \E u \in signedIn[i] : account[u].tenant = t
            \/ link[i] # None /\ account[link[i]].tenant # t
            \/ \E u \in Account :
                 account[u].tenant = t /\ account[u].state \in {"disabled", "deleted"}
=============================================================================
