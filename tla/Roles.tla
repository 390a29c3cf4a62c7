------------------------------- MODULE Roles -------------------------------
(***************************************************************************)
(* The role mutations of internal/authz: creating, editing and deleting    *)
(* roles, granting and revoking them, over the roles, role_permissions,    *)
(* user_roles and users tables of one tenant.                              *)
(*                                                                         *)
(* Each mutation is one READ COMMITTED transaction that takes row locks    *)
(* one statement after the other: the actor's row, the rows of the actor's *)
(* roles, the row of the role it is about, the row of the user it is about.*)
(* What a statement reads it keeps in req[p]; its writes show at the       *)
(* commit, a step of its own.  The row of a grant is only ever changed     *)
(* under the lock of its user's row, so it needs no lock of its own here.  *)
(* Two transactions that wait for each other end by Abort: Postgres picks  *)
(* a victim.                                                               *)
(***************************************************************************)
EXTENDS Naturals, FiniteSets

CONSTANTS
    Proc,     \* requests that may run at the same time
    User,     \* users of the tenant
    Custom,   \* ids of custom roles (bounds how many are ever created)
    Perm,     \* the permission catalog
    Edited,   \* roles edited from a form that was loaded before (a bound)
    Invited,  \* roles an invitation or an OAuth sign-up may bring
    None

OrgManage == "org:manage"

\* Two of the five seeded roles: manager, member and guest are lower-ranked
\* system roles with fewer permissions than admin.
System == {"owner", "admin"}
Role == System \cup Custom

Rank(r) == IF r = "owner" THEN 0 ELSE IF r = "admin" THEN 10 ELSE 100

ASSUME RolesAssumption ==
    /\ OrgManage \in Perm
    /\ Custom \cap System = {}
    /\ Edited \subseteq Role /\ Invited \subseteq Role
    /\ None \notin Proc /\ None \notin User /\ None \notin Role

VARIABLES
    exists,    \* roles in the table
    used,      \* custom role ids ever used: a UUID does not come back
    perms,     \* role_permissions: [Role -> SUBSET Perm]
    holds,     \* user_roles: [User -> SUBSET Role]
    disabled,  \* users an operator has disabled
    userLock,  \* [User -> request holding the row FOR UPDATE]
    roleLock,  \* [Role -> request holding the row FOR UPDATE]
    req        \* the requests in progress

tables == <<exists, used, perms, holds, disabled>>
locks == <<userLock, roleLock>>
vars == <<exists, used, perms, holds, disabled, userLock, roleLock, req>>

Op == {"none", "create", "update", "delete", "assign", "revoke"}
Pc == {"idle", "loading", "loaded", "actor", "role", "target", "commit"}

\* held and can are the actor's roles and permissions as its transaction read
\* them; seen is what the editor was shown, and fresh says that the role's
\* updated_at is still the revision the editor sends back.
Request == [op : Op, pc : Pc, actor : User \cup {None}, role : Role \cup {None},
            user : User \cup {None}, codes : SUBSET Perm, held : SUBSET Role,
            can : SUBSET Perm, seen : SUBSET Perm, fresh : BOOLEAN,
            conditional : BOOLEAN]

NoRequest == [op |-> "none", pc |-> "idle", actor |-> None, role |-> None,
              user |-> None, codes |-> {}, held |-> {}, can |-> {}, seen |-> {},
              fresh |-> FALSE, conditional |-> FALSE]

TypeOK ==
    /\ exists \in SUBSET Role /\ System \subseteq exists
    /\ used \in SUBSET Custom /\ exists \subseteq System \cup used
    /\ perms \in [Role -> SUBSET Perm]
    /\ \A r \in Role \ exists : perms[r] = {}
    /\ holds \in [User -> SUBSET exists]
    /\ disabled \in SUBSET User
    /\ userLock \in [User -> Proc \cup {None}]
    /\ roleLock \in [Role -> Proc \cup {None}]
    /\ req \in [Proc -> Request]

-----------------------------------------------------------------------------
\* Helpers

At(p, l) == req[p].pc = l

\* The union of the permissions of a set of roles.
PermsOf(R) == UNION {perms[r] : r \in R}

\* "rank" of a set of roles is its smallest; a lower rank is more powerful.
Outranks(R, S) == \E h \in R : \A r \in S : Rank(h) < Rank(r)

IsOwner(p) == "owner" \in req[p].held

\* Fault: org:manage may be given to any role.
MayDelegateOrgManage(p, r, codes) ==
    /\ r = "owner" => IsOwner(p)
    /\ IsOwner(p) \/ Outranks(req[p].held, {r})
    /\ codes \subseteq req[p].can

\* authorizeRoleDelegation
MayDelegate(p, r, codes) ==
    /\ r = "owner" => IsOwner(p)
    /\ IsOwner(p) \/ Outranks(req[p].held, {r})
    /\ OrgManage \in codes => r = "owner"
    /\ codes \subseteq req[p].can

\* authorizeRoleControl
MayControl(p, r, codes) ==
    /\ r = "owner" => IsOwner(p)
    /\ IsOwner(p) \/ Outranks(req[p].held, {r})
    /\ OrgManage \in codes => IsOwner(p)
    /\ codes \subseteq req[p].can

\* Commit or rollback: every row lock of p is given up, and p is answered.
Finish(p) ==
    /\ userLock' = [u \in User |-> IF userLock[u] = p THEN None ELSE userLock[u]]
    /\ roleLock' = [r \in Role |-> IF roleLock[r] = p THEN None ELSE roleLock[r]]

Answer(p) == req' = [req EXCEPT ![p] = NoRequest]

Refuse(p) == Finish(p) /\ Answer(p) /\ UNCHANGED tables

\* The transaction of p begins by locking the actor's row.  Disabled users
\* do not get past the credential check in front of the handlers.
Begin(p, a, r) ==
    /\ a \notin disabled
    /\ userLock[a] = None
    /\ userLock' = [userLock EXCEPT ![a] = p]
    /\ req' = [req EXCEPT ![p] = r]
    /\ UNCHANGED <<tables, roleLock>>

-----------------------------------------------------------------------------
\* The five mutations

CreateRole(p, a, codes) ==
    /\ At(p, "idle")
    /\ Begin(p, a, [NoRequest EXCEPT !.op = "create", !.pc = "actor", !.actor = a,
                                     !.codes = codes])

UpdateRolePermissions(p, a, r, codes) ==
    /\ At(p, "idle")
    /\ Begin(p, a, [NoRequest EXCEPT !.op = "update", !.pc = "actor", !.actor = a,
                                     !.role = r, !.codes = codes])

DeleteRole(p, a, r) ==
    /\ At(p, "idle")
    /\ Begin(p, a, [NoRequest EXCEPT !.op = "delete", !.pc = "actor", !.actor = a,
                                     !.role = r])

AssignRole(p, a, u, r) ==
    /\ At(p, "idle")
    /\ Begin(p, a, [NoRequest EXCEPT !.op = "assign", !.pc = "actor", !.actor = a,
                                     !.role = r, !.user = u])

RevokeRole(p, a, u, r) ==
    /\ At(p, "idle")
    /\ Begin(p, a, [NoRequest EXCEPT !.op = "revoke", !.pc = "actor", !.actor = a,
                                     !.role = r, !.user = u])

\* GetRolePermissions reads the role row, with its revision, and then, in a
\* second statement, its permissions ...
GetRolePermissions(p, r) ==
    /\ At(p, "idle")
    /\ r \in exists
    /\ req' = [req EXCEPT ![p] = [NoRequest EXCEPT !.op = "update", !.pc = "loading",
                                                   !.role = r, !.fresh = TRUE]]
    /\ UNCHANGED <<tables, locks>>

ReadCodes(p) ==
    /\ At(p, "loading")
    /\ req' = [req EXCEPT ![p] = [@ EXCEPT !.pc = "loaded", !.seen = perms[req[p].role]]]
    /\ UNCHANGED <<tables, locks>>

\* ... and the editor sends back a new set with that revision.
UpdateIfUnchanged(p, a, codes) ==
    /\ At(p, "loaded")
    /\ Begin(p, a, [req[p] EXCEPT !.pc = "actor", !.actor = a, !.codes = codes,
                                  !.conditional = TRUE])

-----------------------------------------------------------------------------
\* The statements of a mutation

\* A custom role has rank 100 and only permissions of its creator.
MayCreate(R, codes) ==
    /\ "owner" \in R \/ \E h \in R : Rank(h) < 100
    /\ OrgManage \notin codes
    /\ codes \subseteq PermsOf(R)

\* What follows when the actor's roles R are read: a creation is authorized
\* and ready to commit, any other mutation goes on to its role.
Authenticated(p, R) ==
    IF req[p].op = "create"
    THEN [req[p] EXCEPT !.pc = "commit"]
    ELSE [req[p] EXCEPT !.pc = "role", !.held = R, !.can = PermsOf(R)]

Refused(p, R) == R = {} \/ (req[p].op = "create" /\ ~MayCreate(R, req[p].codes))

\* Fault: the actor's roles are read without FOR UPDATE.
ReadActorRoles(p) ==
    /\ At(p, "actor")
    /\ LET R == holds[req[p].actor] IN
       IF Refused(p, R) THEN Refuse(p)
       ELSE /\ req' = [req EXCEPT ![p] = Authenticated(p, R)]
            /\ UNCHANGED <<tables, locks>>

\* actorAccessTx: the actor's roles are locked, then their permissions read.
ActorAccessTx(p) ==
    /\ At(p, "actor")
    /\ LET R == holds[req[p].actor] IN
       /\ \A r \in R : roleLock[r] = None
       /\ IF Refused(p, R) THEN Refuse(p)
          ELSE /\ roleLock' = [r \in Role |-> IF r \in R THEN p ELSE roleLock[r]]
               /\ req' = [req EXCEPT ![p] = Authenticated(p, R)]
               /\ UNCHANGED <<tables, userLock>>

\* Fault: the revision the editor sends is not compared.
RoleAuthorizedUnrevised(p) ==
    LET r == req[p].role IN
    CASE req[p].op = "update" -> /\ MayDelegate(p, r, req[p].codes)
                                 /\ r = "owner" => OrgManage \in req[p].codes
      [] req[p].op = "delete" -> r \notin System /\ MayControl(p, r, perms[r])
      [] req[p].op = "assign" -> MayDelegate(p, r, perms[r])
      [] req[p].op = "revoke" -> MayControl(p, r, perms[r])

\* What is checked of the role once its row is locked.
RoleAuthorized(p) ==
    LET r == req[p].role IN
    CASE req[p].op = "update" ->
            /\ req[p].conditional => req[p].fresh
            /\ MayDelegate(p, r, req[p].codes)
            /\ r = "owner" => OrgManage \in req[p].codes
      [] req[p].op = "delete" -> r \notin System /\ MayControl(p, r, perms[r])
      [] req[p].op = "assign" -> MayDelegate(p, r, perms[r])
      [] req[p].op = "revoke" -> MayControl(p, r, perms[r])

\* Everything is checked: what the actor was read to hold serves no more.
ReadyToCommit(r) == [r EXCEPT !.pc = "commit", !.held = {}, !.can = {}, !.fresh = FALSE]

\* roleForUpdateTx, and the checks that follow it.
RoleForUpdateTx(p) ==
    /\ At(p, "role")
    /\ roleLock[req[p].role] \in {None, p}
    /\ IF req[p].role \in exists /\ RoleAuthorized(p)
       THEN /\ roleLock' = [roleLock EXCEPT ![req[p].role] = p]
            /\ req' = [req EXCEPT ![p] =
                    IF req[p].op \in {"assign", "revoke"}
                    THEN [@ EXCEPT !.pc = "target"] ELSE ReadyToCommit(@)]
            /\ UNCHANGED <<tables, userLock>>
       ELSE Refuse(p)

\* Fault: disabled Owners are counted.
OtherOwnersOfAnyStatus(u) == {v \in User \ {u} : "owner" \in holds[v]}

\* Owners left when u is not one any more (ownerCountTx).
OtherOwners(u) == {v \in User \ {u} : "owner" \in holds[v] /\ v \notin disabled}

\* Fault: a user of any rank may be the target.
TargetOfAnyRank(p) ==
    req[p].op = "revoke" =>
        /\ req[p].role \in holds[req[p].user]
        /\ req[p].role = "owner" => OtherOwners(req[p].user) # {}

\* What is checked of the user once its row is locked: its rank and, for a
\* revocation, the row deleted and the Owners that remain.
TargetAuthorized(p) ==
    LET u == req[p].user IN
    /\ IsOwner(p) \/ Outranks(req[p].held, holds[u])
    /\ req[p].op = "revoke" =>
        /\ req[p].role \in holds[u]
        /\ req[p].role = "owner" => OtherOwners(u) # {}

\* userExistsTx, highestRoleRankTx, and for a revocation the delete and count.
UserExistsTx(p) ==
    /\ At(p, "target")
    /\ userLock[req[p].user] \in {None, p}
    /\ IF TargetAuthorized(p)
       THEN /\ userLock' = [userLock EXCEPT ![req[p].user] = p]
            /\ req' = [req EXCEPT ![p] = ReadyToCommit(@)]
            /\ UNCHANGED <<tables, roleLock>>
       ELSE Refuse(p)

-----------------------------------------------------------------------------
\* Commits

Committing(p, op) == At(p, "commit") /\ req[p].op = op

CommitCreate(p) ==
    /\ Committing(p, "create")
    /\ \E c \in Custom \ used :
        /\ exists' = exists \cup {c}
        /\ used' = used \cup {c}
        /\ perms' = [perms EXCEPT ![c] = req[p].codes]
    /\ Finish(p)
    /\ Answer(p)
    /\ UNCHANGED <<holds, disabled>>

\* setRolePermissionsTx; the updated_at trigger makes a new revision.
CommitUpdate(p) ==
    /\ Committing(p, "update")
    /\ perms' = [perms EXCEPT ![req[p].role] = req[p].codes]
    /\ req' = [q \in Proc |->
                IF q = p THEN NoRequest
                ELSE IF req[q].role = req[p].role THEN [req[q] EXCEPT !.fresh = FALSE]
                ELSE req[q]]
    /\ Finish(p)
    /\ UNCHANGED <<exists, used, holds, disabled>>

\* Fault: the grants of a deleted role stay.
CommitDeleteKeepsGrants(p) ==
    /\ Committing(p, "delete")
    /\ exists' = exists \ {req[p].role}
    /\ perms' = [perms EXCEPT ![req[p].role] = {}]
    /\ Finish(p)
    /\ Answer(p)
    /\ UNCHANGED <<used, holds, disabled>>

\* Grants and permissions of the role go with it (ON DELETE CASCADE).
CommitDelete(p) ==
    /\ Committing(p, "delete")
    /\ exists' = exists \ {req[p].role}
    /\ perms' = [perms EXCEPT ![req[p].role] = {}]
    /\ holds' = [u \in User |-> holds[u] \ {req[p].role}]
    /\ Finish(p)
    /\ Answer(p)
    /\ UNCHANGED <<used, disabled>>

CommitAssign(p) ==
    /\ Committing(p, "assign")
    /\ holds' = [holds EXCEPT ![req[p].user] = @ \cup {req[p].role}]
    /\ Finish(p)
    /\ Answer(p)
    /\ UNCHANGED <<exists, used, perms, disabled>>

CommitRevoke(p) ==
    /\ Committing(p, "revoke")
    /\ holds' = [holds EXCEPT ![req[p].user] = @ \ {req[p].role}]
    /\ Finish(p)
    /\ Answer(p)
    /\ UNCHANGED <<exists, used, perms, disabled>>

\* A failed statement, a lost connection, a crash, the victim of a deadlock.
Abort(p) == ~At(p, "idle") /\ Refuse(p)

\* accept_invitation and the OAuth sign-up grant a role without looking at
\* anybody's authority.  The foreign keys of the new user_roles row wait for
\* the locks of both its rows.
AcceptInvitation(u, r) ==
    /\ r \in exists /\ r \notin holds[u]
    /\ userLock[u] = None /\ roleLock[r] = None
    /\ holds' = [holds EXCEPT ![u] = @ \cup {r}]
    /\ UNCHANGED <<exists, used, perms, disabled, locks, req>>

-----------------------------------------------------------------------------
\* Specification

\* A new tenant: its first user is Owner, the roles are as seeded.
Init ==
    /\ exists = System
    /\ used = {}
    /\ perms = [r \in Role |-> IF r = "owner" THEN Perm
                               ELSE IF r = "admin" THEN Perm \ {OrgManage} ELSE {}]
    /\ \E first \in User :
        /\ holds = [u \in User |-> IF u = first THEN {"owner"} ELSE {}]
        /\ disabled \in SUBSET (User \ {first})
    /\ userLock = [u \in User |-> None]
    /\ roleLock = [r \in Role |-> None]
    /\ req = [p \in Proc |-> NoRequest]

Arrive(p) ==
    \/ \E a \in User, codes \in SUBSET Perm :
        \/ CreateRole(p, a, codes)
        \/ UpdateIfUnchanged(p, a, codes)
        \/ \E r \in exists : UpdateRolePermissions(p, a, r, codes)
    \/ \E a \in User, r \in exists : DeleteRole(p, a, r)
    \/ \E a, u \in User, r \in exists : AssignRole(p, a, u, r) \/ RevokeRole(p, a, u, r)
    \/ \E r \in exists \cap Edited : GetRolePermissions(p, r)

Step(p) ==
    \/ ReadCodes(p)
    \/ ActorAccessTx(p)
    \/ RoleForUpdateTx(p)
    \/ UserExistsTx(p)
    \/ CommitCreate(p)
    \/ CommitUpdate(p)
    \/ CommitDelete(p)
    \/ CommitAssign(p)
    \/ CommitRevoke(p)
    \/ Abort(p)

Next ==
    \/ \E p \in Proc : Arrive(p) \/ Step(p)
    \/ \E u \in User, r \in Invited : AcceptInvitation(u, r)

Spec == Init /\ [][Next]_vars

-----------------------------------------------------------------------------
\* Safety

\* org:manage is held by Owners only, and every Owner has it, whatever edits
\* of roles overlap.
OrgManageExclusive ==
    \A r \in exists : OrgManage \in perms[r] <=> r = "owner"

\* The organization keeps an Owner who can log in: of two Owners revoking each
\* other, or of one revoked while the other leaves, one stays.
OwnerRemains == \E u \in User : "owner" \in holds[u] /\ u \notin disabled

Commit(p) == At(p, "commit") /\ ~At(p, "commit")'

\* Nobody gains by a mutation a permission its actor does not have at the
\* commit, not merely when the transaction read the actor's permissions.
NoEscalation ==
    [][\A p \in Proc : Commit(p) =>
        \A u \in User :
            UNION {perms'[r] : r \in holds'[u]} \subseteq
                PermsOf(holds[u]) \cup PermsOf(holds[req[p].actor])]_vars

\* An actor who is not an Owner at the commit changes no role, and grants to
\* no user and takes from none, at or above the actor's rank.
RankRespected ==
    [][\A p \in Proc :
        (Commit(p) /\ "owner" \notin holds[req[p].actor]) =>
            /\ \A r \in exists : perms'[r] # perms[r] =>
                Outranks(holds[req[p].actor], {r})
            /\ \A u \in User :
                (holds'[u] # holds[u] /\ req[p].op \in {"assign", "revoke"}) =>
                    Outranks(holds[req[p].actor], holds[u] \cup holds'[u])]_vars

\* An edit sent with a revision replaces exactly the set its editor was shown:
\* one administrator never overwrites another's edit unseen.
NoLostEdit ==
    [][\A p \in Proc : (CommitUpdate(p) /\ req[p].conditional) =>
        perms[req[p].role] = req[p].seen]_vars
=============================================================================
