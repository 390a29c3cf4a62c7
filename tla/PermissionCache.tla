--------------------------- MODULE PermissionCache ---------------------------
(***************************************************************************)
(* The read-through cache of permission sets: authz.Service.UserPermissions *)
(* over platform/cache, and the invalidations that follow each role         *)
(* mutation.  Who may make a mutation is the matter of Roles: here every    *)
(* mutation is a commit that changes what users are granted, surrounded by  *)
(* the calls to Redis and to the database made outside its transaction.     *)
(*                                                                          *)
(* Redis is external: any call to it may fail, and the code drops the error *)
(* of every one of them.  Time is not modelled: an entry with a TTL may     *)
(* expire at any moment, and does at some moment.                           *)
(***************************************************************************)
EXTENDS Naturals, FiniteSets

CONSTANTS
    Check,     \* requests behind RequirePermission
    Mutation,  \* requests that change roles or grants
    User,
    Role,
    Perm,
    Faults,    \* whether calls of Redis and of UserIDsWithRole may fail
    None

Entry == [codes : SUBSET Perm, ttl : BOOLEAN]

ASSUME PermissionCacheAssumption ==
    Faults \in BOOLEAN /\ None \notin User \cup Role \cup Entry

VARIABLES
    perms,  \* role_permissions, as committed
    holds,  \* user_roles, as committed
    cache,  \* Redis: the entry of each user, or None
    check,  \* the permission checks in progress
    mut,    \* the mutations in progress
    excused \* ghost: users whose entry may be stale, an invalidation having
            \* been lost, a fill come late or a holder been missed

db == <<perms, holds>>
cacheVars == <<perms, holds, cache, check, mut, excused>>

NoCheck == [pc |-> "idle", user |-> None, codes |-> {}]
\* todo are the users whose entries remain to be invalidated; edit is the set
\* an update gives its role, and drop says that the role is deleted.
NoMutation == [pc |-> "idle", role |-> None, todo |-> {}, edit |-> {}, drop |-> FALSE]

CacheTypeOK ==
    /\ perms \in [Role -> SUBSET Perm]
    /\ holds \in [User -> SUBSET Role]
    /\ cache \in [User -> Entry \cup {None}]
    /\ check \in [Check -> [pc : {"idle", "miss", "fill"}, user : User \cup {None},
                            codes : SUBSET Perm]]
    /\ mut \in [Mutation -> [pc : {"idle", "holders", "invalidate"},
                             role : Role \cup {None}, todo : SUBSET User,
                             edit : SUBSET Perm, drop : BOOLEAN]]
    /\ excused \in SUBSET User
    /\ \A k \in Check : check[k].pc = "idle" => check[k] = NoCheck
    /\ \A m \in Mutation : mut[m].pc = "idle" => mut[m] = NoMutation

\* UserPermissionCodes: the union over the user's roles.
Granted(u) == UNION {perms[r] : r \in holds[u]}

Holders(r) == {u \in User : r \in holds[u]}

Cached(U) == {u \in U : cache[u] # None}

-----------------------------------------------------------------------------
\* A permission check

\* A hit answers at once and changes nothing; so does a failed call of Redis,
\* but for being a miss.
GetUserPermissions(k, u) ==
    /\ check[k].pc = "idle"
    /\ cache[u] = None \/ Faults
    /\ check' = [check EXCEPT ![k] = [NoCheck EXCEPT !.pc = "miss", !.user = u]]
    /\ UNCHANGED <<db, cache, mut, excused>>

UserPermissionCodes(k) ==
    /\ check[k].pc = "miss"
    /\ check' = [check EXCEPT ![k] = [@ EXCEPT !.pc = "fill", !.codes = Granted(check[k].user)]]
    /\ UNCHANGED <<db, cache, mut, excused>>

\* A failed query or a client gone: the check ends without an entry.
CheckFails(k) ==
    /\ check[k].pc = "miss"
    /\ check' = [check EXCEPT ![k] = NoCheck]
    /\ UNCHANGED <<db, cache, mut, excused>>

\* The ghost after an entry of u with these codes: what a check brings to
\* Redis may have ceased to be granted meanwhile.
ExcuseLateFill(u, codes) ==
    IF codes \subseteq Granted(u) THEN excused \ {u} ELSE excused \cup {u}

\* Fault: the entry is written without a TTL.
SetForever(k) ==
    /\ check[k].pc = "fill"
    /\ cache' = [cache EXCEPT ![check[k].user] = [codes |-> check[k].codes, ttl |-> FALSE]]
    /\ excused' = ExcuseLateFill(check[k].user, check[k].codes)
    /\ check' = [check EXCEPT ![k] = NoCheck]
    /\ UNCHANGED <<db, mut>>

SetUserPermissions(k) ==
    /\ check[k].pc = "fill"
    /\ cache' = [cache EXCEPT ![check[k].user] = [codes |-> check[k].codes, ttl |-> TRUE]]
    /\ excused' = ExcuseLateFill(check[k].user, check[k].codes)
    /\ check' = [check EXCEPT ![k] = NoCheck]
    /\ UNCHANGED <<db, mut>>

SetFails(k) ==
    /\ Faults
    /\ check[k].pc = "fill"
    /\ check' = [check EXCEPT ![k] = NoCheck]
    /\ UNCHANGED <<db, cache, mut, excused>>

\* Redis drops an entry at the end of its TTL.
Expire(u) ==
    /\ cache[u] # None /\ cache[u].ttl
    /\ cache' = [cache EXCEPT ![u] = None]
    /\ excused' = excused \ {u}
    /\ UNCHANGED <<db, check, mut>>

-----------------------------------------------------------------------------
\* Mutations of a role: its holders are read before the transaction, and their
\* entries dropped after it

ReadHolders(m, r, codes, drop) ==
    /\ mut[m].pc = "idle"
    /\ \E H \in {Holders(r)} \cup (IF Faults THEN {{}} ELSE {}) :
        mut' = [mut EXCEPT ![m] = [pc |-> "holders", role |-> r, todo |-> H,
                                   edit |-> codes, drop |-> drop]]
    /\ UNCHANGED <<db, cache, check, excused>>

UpdateRolePermissions(m, r, codes) == ReadHolders(m, r, codes, FALSE)
DeleteRole(m, r) == ReadHolders(m, r, {}, TRUE)

\* The holders of the role at the commit that were not so when they were read,
\* and have an entry.
Missed(m) == Cached(Holders(mut[m].role) \ mut[m].todo)

\* A deleted role has neither permissions nor holders left; its name may serve
\* for a role created later, which nobody holds at first either.
CommitRole(m) ==
    /\ mut[m].pc = "holders"
    /\ perms' = [perms EXCEPT ![mut[m].role] = mut[m].edit]
    /\ holds' = IF mut[m].drop
                THEN [u \in User |-> holds[u] \ {mut[m].role}]
                ELSE holds
    /\ excused' = excused \cup Missed(m)
    /\ mut' = [mut EXCEPT ![m] = IF @.todo = {} THEN NoMutation
                                 ELSE [@ EXCEPT !.pc = "invalidate"]]
    /\ UNCHANGED <<cache, check>>

\* The transaction is refused: nothing is invalidated.
CommitFails(m) ==
    /\ mut[m].pc = "holders"
    /\ mut' = [mut EXCEPT ![m] = NoMutation]
    /\ UNCHANGED <<db, cache, check, excused>>

-----------------------------------------------------------------------------
\* Mutations of one user's grants

AssignRole(m, u, r) ==
    /\ mut[m].pc = "idle"
    /\ holds' = [holds EXCEPT ![u] = @ \cup {r}]
    /\ mut' = [mut EXCEPT ![m] = [NoMutation EXCEPT !.pc = "invalidate", !.todo = {u}]]
    /\ UNCHANGED <<perms, cache, check, excused>>

\* Fault: the entry is dropped before the transaction, not after it.
RevokeRoleLate(m, u, r) ==
    /\ mut[m].pc = "idle"
    /\ r \in holds[u]
    /\ holds' = [holds EXCEPT ![u] = @ \ {r}]
    /\ UNCHANGED <<perms, cache, check, mut, excused>>

RevokeRole(m, u, r) ==
    /\ mut[m].pc = "idle"
    /\ r \in holds[u]
    /\ holds' = [holds EXCEPT ![u] = @ \ {r}]
    /\ mut' = [mut EXCEPT ![m] = [NoMutation EXCEPT !.pc = "invalidate", !.todo = {u}]]
    /\ UNCHANGED <<perms, cache, check, excused>>

\* accept_invitation and AssignSystemRole grant a role and invalidate nothing.
GrantWithoutInvalidation(u, r) ==
    /\ r \notin holds[u]
    /\ holds' = [holds EXCEPT ![u] = @ \cup {r}]
    /\ UNCHANGED <<perms, cache, check, mut, excused>>

-----------------------------------------------------------------------------
\* Invalidation

\* One holder after the other; a failed call of Redis is not retried.
InvalidateUserPermissions(m, u) ==
    /\ mut[m].pc = "invalidate" /\ u \in mut[m].todo
    /\ \/ /\ cache' = [cache EXCEPT ![u] = None]
          /\ excused' = excused \ {u}
       \/ /\ Faults
          /\ excused' = excused \cup Cached({u})
          /\ UNCHANGED cache
    /\ mut' = [mut EXCEPT ![m] = IF @.todo = {u} THEN NoMutation
                                 ELSE [@ EXCEPT !.todo = mut[m].todo \ {u}]]
    /\ UNCHANGED <<db, check>>

\* The process dies after the commit: the rest is never invalidated.
Crash(m) ==
    /\ Faults
    /\ mut[m].pc = "invalidate"
    /\ excused' = excused \cup Cached(mut[m].todo)
    /\ mut' = [mut EXCEPT ![m] = NoMutation]
    /\ UNCHANGED <<db, cache, check>>

-----------------------------------------------------------------------------
\* Specification

CacheInit ==
    /\ perms \in [Role -> SUBSET Perm]
    /\ holds \in [User -> SUBSET Role]
    /\ cache = [u \in User |-> None]
    /\ check = [k \in Check |-> NoCheck]
    /\ mut = [m \in Mutation |-> NoMutation]
    /\ excused = {}

Arrive ==
    \/ \E k \in Check, u \in User : GetUserPermissions(k, u)
    \/ \E m \in Mutation, r \in Role :
        \/ \E codes \in SUBSET Perm : UpdateRolePermissions(m, r, codes)
        \/ DeleteRole(m, r)
        \/ \E u \in User : AssignRole(m, u, r) \/ RevokeRole(m, u, r)
    \/ \E u \in User, r \in Role : GrantWithoutInvalidation(u, r)

CheckStep(k) ==
    UserPermissionCodes(k) \/ CheckFails(k) \/ SetUserPermissions(k) \/ SetFails(k)

MutationStep(m) ==
    \/ CommitRole(m)
    \/ CommitFails(m)
    \/ \E u \in User : InvalidateUserPermissions(m, u)
    \/ Crash(m)

CacheNext ==
    \/ Arrive
    \/ \E k \in Check : CheckStep(k)
    \/ \E m \in Mutation : MutationStep(m)
    \/ \E u \in User : Expire(u)

CacheSpec == CacheInit /\ [][CacheNext]_cacheVars

\* A request in progress is served to its end, and Redis drops entries.
CacheFairness ==
    /\ \A k \in Check : WF_cacheVars(CheckStep(k))
    /\ \A m \in Mutation : WF_cacheVars(MutationStep(m))
    /\ \A u \in User : WF_cacheVars(Expire(u))

CacheFairSpec == CacheSpec /\ CacheFairness

-----------------------------------------------------------------------------
\* Properties

\* The cache serves u something the database grants no more.
StaleGrant(u) == cache[u] # None /\ ~(cache[u].codes \subseteq Granted(u))

\* A mutation that has committed has still to drop the entry of u.
BeingInvalidated(u) == \E m \in Mutation : mut[m].pc = "invalidate" /\ u \in mut[m].todo

\* A revoked permission stays usable in these ways only: its invalidation is on
\* the way, or was lost, or a check that had read the old set stored it late,
\* or the user became a holder after the holders were read.
StaleOnlyByKnownCause ==
    \A u \in User : StaleGrant(u) => BeingInvalidated(u) \/ u \in excused

\* Whatever was lost or late, a permission that stays revoked is in the end
\* served to its former holder no more: the TTL of the entries sees to it.
RevocationTakesEffect ==
    \A u \in User, c \in Perm :
        <>[](c \notin Granted(u)) => <>[](cache[u] = None \/ c \notin cache[u].codes)
=============================================================================
