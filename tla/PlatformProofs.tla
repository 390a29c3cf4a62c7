---------------------------- MODULE PlatformProofs ----------------------------
(***************************************************************************)
(* Proofs about what lives in a process rather than in the tables: the     *)
(* cache of permission sets (PermissionCache), the live delivery of        *)
(* notifications (Realtime), and the process itself (Server).  The three   *)
(* share neither state nor constants, and each has a part of its own here. *)
(*                                                                         *)
(* CacheInv: the invariant of the cache is inductive but for two facts: a  *)
(* request between two calls has its user or its role at hand (ReqInv),    *)
(* and the excuse of a user is the excuse of an entry, and goes with it    *)
(* (ExcusesEnd), so that nobody is excused for what a later check stores.  *)
(*                                                                         *)
(* RealtimeInv: an event of a stream is on the wire, in the channel or     *)
(* written, once, and has been stored by then, which happens once, too.    *)
(*                                                                         *)
(* ServerInv: the drain comes before the pool and the pool before the end; *)
(* the gauges are the numbers of connections in a set of places.           *)
(***************************************************************************)
EXTENDS PermissionCache, Realtime, Server, FiniteSetTheorems, TLAPS

-----------------------------------------------------------------------------
\* PermissionCache: the inductive invariant

\* What a request carries between its calls.
ReqInv ==
    /\ \A k \in Check : check[k].pc # "idle" => check[k].user \in User
    /\ \A m \in Mutation : mut[m].pc = "holders" => mut[m].role \in Role

\* Whoever is excused has an entry.
ExcusesEnd == \A u \in excused : cache[u] # None

CacheInv == CacheTypeOK /\ ReqInv /\ ExcusesEnd /\ StaleOnlyByKnownCause

-----------------------------------------------------------------------------
\* Requests

CheckRecord == [pc : {"idle", "miss", "fill"}, user : User \cup {None}, codes : SUBSET Perm]
MutationRecord == [pc : {"idle", "holders", "invalidate"}, role : Role \cup {None},
                   todo : SUBSET User, edit : SUBSET Perm, drop : BOOLEAN]

LEMMA NothingFields ==
    /\ NoCheck \in CheckRecord /\ NoCheck.pc = "idle"
    /\ NoMutation \in MutationRecord /\ NoMutation.pc = "idle"
    BY DEF NoCheck, NoMutation, CheckRecord, MutationRecord

\* A check that takes a new form leaves the cache to others, and they to it.
LEMMA CheckInv ==
    ASSUME CacheInv, NEW k \in Check, NEW r \in CheckRecord, r = NoCheck \/ r.pc # "idle",
           r.pc # "idle" => r.user \in User,
           check' = [check EXCEPT ![k] = r], UNCHANGED <<db, cache, mut, excused>>
    PROVE  CacheInv'
<1>1. UNCHANGED <<perms, holds, cache, mut, excused>>
    BY DEF db
<1>2. /\ check' \in [Check -> CheckRecord] /\ check'[k] = r
      /\ \A j \in Check \ {k} : check'[j] = check[j]
    BY DEF CacheInv, CacheTypeOK, CheckRecord
<1>3. CacheTypeOK'
    BY <1>1, <1>2 DEF CacheInv, CacheTypeOK, CheckRecord
<1>4. ReqInv' /\ ExcusesEnd'
    BY <1>1, <1>2, NothingFields DEF CacheInv, ReqInv, ExcusesEnd
<1>5. StaleOnlyByKnownCause'
    BY <1>1 DEF CacheInv, StaleOnlyByKnownCause, StaleGrant, Granted, BeingInvalidated
<1> QED
    BY <1>3, <1>4, <1>5 DEF CacheInv

LEMMA MutationBecomes ==
    ASSUME CacheTypeOK, NEW m \in Mutation, NEW r \in MutationRecord, r = NoMutation \/ r.pc # "idle",
           mut' = [mut EXCEPT ![m] = r]
    PROVE  /\ mut' \in [Mutation -> MutationRecord] /\ mut'[m] = r
           /\ \A l \in Mutation \ {m} : mut'[l] = mut[l]
           /\ \A l \in Mutation : mut'[l].pc = "idle" => mut'[l] = NoMutation
    BY NothingFields DEF CacheTypeOK, MutationRecord

\* A mutation has, of the users it was to invalidate, done with u at most.
LEMMA TodoFields ==
    ASSUME CacheTypeOK, NEW m \in Mutation, mut[m].pc = "invalidate", NEW u \in User,
           mut' = [mut EXCEPT ![m] = IF @.todo = {u} THEN NoMutation
                                     ELSE [@ EXCEPT !.todo = mut[m].todo \ {u}]]
    PROVE  /\ mut' \in [Mutation -> MutationRecord]
           /\ \A l \in Mutation : mut'[l].pc = "idle" => mut'[l] = NoMutation
           /\ \A l \in Mutation : mut'[l].pc = "holders" => mut'[l] = mut[l]
           /\ \A v \in User \ {u} : BeingInvalidated(v) => BeingInvalidated(v)'
<1> DEFINE r == IF mut[m].todo = {u} THEN NoMutation
                ELSE [mut[m] EXCEPT !.todo = mut[m].todo \ {u}]
<1>1. mut[m] \in MutationRecord
    BY DEF CacheTypeOK, MutationRecord
<1>2. /\ r \in MutationRecord
      /\ \/ mut[m].todo = {u} /\ r = NoMutation
         \/ r.pc = "invalidate" /\ r.todo = mut[m].todo \ {u}
    BY <1>1, NothingFields DEF MutationRecord
<1>3. mut' = [mut EXCEPT ![m] = r]
    BY DEF CacheTypeOK
<1> HIDE DEF r
<1>4. /\ mut' \in [Mutation -> MutationRecord] /\ mut'[m] = r
      /\ \A l \in Mutation \ {m} : mut'[l] = mut[l]
      /\ \A l \in Mutation : mut'[l].pc = "idle" => mut'[l] = NoMutation
    BY <1>2, <1>3, MutationBecomes
<1>5. \A v \in User \ {u} : BeingInvalidated(v) => BeingInvalidated(v)'
    BY <1>2, <1>4 DEF BeingInvalidated
<1>6. \A l \in Mutation : mut'[l].pc = "holders" => mut'[l] = mut[l]
    BY <1>2, <1>4, NothingFields
<1> QED
    BY <1>4, <1>5, <1>6

-----------------------------------------------------------------------------
\* Permission checks

LEMMA GetInv ==
    ASSUME CacheInv, NEW k \in Check, NEW u \in User, GetUserPermissions(k, u)
    PROVE  CacheInv'
<1> DEFINE r == [NoCheck EXCEPT !.pc = "miss", !.user = u]
<1>1. r \in CheckRecord /\ r.pc = "miss" /\ r.user = u
    BY DEF NoCheck, CheckRecord
<1>2. check' = [check EXCEPT ![k] = r] /\ UNCHANGED <<db, cache, mut, excused>>
    BY DEF GetUserPermissions
<1> HIDE DEF r
<1> QED
    BY <1>1, <1>2, CheckInv

LEMMA ReadInv ==
    ASSUME CacheInv, NEW k \in Check, UserPermissionCodes(k)
    PROVE  CacheInv'
<1> DEFINE g == Granted(check[k].user)
           r == [check[k] EXCEPT !.pc = "fill", !.codes = g]
<1>1. check[k] \in CheckRecord /\ check[k].user \in User
    BY DEF CacheInv, CacheTypeOK, CheckRecord, ReqInv, UserPermissionCodes
<1>2. g \in SUBSET Perm
    BY <1>1 DEF Granted, CacheInv, CacheTypeOK
<1>3. check' = [check EXCEPT ![k] = r] /\ UNCHANGED <<db, cache, mut, excused>>
    BY DEF UserPermissionCodes, CacheInv, CacheTypeOK
<1> HIDE DEF g
<1>4. r \in CheckRecord /\ r.pc = "fill" /\ r.user = check[k].user
    BY <1>1, <1>2 DEF CheckRecord
<1> HIDE DEF r
<1> QED
    BY <1>1, <1>3, <1>4, CheckInv

\* What a check stores is granted still, or its user is excused.
LEMMA SetInv ==
    ASSUME CacheInv, NEW k \in Check, SetUserPermissions(k)
    PROVE  CacheInv'
<1> USE DEF CacheInv
<1>1. PICK u \in User : u = check[k].user
    BY DEF CacheTypeOK, ReqInv, SetUserPermissions
<1>2. PICK c \in SUBSET Perm : c = check[k].codes
    BY DEF CacheTypeOK
<1>3. PICK e \in Entry : e = [codes |-> c, ttl |-> TRUE] /\ e.codes = c /\ e # None
    <2>1. [codes |-> c, ttl |-> TRUE] \in Entry
        BY DEF Entry
    <2> QED
        BY <2>1, PermissionCacheAssumption
<1>4. /\ cache' = [cache EXCEPT ![u] = e] /\ check' = [check EXCEPT ![k] = NoCheck]
      /\ excused' = IF c \subseteq Granted(u) THEN excused \ {u} ELSE excused \cup {u}
      /\ UNCHANGED <<perms, holds, mut>>
    BY <1>1, <1>2, <1>3 DEF SetUserPermissions, ExcuseLateFill, db
<1>5. /\ cache' \in [User -> Entry \cup {None}] /\ cache'[u] = e
      /\ \A v \in User \ {u} : cache'[v] = cache[v]
    BY <1>4 DEF CacheTypeOK
<1>6. /\ check' \in [Check -> CheckRecord] /\ check'[k] = NoCheck
      /\ \A j \in Check \ {k} : check'[j] = check[j]
    BY <1>4, NothingFields DEF CacheTypeOK, CheckRecord
<1>7. CacheTypeOK'
    BY <1>4, <1>5, <1>6 DEF CacheTypeOK, CheckRecord
<1>8. ReqInv' /\ ExcusesEnd'
    BY <1>3, <1>4, <1>5, <1>6, NothingFields DEF ReqInv, ExcusesEnd, CacheTypeOK
<1>9. StaleOnlyByKnownCause'
    <2> SUFFICES ASSUME NEW v \in User, StaleGrant(v)' PROVE BeingInvalidated(v)' \/ v \in excused'
        BY DEF StaleOnlyByKnownCause
    <2>1. Granted(v)' = Granted(v) /\ (BeingInvalidated(v) => BeingInvalidated(v)')
        BY <1>4 DEF Granted, BeingInvalidated
    <2>2. CASE v = u
        BY <1>3, <1>4, <1>5, <2>1, <2>2 DEF StaleGrant
    <2>3. CASE v # u
        BY <1>4, <1>5, <2>1, <2>3 DEF StaleGrant, StaleOnlyByKnownCause
    <2> QED
        BY <2>2, <2>3
<1> QED
    BY <1>7, <1>8, <1>9

\* An entry that goes takes the excuse with it.
LEMMA ExpireInv ==
    ASSUME CacheInv, NEW u \in User, Expire(u)
    PROVE  CacheInv'
<1> USE DEF CacheInv
<1>1. /\ cache' = [cache EXCEPT ![u] = None] /\ excused' = excused \ {u}
      /\ UNCHANGED <<perms, holds, check, mut>>
    BY DEF Expire, db
<1>2. CacheTypeOK' /\ ReqInv' /\ ExcusesEnd'
    BY <1>1 DEF CacheTypeOK, ReqInv, ExcusesEnd
<1>3. StaleOnlyByKnownCause'
    BY <1>1 DEF CacheTypeOK, StaleOnlyByKnownCause, StaleGrant, Granted, BeingInvalidated
<1> QED
    BY <1>2, <1>3

LEMMA CheckStepInv ==
    ASSUME CacheInv, NEW k \in Check, CheckStep(k)
    PROVE  CacheInv'
<1>1. CASE CheckFails(k) \/ SetFails(k)
    BY <1>1, CheckInv, NothingFields DEF CheckFails, SetFails
<1> QED
    BY <1>1, ReadInv, SetInv DEF CheckStep

-----------------------------------------------------------------------------
\* Mutations

\* Who holds no role that changes is granted what it was granted before.
LEMMA MutationStarts ==
    ASSUME CacheInv, NEW m \in Mutation, mut[m].pc = "idle",
           NEW r \in MutationRecord, r.pc = "invalidate" \/ (r.pc = "holders" /\ r.role \in Role),
           mut' = [mut EXCEPT ![m] = r], UNCHANGED <<perms, cache, check, excused>>,
           holds' \in [User -> SUBSET Role],
           \A u \in User : holds[u] \subseteq holds'[u] \/ (r.pc = "invalidate" /\ u \in r.todo)
    PROVE  CacheInv'
<1> USE DEF CacheInv
<1>1. /\ mut' \in [Mutation -> MutationRecord] /\ mut'[m] = r
      /\ \A l \in Mutation \ {m} : mut'[l] = mut[l]
      /\ \A l \in Mutation : mut'[l].pc = "idle" => mut'[l] = NoMutation
    BY MutationBecomes
<1>2. CacheTypeOK'
    BY <1>1 DEF CacheTypeOK, MutationRecord
<1>3. ReqInv' /\ ExcusesEnd'
    BY <1>1 DEF ReqInv, ExcusesEnd
<1>4. StaleOnlyByKnownCause'
    <2> SUFFICES ASSUME NEW u \in User, StaleGrant(u)' PROVE BeingInvalidated(u)' \/ u \in excused'
        BY DEF StaleOnlyByKnownCause
    <2>1. BeingInvalidated(u) => BeingInvalidated(u)'
        BY <1>1 DEF BeingInvalidated
    <2>2. CASE holds[u] \subseteq holds'[u]
        <3>1. Granted(u) \subseteq Granted(u)'
            BY <2>2 DEF Granted
        <3> QED
            BY <2>1, <3>1 DEF StaleGrant, StaleOnlyByKnownCause
    <2>3. CASE r.pc = "invalidate" /\ u \in r.todo
        BY <1>1, <2>3 DEF BeingInvalidated
    <2> QED
        BY <2>2, <2>3
<1> QED
    BY <1>2, <1>3, <1>4

LEMMA ReadHoldersInv ==
    ASSUME CacheInv, NEW m \in Mutation, NEW r \in Role, NEW c \in SUBSET Perm, NEW d \in BOOLEAN,
           ReadHolders(m, r, c, d)
    PROVE  CacheInv'
<1>1. PICK H \in SUBSET User :
        mut' = [mut EXCEPT ![m] = [pc |-> "holders", role |-> r, todo |-> H,
                                   edit |-> c, drop |-> d]]
    BY DEF ReadHolders, Holders
<1> DEFINE x == [pc |-> "holders", role |-> r, todo |-> H, edit |-> c, drop |-> d]
<1>2. x \in MutationRecord /\ x.pc = "holders" /\ x.role \in Role
    BY DEF MutationRecord
<1>3. mut' = [mut EXCEPT ![m] = x]
    BY <1>1
<1>4. /\ mut[m].pc = "idle" /\ UNCHANGED <<perms, holds, cache, check, excused>>
      /\ holds' \in [User -> SUBSET Role]
    BY DEF ReadHolders, db, CacheInv, CacheTypeOK
<1> HIDE DEF x
<1> QED
    BY <1>2, <1>3, <1>4, MutationStarts

LEMMA GrantsInv ==
    ASSUME CacheInv, NEW m \in Mutation, NEW u \in User, NEW r \in Role,
           AssignRole(m, u, r) \/ RevokeRole(m, u, r)
    PROVE  CacheInv'
<1> DEFINE x == [NoMutation EXCEPT !.pc = "invalidate", !.todo = {u}]
<1>1. x \in MutationRecord /\ x.pc = "invalidate" /\ x.todo = {u}
    BY DEF NoMutation, MutationRecord
<1>2. /\ mut[m].pc = "idle" /\ mut' = [mut EXCEPT ![m] = x]
      /\ UNCHANGED <<perms, cache, check, excused>>
    BY DEF AssignRole, RevokeRole
<1>3. /\ holds' \in [User -> SUBSET Role]
      /\ \A v \in User \ {u} : holds'[v] = holds[v]
    BY DEF AssignRole, RevokeRole, CacheInv, CacheTypeOK
<1> HIDE DEF x
<1>4. \A v \in User : holds[v] \subseteq holds'[v] \/ (x.pc = "invalidate" /\ v \in x.todo)
    BY <1>1, <1>3
<1> QED
    BY <1>1, <1>2, <1>3, <1>4, MutationStarts

LEMMA GrantInv ==
    ASSUME CacheInv, NEW u \in User, NEW r \in Role, GrantWithoutInvalidation(u, r)
    PROVE  CacheInv'
<1> USE DEF CacheInv
<1>1. /\ holds' \in [User -> SUBSET Role] /\ \A v \in User : holds[v] \subseteq holds'[v]
      /\ UNCHANGED <<perms, cache, check, mut, excused>>
    BY DEF GrantWithoutInvalidation, CacheTypeOK
<1>2. CacheTypeOK' /\ ReqInv' /\ ExcusesEnd'
    BY <1>1 DEF CacheTypeOK, ReqInv, ExcusesEnd
<1>3. \A v \in User : Granted(v) \subseteq Granted(v)'
    BY <1>1 DEF Granted
<1>4. StaleOnlyByKnownCause'
    BY <1>1, <1>3 DEF StaleOnlyByKnownCause, StaleGrant, BeingInvalidated
<1> QED
    BY <1>2, <1>4

\* Whoever held the role at the commit is invalidated afterwards or excused;
\* for the others nothing has changed.
LEMMA CommitInv ==
    ASSUME CacheInv, NEW m \in Mutation, CommitRole(m)
    PROVE  CacheInv'
<1> USE DEF CacheInv
<1>1. PICK r \in Role : r = mut[m].role
    BY DEF CommitRole, ReqInv
<1>2. PICK x \in MutationRecord : x = mut[m]
    BY DEF CacheTypeOK, MutationRecord
<1> DEFINE y == IF x.todo = {} THEN NoMutation ELSE [x EXCEPT !.pc = "invalidate"]
<1>3. /\ y \in MutationRecord
      /\ y = NoMutation \/ y.pc = "invalidate"
      /\ x.todo # {} => y.pc = "invalidate" /\ y.todo = x.todo
    BY NothingFields DEF MutationRecord
<1>4. mut' = [mut EXCEPT ![m] = y]
    BY <1>2 DEF CommitRole, CacheTypeOK
<1> HIDE DEF y
<1>5. /\ mut' \in [Mutation -> MutationRecord] /\ mut'[m] = y
      /\ \A l \in Mutation \ {m} : mut'[l] = mut[l]
      /\ \A l \in Mutation : mut'[l].pc = "idle" => mut'[l] = NoMutation
    BY <1>3, <1>4, NothingFields, MutationBecomes
<1>6. /\ perms' = [perms EXCEPT ![r] = x.edit]
      /\ \/ holds' = holds
         \/ holds' = [u \in User |-> holds[u] \ {r}]
      /\ excused' = excused \cup Missed(m) /\ UNCHANGED <<cache, check>>
      /\ mut[m].pc = "holders"
    BY <1>1, <1>2 DEF CommitRole
<1>7. CacheTypeOK'
    BY <1>2, <1>5, <1>6 DEF CacheTypeOK, MutationRecord, Missed, Cached, Holders
<1>8. ReqInv' /\ ExcusesEnd'
    BY <1>3, <1>5, <1>6, NothingFields DEF ReqInv, ExcusesEnd, Missed, Cached
<1>9. StaleOnlyByKnownCause'
    <2> SUFFICES ASSUME NEW u \in User, StaleGrant(u)' PROVE BeingInvalidated(u)' \/ u \in excused'
        BY DEF StaleOnlyByKnownCause
    <2>1. CASE r \in holds[u]
        <3>1. CASE u \in x.todo
            BY <1>3, <1>5, <3>1 DEF BeingInvalidated
        <3>2. CASE u \notin x.todo
            BY <1>1, <1>2, <1>6, <2>1, <3>2 DEF Missed, Cached, Holders, StaleGrant
        <3> QED
            BY <3>1, <3>2
    <2>2. CASE r \notin holds[u]
        <3>1. holds'[u] = holds[u] /\ \A s \in holds[u] : perms'[s] = perms[s]
            <4>1. holds[u] \ {r} = holds[u] /\ holds[u] \subseteq Role
                BY <2>2 DEF CacheTypeOK
            <4>2. holds'[u] = holds[u]
                BY <1>6, <4>1
            <4>3. \A s \in Role \ {r} : perms'[s] = perms[s]
                BY <1>6 DEF CacheTypeOK
            <4> QED
                BY <2>2, <4>1, <4>2, <4>3
        <3>2. Granted(u)' = Granted(u)
            BY <3>1 DEF Granted
        <3>3. BeingInvalidated(u) => BeingInvalidated(u)'
            BY <1>5, <1>6 DEF BeingInvalidated
        <3> QED
            BY <1>6, <3>2, <3>3 DEF StaleGrant, StaleOnlyByKnownCause
    <2> QED
        BY <2>1, <2>2
<1> QED
    BY <1>7, <1>8, <1>9

LEMMA CommitFailsInv ==
    ASSUME CacheInv, NEW m \in Mutation, CommitFails(m)
    PROVE  CacheInv'
<1> USE DEF CacheInv
<1>1. /\ mut[m].pc = "holders" /\ mut' = [mut EXCEPT ![m] = NoMutation]
      /\ UNCHANGED <<perms, holds, cache, check, excused>>
    BY DEF CommitFails, db
<1>2. /\ mut' \in [Mutation -> MutationRecord] /\ mut'[m] = NoMutation
      /\ \A l \in Mutation \ {m} : mut'[l] = mut[l]
      /\ \A l \in Mutation : mut'[l].pc = "idle" => mut'[l] = NoMutation
    BY <1>1, NothingFields, MutationBecomes
<1>3. CacheTypeOK'
    BY <1>1, <1>2 DEF CacheTypeOK, MutationRecord
<1>4. ReqInv' /\ ExcusesEnd'
    BY <1>1, <1>2, NothingFields DEF ReqInv, ExcusesEnd
<1>5. StaleOnlyByKnownCause'
    BY <1>1, <1>2 DEF StaleOnlyByKnownCause, StaleGrant, Granted, BeingInvalidated
<1> QED
    BY <1>3, <1>4, <1>5

-----------------------------------------------------------------------------
\* Invalidation

LEMMA InvalidateInv ==
    ASSUME CacheInv, NEW m \in Mutation, NEW u \in User, InvalidateUserPermissions(m, u)
    PROVE  CacheInv'
<1> USE DEF CacheInv
<1>1. /\ mut' \in [Mutation -> MutationRecord]
      /\ \A l \in Mutation : mut'[l].pc = "idle" => mut'[l] = NoMutation
      /\ \A l \in Mutation : mut'[l].pc = "holders" => mut'[l] = mut[l]
      /\ \A v \in User \ {u} : BeingInvalidated(v) => BeingInvalidated(v)'
    BY TodoFields DEF InvalidateUserPermissions
<1>2. /\ \/ cache' = [cache EXCEPT ![u] = None] /\ excused' = excused \ {u}
         \/ cache' = cache /\ excused' = excused \cup Cached({u})
      /\ UNCHANGED <<perms, holds, check>>
    BY DEF InvalidateUserPermissions, db
<1>3. /\ cache' \in [User -> Entry \cup {None}] /\ excused' \in SUBSET User
      /\ \A v \in User \ {u} : cache'[v] = cache[v] /\ (v \in excused => v \in excused')
      /\ cache'[u] # None => u \in excused'
      /\ \A v \in excused' : cache'[v] # None
    BY <1>2 DEF CacheTypeOK, Cached, ExcusesEnd
<1>4. CacheTypeOK'
    BY <1>1, <1>2, <1>3 DEF CacheTypeOK, MutationRecord
<1>5. ReqInv' /\ ExcusesEnd'
    BY <1>1, <1>2, <1>3 DEF ReqInv, ExcusesEnd
<1>6. StaleOnlyByKnownCause'
    <2> SUFFICES ASSUME NEW v \in User, StaleGrant(v)' PROVE BeingInvalidated(v)' \/ v \in excused'
        BY DEF StaleOnlyByKnownCause
    <2>1. CASE v = u
        BY <1>3, <2>1 DEF StaleGrant
    <2>2. CASE v # u
        <3>1. StaleGrant(v)
            BY <1>2, <1>3, <2>2 DEF StaleGrant, Granted
        <3> QED
            BY <1>1, <1>3, <2>2, <3>1 DEF StaleOnlyByKnownCause
    <2> QED
        BY <2>1, <2>2
<1> QED
    BY <1>4, <1>5, <1>6

LEMMA CrashInv ==
    ASSUME CacheInv, NEW m \in Mutation, Crash(m)
    PROVE  CacheInv'
<1> USE DEF CacheInv
<1>1. /\ excused' = excused \cup Cached(mut[m].todo) /\ mut' = [mut EXCEPT ![m] = NoMutation]
      /\ UNCHANGED <<perms, holds, cache, check>> /\ mut[m].todo \in SUBSET User
    BY DEF Crash, db, CacheTypeOK
<1>2. /\ mut' \in [Mutation -> MutationRecord] /\ mut'[m] = NoMutation
      /\ \A l \in Mutation \ {m} : mut'[l] = mut[l]
      /\ \A l \in Mutation : mut'[l].pc = "idle" => mut'[l] = NoMutation
    BY <1>1, NothingFields, MutationBecomes
<1>3. CacheTypeOK'
    BY <1>1, <1>2 DEF CacheTypeOK, MutationRecord, Cached
<1>4. ReqInv' /\ ExcusesEnd'
    BY <1>1, <1>2, NothingFields DEF ReqInv, ExcusesEnd, Cached
<1>5. StaleOnlyByKnownCause'
    <2> SUFFICES ASSUME NEW u \in User, StaleGrant(u)' PROVE BeingInvalidated(u)' \/ u \in excused'
        BY DEF StaleOnlyByKnownCause
    <2>1. StaleGrant(u) /\ cache[u] # None
        BY <1>1 DEF StaleGrant, Granted
    <2>2. CASE u \in excused \/ u \in mut[m].todo
        BY <1>1, <2>1, <2>2 DEF Cached
    <2>3. ASSUME NEW l \in Mutation \ {m}, mut[l].pc = "invalidate", u \in mut[l].todo
          PROVE  BeingInvalidated(u)'
        BY <1>2, <2>3 DEF BeingInvalidated
    <2> QED
        BY <2>1, <2>2, <2>3 DEF StaleOnlyByKnownCause, BeingInvalidated
<1> QED
    BY <1>3, <1>4, <1>5

-----------------------------------------------------------------------------
\* The inductive invariant

LEMMA CacheInitInv == CacheInit => CacheInv
    BY NothingFields
       DEF CacheInit, CacheInv, CacheTypeOK, CheckRecord, MutationRecord, ReqInv, ExcusesEnd,
           StaleOnlyByKnownCause, StaleGrant

LEMMA CacheStepInv == CacheInv /\ [CacheNext]_cacheVars => CacheInv'
<1> SUFFICES ASSUME CacheInv, [CacheNext]_cacheVars PROVE CacheInv'
    OBVIOUS
<1>1. CASE Arrive
    BY <1>1, GetInv, ReadHoldersInv, GrantsInv, GrantInv
       DEF Arrive, UpdateRolePermissions, DeleteRole
<1>2. ASSUME NEW k \in Check, CheckStep(k)
      PROVE  CacheInv'
    BY <1>2, CheckStepInv
<1>3. ASSUME NEW m \in Mutation, MutationStep(m)
      PROVE  CacheInv'
    BY <1>3, CommitInv, CommitFailsInv, InvalidateInv, CrashInv DEF MutationStep
<1>4. ASSUME NEW u \in User, Expire(u)
      PROVE  CacheInv'
    BY <1>4, ExpireInv
<1>5. CASE UNCHANGED cacheVars
    BY <1>5 DEF cacheVars, CacheInv, CacheTypeOK, ReqInv, ExcusesEnd, StaleOnlyByKnownCause, StaleGrant,
                Granted, BeingInvalidated
<1> QED
    BY <1>1, <1>2, <1>3, <1>4, <1>5 DEF CacheNext

\* Whatever checks, mutations, lost calls and crashes overlap, a stale entry
\* has a cause of its own, which does not outlive it.
THEOREM CacheInvariance == CacheSpec => []CacheInv
    BY CacheInitInv, CacheStepInv, PTL DEF CacheSpec

\* Every variable keeps its type.
THEOREM CacheTypeCorrect == CacheSpec => []CacheTypeOK
<1>1. CacheInv => CacheTypeOK
    BY DEF CacheInv
<1> QED
    BY <1>1, CacheInvariance, PTL

\* UserPermissions serves somebody more than the database grants only while a
\* mutation that has committed has still to drop the entry, or when a call of
\* Redis or of UserIDsWithRole was lost, the process died, a check that had
\* read before the commit stored after it, or a holder came in between.
THEOREM StaleHasACause == CacheSpec => []StaleOnlyByKnownCause
<1>1. CacheInv => StaleOnlyByKnownCause
    BY DEF CacheInv
<1> QED
    BY <1>1, CacheInvariance, PTL

\* The end of an entry, by its TTL or by an invalidation that reaches Redis,
\* ends whatever made it stale: the next check starts from the database.
THEOREM NoExcuseWithoutEntry == CacheSpec => []ExcusesEnd
<1>1. CacheInv => ExcusesEnd
    BY DEF CacheInv
<1> QED
    BY <1>1, CacheInvariance, PTL

-----------------------------------------------------------------------------
\* Realtime: the inductive invariant

Events(s) == {s[i] : i \in 1..Len(s)}
Once(s) == \A i, j \in 1..Len(s) : s[i] = s[j] => i = j

\* An event is in one place of a stream at most, and in none before its
\* Publish.
OnePlace(c) ==
    /\ Once(wire[c]) /\ Once(outbox[c])
    /\ Events(wire[c]) \cap Events(outbox[c]) = {}
    /\ Events(wire[c]) \cap got[c] = {}
    /\ Events(outbox[c]) \cap got[c] = {}
    /\ publishing \cap (Events(wire[c]) \cup Events(outbox[c]) \cup got[c]) = {}

\* A notification on its way has been stored, which happens once; what is on
\* its way to a stream is for its user.
OfItsUser(c) ==
    \A n \in Events(wire[c]) \cup Events(outbox[c]) \cup got[c] :
        row[n] # "absent" /\ Owner[n] = Owner[c]

Stored == \A n \in publishing : row[n] # "absent"

Streams == \A c \in Stream : OnePlace(c) /\ OfItsUser(c)

RealtimeInv == RealtimeTypeOK /\ Stored /\ Streams

-----------------------------------------------------------------------------
\* Channels

LEMMA EventsOfNone == Events(<<>>) = {} /\ Once(<<>>)
    BY DEF Events, Once

LEMMA EventsOfAppend ==
    ASSUME NEW s \in Seq(Note), NEW n \in Note
    PROVE  /\ Append(s, n) \in Seq(Note)
           /\ Events(Append(s, n)) = Events(s) \cup {n}
           /\ Once(s) /\ n \notin Events(s) => Once(Append(s, n))
<1>1. /\ Append(s, n) \in Seq(Note) /\ Len(s) \in Nat
      /\ Len(Append(s, n)) = Len(s) + 1 /\ Append(s, n)[Len(s) + 1] = n
      /\ \A i \in 1..Len(s) : Append(s, n)[i] = s[i]
    OBVIOUS
<1>2. 1..(Len(s) + 1) = (1..Len(s)) \cup {Len(s) + 1}
    BY <1>1
<1> QED
    BY <1>1, <1>2 DEF Events, Once

LEMMA EventsOfTail ==
    ASSUME NEW s \in Seq(Note), s # <<>>
    PROVE  /\ Head(s) \in Note /\ Head(s) \in Events(s) /\ Tail(s) \in Seq(Note)
           /\ Len(Tail(s)) <= Len(s)
           /\ Events(Tail(s)) \subseteq Events(s)
           /\ Once(s) => Once(Tail(s)) /\ Head(s) \notin Events(Tail(s))
<1>1. /\ Len(s) \in Nat /\ Len(s) >= 1 /\ Tail(s) \in Seq(Note) /\ Len(Tail(s)) = Len(s) - 1
      /\ Head(s) = s[1] /\ s[1] \in Note
      /\ \A i \in 1..(Len(s) - 1) : Tail(s)[i] = s[i + 1]
    OBVIOUS
<1>2. 1 \in 1..Len(s) /\ \A i \in 1..(Len(s) - 1) : i + 1 \in 1..Len(s) /\ i + 1 # 1
    BY <1>1
<1>3. Events(Tail(s)) \subseteq Events(s) /\ Head(s) \in Events(s)
    BY <1>1, <1>2 DEF Events
<1>4. ASSUME Once(s)
      PROVE  Once(Tail(s)) /\ Head(s) \notin Events(Tail(s))
    <2>1. ASSUME NEW i \in 1..(Len(s) - 1), NEW j \in 1..(Len(s) - 1), Tail(s)[i] = Tail(s)[j]
          PROVE  i = j
        <3>1. i + 1 = j + 1
            BY <1>1, <1>2, <1>4, <2>1 DEF Once
        <3> QED
            BY <1>1, <3>1
    <2>2. ASSUME NEW i \in 1..(Len(s) - 1) PROVE Tail(s)[i] # s[1]
        BY <1>1, <1>2, <1>4 DEF Once
    <2> QED
        BY <1>1, <2>1, <2>2 DEF Once, Events
<1> QED
    BY <1>1, <1>3, <1>4

\* A send that does not block appends or drops.
LEMMA OfferKeeps ==
    ASSUME NEW s \in Seq(Note), Len(s) <= Buffer, NEW n \in Note
    PROVE  /\ Offer(s, n) \in Seq(Note) /\ Len(Offer(s, n)) <= Buffer
           /\ Events(s) \subseteq Events(Offer(s, n))
           /\ Events(Offer(s, n)) \subseteq Events(s) \cup {n}
           /\ Once(s) /\ n \notin Events(s) => Once(Offer(s, n))
<1>1. CASE Len(s) < Buffer
    <2>1. Offer(s, n) = Append(s, n) /\ Len(Append(s, n)) = Len(s) + 1 /\ Len(s) \in Nat
        BY <1>1 DEF Offer
    <2> QED
        BY <1>1, <2>1, EventsOfAppend, RealtimeAssumption
<1>2. CASE ~(Len(s) < Buffer)
    BY <1>2 DEF Offer
<1> QED
    BY <1>1, <1>2

LEMMA EventsAreNotes ==
    ASSUME NEW s \in Seq(Note)
    PROVE  Events(s) \subseteq Note
    BY DEF Events

-----------------------------------------------------------------------------
\* Notifications

\* What a step does that leaves the channels alone: rows do not go back to
\* "absent", and what is new to publish was not on its way to anybody.
LEMMA RowsInv ==
    ASSUME RealtimeInv, row' \in [Note -> {"absent", "unread", "read", "deleted"}],
           publishing' \in SUBSET Note,
           \A n \in Note : row[n] # "absent" => row'[n] # "absent",
           \A n \in publishing' \ publishing : row[n] = "absent" /\ row'[n] # "absent",
           missed' \in [Stream -> SUBSET Note], known' \in [Stream -> SUBSET Note],
           due' \in SUBSET Stream,
           UNCHANGED <<transport, stream, subs, redisSubs, wire, outbox, got>>
    PROVE  RealtimeInv'
<1> USE DEF RealtimeInv
<1>1. RealtimeTypeOK'
    BY DEF RealtimeTypeOK
<1>2. Stored'
    BY DEF Stored, RealtimeTypeOK
<1>3. ASSUME NEW c \in Stream
      PROVE  OnePlace(c)' /\ OfItsUser(c)'
    <2>1. Events(wire[c]) \subseteq Note /\ Events(outbox[c]) \subseteq Note /\ got[c] \subseteq Note
        BY EventsAreNotes DEF RealtimeTypeOK
    <2>2. OnePlace(c) /\ OfItsUser(c)
        BY DEF Streams
    <2> QED
        BY <2>1, <2>2 DEF OnePlace, OfItsUser
<1> QED
    BY <1>1, <1>2, <1>3 DEF Streams

LEMMA NotificationInv ==
    ASSUME RealtimeInv,
           \/ \E notes \in SUBSET Note : NotifyMany(notes)
           \/ \E n \in Note : Notify(n) \/ MarkRead(n) \/ Delete(n) \/ PublisherStops(n)
           \/ \E u \in Recipient : MarkAllRead(u)
           \/ \E c \in Stream : Refetch(c)
    PROVE  RealtimeInv'
<1> USE DEF RealtimeInv, RealtimeTypeOK, server, client
<1>1. ASSUME NEW notes \in SUBSET Note, Create(notes), publishing' = publishing \cup notes,
             UNCHANGED <<transport, server, client, missed>>
      PROVE  RealtimeInv'
    BY <1>1, RowsInv DEF Create
<1>2. ASSUME NEW n \in Note, Notify(n)
      PROVE  RealtimeInv'
    BY <1>1, <1>2 DEF Notify
<1>3. ASSUME NEW n \in Note, MarkRead(n) \/ Delete(n)
      PROVE  RealtimeInv'
    BY <1>3, RowsInv DEF MarkRead, Delete
<1>4. ASSUME NEW n \in Note, PublisherStops(n)
      PROVE  RealtimeInv'
    BY <1>4, RowsInv DEF PublisherStops
<1>5. ASSUME NEW u \in Recipient, MarkAllRead(u)
      PROVE  RealtimeInv'
    BY <1>5, RowsInv DEF MarkAllRead
<1>6. ASSUME NEW c \in Stream, Refetch(c)
      PROVE  RealtimeInv'
    BY <1>6, RowsInv DEF Refetch
<1> QED
    BY <1>1, <1>2, <1>3, <1>4, <1>5, <1>6 DEF NotifyMany

-----------------------------------------------------------------------------
\* Publication

\* A stream that gets nothing new keeps what holds of it.
LEMMA StreamKeeps ==
    ASSUME RealtimeInv, NEW c \in Stream, UNCHANGED row, publishing' \subseteq publishing,
           wire'[c] \in {wire[c], <<>>}, outbox'[c] \in {outbox[c], <<>>},
           got'[c] \in {got[c], {}}
    PROVE  OnePlace(c)' /\ OfItsUser(c)'
<1>1. OnePlace(c) /\ OfItsUser(c)
    BY DEF RealtimeInv, Streams
<1> QED
    BY <1>1, EventsOfNone DEF OnePlace, OfItsUser

LEMMA PublishLocalInv ==
    ASSUME RealtimeInv, NEW n \in Note, PublishLocal(n)
    PROVE  RealtimeInv'
<1> USE DEF RealtimeInv
<1>1. /\ n \in publishing /\ publishing' = publishing \ {n}
      /\ outbox' = [c \in Stream |->
                      IF c \in Subscribers(n) THEN Offer(outbox[c], n) ELSE outbox[c]]
      /\ UNCHANGED <<transport, row, stream, subs, redisSubs, wire, got, due, known, missed>>
    BY DEF PublishLocal, client
<1>2. ASSUME NEW c \in Stream
      PROVE  /\ outbox'[c] \in Seq(Note) /\ Len(outbox'[c]) <= Buffer
             /\ c \notin subs => outbox'[c] = <<>>
             /\ OnePlace(c)' /\ OfItsUser(c)'
    <2>1. outbox[c] \in Seq(Note) /\ Len(outbox[c]) <= Buffer /\ (c \notin subs => outbox[c] = <<>>)
        BY DEF RealtimeTypeOK
    <2>2. CASE c \notin Subscribers(n)
        <3>1. outbox'[c] = outbox[c]
            BY <1>1, <2>2
        <3> QED
            BY <1>1, <2>1, <3>1, StreamKeeps
    <2>3. CASE c \in Subscribers(n)
        <3>1. outbox'[c] = Offer(outbox[c], n) /\ c \in subs /\ Owner[n] = Owner[c]
            BY <1>1, <2>3 DEF Subscribers
        <3>2. OnePlace(c) /\ OfItsUser(c) /\ row[n] # "absent"
            BY <1>1 DEF Streams, Stored
        <3>3. n \notin Events(wire[c]) \cup Events(outbox[c]) \cup got[c]
            BY <1>1, <3>2 DEF OnePlace
        <3>4. /\ outbox'[c] \in Seq(Note) /\ Len(outbox'[c]) <= Buffer
              /\ Events(outbox'[c]) \subseteq Events(outbox[c]) \cup {n} /\ Once(outbox'[c])
            BY <2>1, <3>1, <3>2, <3>3, OfferKeeps DEF OnePlace
        <3>5. OnePlace(c)' /\ OfItsUser(c)'
            BY <1>1, <3>1, <3>2, <3>3, <3>4 DEF OnePlace, OfItsUser
        <3> QED
            BY <3>1, <3>4, <3>5
    <2> QED
        BY <2>2, <2>3
<1>3. RealtimeTypeOK'
    BY <1>1, <1>2 DEF RealtimeTypeOK
<1> QED
    BY <1>1, <1>2, <1>3 DEF Streams, Stored

LEMMA PublishRedisInv ==
    ASSUME RealtimeInv, NEW n \in Note, PublishRedis(n)
    PROVE  RealtimeInv'
<1> USE DEF RealtimeInv
<1>1. PICK reached \in SUBSET redisSubs : ToRedis(n, reached)
    BY DEF PublishRedis
<1>2. /\ n \in publishing /\ publishing' = publishing \ {n}
      /\ reached \subseteq redisSubs \cap Subscribers(n)
      /\ wire' = [c \in Stream |-> IF c \in reached THEN Append(wire[c], n) ELSE wire[c]]
      /\ missed' \in [Stream -> SUBSET Note]
      /\ UNCHANGED <<transport, row, stream, subs, redisSubs, outbox, got, due, known>>
    BY <1>1 DEF ToRedis, PublishRedis, client, RealtimeTypeOK
<1>3. ASSUME NEW c \in Stream
      PROVE  /\ wire'[c] \in Seq(Note)
             /\ c \notin redisSubs => wire'[c] = <<>>
             /\ OnePlace(c)' /\ OfItsUser(c)'
    <2>1. wire[c] \in Seq(Note) /\ (c \notin redisSubs => wire[c] = <<>>)
        BY DEF RealtimeTypeOK
    <2>2. CASE c \notin reached
        <3>1. wire'[c] = wire[c]
            BY <1>2, <2>2
        <3> QED
            BY <1>2, <2>1, <3>1, StreamKeeps
    <2>3. CASE c \in reached
        <3>1. wire'[c] = Append(wire[c], n) /\ c \in redisSubs /\ Owner[n] = Owner[c]
            BY <1>2, <2>3 DEF Subscribers
        <3>2. OnePlace(c) /\ OfItsUser(c) /\ row[n] # "absent"
            BY <1>2 DEF Streams, Stored
        <3>3. n \notin Events(wire[c]) \cup Events(outbox[c]) \cup got[c]
            BY <1>2, <3>2 DEF OnePlace
        <3>4. /\ wire'[c] \in Seq(Note) /\ Events(wire'[c]) = Events(wire[c]) \cup {n}
              /\ Once(wire'[c])
            BY <2>1, <3>1, <3>2, <3>3, EventsOfAppend DEF OnePlace
        <3>5. OnePlace(c)' /\ OfItsUser(c)'
            BY <1>2, <3>1, <3>2, <3>3, <3>4 DEF OnePlace, OfItsUser
        <3> QED
            BY <3>1, <3>4, <3>5
    <2> QED
        BY <2>2, <2>3
<1>4. RealtimeTypeOK'
    BY <1>2, <1>3 DEF RealtimeTypeOK
<1> QED
    BY <1>2, <1>3, <1>4 DEF Streams, Stored

\* From one place to the next, or to none when the channel is full.
LEMMA ForwardInv ==
    ASSUME RealtimeInv, NEW c \in Stream, Forward(c)
    PROVE  RealtimeInv'
<1> USE DEF RealtimeInv
<1>1. PICK n : n = Head(wire[c])
    OBVIOUS
<1>2. /\ wire[c] # <<>> /\ wire[c] \in Seq(Note)
      /\ outbox[c] \in Seq(Note) /\ Len(outbox[c]) <= Buffer
      /\ c \in redisSubs /\ c \in subs
    BY DEF Forward, RealtimeTypeOK
<1>3. /\ wire'[c] = Tail(wire[c]) /\ outbox'[c] = Offer(outbox[c], n)
      /\ wire' = [wire EXCEPT ![c] = Tail(wire[c])]
      /\ outbox' = [outbox EXCEPT ![c] = Offer(outbox[c], n)]
      /\ UNCHANGED <<transport, row, publishing, stream, subs, redisSubs, got, due, known, missed>>
    BY <1>1 DEF Forward, client, RealtimeTypeOK
<1>4. OnePlace(c) /\ OfItsUser(c)
    BY DEF Streams
<1>5. /\ n \in Note /\ n \in Events(wire[c]) /\ Tail(wire[c]) \in Seq(Note)
      /\ Events(wire'[c]) \subseteq Events(wire[c]) /\ Once(wire'[c]) /\ n \notin Events(wire'[c])
    BY <1>1, <1>2, <1>3, <1>4, EventsOfTail DEF OnePlace
<1>6. n \notin Events(outbox[c]) /\ n \notin got[c] /\ n \notin publishing
    BY <1>4, <1>5 DEF OnePlace
<1>7. /\ Offer(outbox[c], n) \in Seq(Note) /\ Len(Offer(outbox[c], n)) <= Buffer
      /\ Events(outbox'[c]) \subseteq Events(outbox[c]) \cup {n} /\ Once(outbox'[c])
    BY <1>2, <1>3, <1>4, <1>5, <1>6, OfferKeeps DEF OnePlace
<1>8. OnePlace(c)' /\ OfItsUser(c)'
    BY <1>3, <1>4, <1>5, <1>6, <1>7 DEF OnePlace, OfItsUser
<1>9. ASSUME NEW d \in Stream \ {c}
      PROVE  OnePlace(d)' /\ OfItsUser(d)'
    BY <1>3, StreamKeeps DEF RealtimeTypeOK
<1>10. RealtimeTypeOK'
    BY <1>2, <1>3, <1>5, <1>7 DEF RealtimeTypeOK
<1> QED
    BY <1>3, <1>8, <1>9, <1>10 DEF Streams, Stored

-----------------------------------------------------------------------------
\* Streams

LEMMA WriteInv ==
    ASSUME RealtimeInv, NEW c \in Stream, WriteNotification(c)
    PROVE  /\ RealtimeInv'
           /\ Head(outbox[c]) \notin got[c] /\ Owner[Head(outbox[c])] = Owner[c]
           /\ got' = [got EXCEPT ![c] = @ \cup {Head(outbox[c])}]
<1> USE DEF RealtimeInv
<1>1. PICK n : n = Head(outbox[c])
    OBVIOUS
<1>2. outbox[c] # <<>> /\ outbox[c] \in Seq(Note) /\ Len(outbox[c]) <= Buffer /\ c \in subs
    BY DEF WriteNotification, RealtimeTypeOK
<1>3. OnePlace(c) /\ OfItsUser(c)
    BY DEF Streams
<1>4. /\ n \in Note /\ n \in Events(outbox[c]) /\ Tail(outbox[c]) \in Seq(Note)
      /\ Len(Tail(outbox[c])) <= Len(outbox[c]) /\ Len(Tail(outbox[c])) \in Nat
      /\ Len(outbox[c]) \in Nat
      /\ Events(Tail(outbox[c])) \subseteq Events(outbox[c]) /\ Once(Tail(outbox[c]))
      /\ n \notin Events(Tail(outbox[c]))
    BY <1>1, <1>2, <1>3, EventsOfTail DEF OnePlace
<1>5. n \notin got[c] /\ Owner[n] = Owner[c]
    BY <1>3, <1>4 DEF OnePlace, OfItsUser
<1>6. /\ outbox' = [outbox EXCEPT ![c] = Tail(outbox[c])] /\ outbox'[c] = Tail(outbox[c])
      /\ got' = [got EXCEPT ![c] = @ \cup {n}] /\ got'[c] = got[c] \cup {n}
      /\ due' \in SUBSET Stream
      /\ UNCHANGED <<transport, row, publishing, stream, subs, redisSubs, wire, known, missed>>
    BY <1>1, <1>5 DEF WriteNotification, RealtimeTypeOK
<1>7. OnePlace(c)' /\ OfItsUser(c)'
    BY <1>3, <1>4, <1>5, <1>6 DEF OnePlace, OfItsUser
<1>8. ASSUME NEW d \in Stream \ {c}
      PROVE  OnePlace(d)' /\ OfItsUser(d)'
    BY <1>6, StreamKeeps DEF RealtimeTypeOK
<1>9. Len(Tail(outbox[c])) <= Buffer
    BY <1>2, <1>4, RealtimeAssumption
<1>10. RealtimeTypeOK'
    BY <1>2, <1>4, <1>6, <1>9 DEF RealtimeTypeOK
<1> QED
    BY <1>1, <1>5, <1>6, <1>7, <1>8, <1>10 DEF Streams, Stored

LEMMA StreamInv ==
    ASSUME RealtimeInv,
           \/ \E c \in Stream :
                Subscribe(c) \/ ForwardRedis(c) \/ WriteReady(c) \/ Leave(c) \/ Unsubscribe(c)
           \/ Restart \/ UNCHANGED realtimeVars
    PROVE  RealtimeInv' /\ \A c \in Stream : got'[c] \subseteq got[c]
<1> USE DEF RealtimeInv
<1>1. /\ UNCHANGED <<transport, row>> /\ publishing' \subseteq publishing
      /\ \A c \in Stream : /\ wire'[c] \in {wire[c], <<>>} /\ outbox'[c] \in {outbox[c], <<>>}
                           /\ got'[c] \in {got[c], {}}
    BY DEF Subscribe, ForwardRedis, WriteReady, Leave, Unsubscribe, Restart, realtimeVars, client,
           RealtimeTypeOK
<1>2. ASSUME NEW c \in Stream
      PROVE  OnePlace(c)' /\ OfItsUser(c)'
    BY <1>1, StreamKeeps
<1>3. RealtimeTypeOK'
    <2>1. ASSUME NEW c \in Stream, Subscribe(c) PROVE RealtimeTypeOK'
        BY <2>1 DEF Subscribe, RealtimeTypeOK
    <2>2. ASSUME NEW c \in Stream, ForwardRedis(c) PROVE RealtimeTypeOK'
        BY <2>2 DEF ForwardRedis, RealtimeTypeOK, client, Open
    <2>3. ASSUME NEW c \in Stream, WriteReady(c) \/ Leave(c) PROVE RealtimeTypeOK'
        BY <2>3 DEF WriteReady, Leave, RealtimeTypeOK, Open
    <2>4. ASSUME NEW c \in Stream, Unsubscribe(c) PROVE RealtimeTypeOK'
        BY <2>4, RealtimeAssumption DEF Unsubscribe, RealtimeTypeOK, client
    <2>5. CASE Restart
        BY <2>5, RealtimeAssumption DEF Restart, RealtimeTypeOK
    <2>6. CASE UNCHANGED realtimeVars
        BY <2>6 DEF realtimeVars, RealtimeTypeOK
    <2> QED
        BY <2>1, <2>2, <2>3, <2>4, <2>5, <2>6
<1> QED
    BY <1>1, <1>2, <1>3 DEF Streams, Stored

-----------------------------------------------------------------------------
\* At most once

LEMMA RealtimeInitInv == RealtimeInit => RealtimeInv
<1> SUFFICES ASSUME RealtimeInit PROVE RealtimeInv
    OBVIOUS
<1>1. RealtimeTypeOK
    BY RealtimeAssumption DEF RealtimeInit, RealtimeTypeOK
<1> QED
    BY <1>1, EventsOfNone
       DEF RealtimeInit, RealtimeInv, Stored, Streams, OnePlace, OfItsUser

\* Only a handler that writes to its connection gives a stream an event.
LEMMA RealtimeStepInv ==
    ASSUME RealtimeInv, [RealtimeNext]_realtimeVars
    PROVE  /\ RealtimeInv'
           /\ \/ \A c \in Stream : got'[c] \subseteq got[c]
              \/ \E c \in Stream : WriteNotification(c)
<1>1. CASE \/ \E notes \in SUBSET Note : NotifyMany(notes)
           \/ \E n \in Note : Notify(n) \/ MarkRead(n) \/ Delete(n) \/ PublisherStops(n)
           \/ \E u \in Recipient : MarkAllRead(u)
           \/ \E c \in Stream : Refetch(c)
    <2>1. UNCHANGED got
        BY <1>1 DEF NotifyMany, Notify, MarkRead, Delete, PublisherStops, MarkAllRead, Refetch,
                    server
    <2> QED
        BY <1>1, <2>1, NotificationInv
<1>2. ASSUME NEW n \in Note, PublishLocal(n) \/ PublishRedis(n)
      PROVE  RealtimeInv' /\ UNCHANGED got
    BY <1>2, PublishLocalInv, PublishRedisInv DEF PublishLocal, PublishRedis
<1>3. ASSUME NEW c \in Stream, Forward(c)
      PROVE  RealtimeInv' /\ UNCHANGED got
    BY <1>3, ForwardInv DEF Forward
<1>4. ASSUME NEW c \in Stream, WriteNotification(c)
      PROVE  RealtimeInv'
    BY <1>4, WriteInv
<1>5. CASE \/ \E c \in Stream :
                Subscribe(c) \/ ForwardRedis(c) \/ WriteReady(c) \/ Leave(c) \/ Unsubscribe(c)
           \/ Restart \/ UNCHANGED realtimeVars
    BY <1>5, StreamInv
<1> QED
    BY <1>1, <1>2, <1>3, <1>4, <1>5 DEF RealtimeNext

\* Whichever way events come, an event is in one place of a stream at a time,
\* stored before it is published, and never on its way to another user.
THEOREM RealtimeInvariance == RealtimeSpec => []RealtimeInv
    BY RealtimeInitInv, RealtimeStepInv, PTL DEF RealtimeSpec

\* Every variable keeps its type, and no channel holds more than its buffer.
THEOREM RealtimeTypeCorrect == RealtimeSpec => []RealtimeTypeOK
<1>1. RealtimeInv => RealtimeTypeOK
    BY DEF RealtimeInv
<1> QED
    BY <1>1, RealtimeInvariance, PTL

\* An event reaches a stream once, over Redis or within the process but not
\* both ways, and WriteNotification never has one of somebody else at hand.
THEOREM NoEventTwice == RealtimeSpec => AtMostOnce
<1> DEFINE Written(c, n) ==
        (n \in got'[c] \ got[c] \/ (WriteNotification(c) /\ n = Head(outbox[c]))) =>
            n \notin got[c] /\ Owner[n] = Owner[c]
<1>1. ASSUME RealtimeInv, [RealtimeNext]_realtimeVars, NEW c \in Stream, NEW n \in Note
      PROVE  Written(c, n)
    <2>1. CASE WriteNotification(c)
        <3>1. /\ Head(outbox[c]) \notin got[c] /\ Owner[Head(outbox[c])] = Owner[c]
              /\ got'[c] = got[c] \cup {Head(outbox[c])}
            BY <1>1, <2>1, WriteInv DEF RealtimeInv, RealtimeTypeOK
        <3> QED
            BY <3>1
    <2>2. CASE ~WriteNotification(c)
        <3>1. ASSUME NEW d \in Stream \ {c}, WriteNotification(d)
              PROVE  got'[c] = got[c]
            BY <1>1, <3>1, WriteInv DEF RealtimeInv, RealtimeTypeOK
        <3>2. got'[c] \subseteq got[c]
            BY <1>1, <2>2, <3>1, RealtimeStepInv
        <3> QED
            BY <2>2, <3>2
    <2> QED
        BY <2>1, <2>2
<1>2. RealtimeInv /\ [RealtimeNext]_realtimeVars =>
        [\A c \in Stream, n \in Note : Written(c, n)]_realtimeVars
    BY <1>1
<1> QED
    BY <1>2, RealtimeInvariance, PTL DEF RealtimeSpec, AtMostOnce

-----------------------------------------------------------------------------
\* Server: the inductive invariant

\* The pool is closed when main has nothing left to do but to return, a drain
\* that was forced is remembered, and unless it was, no request is left when
\* main goes on to the pool.
ShutdownOrder ==
    /\ ~pool => main \in {"return"} \cup Ended
    /\ main = "force" => forced
    /\ main = "boot" => Busy = {}
    /\ main \in {"pool", "return"} => Busy = {} \/ forced

ServerInv == ServerTypeOK /\ ShutdownOrder /\ CutOnlyWhenForced /\ GaugesDriftByPanics

-----------------------------------------------------------------------------
\* Counting connections

Places == {"none", "idle"} \cup Handling
Among(h, S) == {c \in Conn : h[c] \in S}
One(v, S) == IF v \in S THEN 1 ELSE 0
Put(h, c, v) == [h EXCEPT ![c] = v]
notMoved == <<main, signal, migrator, pool, ticker, forced>>

LEMMA CountType ==
    ASSUME NEW h, NEW S
    PROVE  IsFiniteSet(Among(h, S)) /\ Cardinality(Among(h, S)) \in Nat
<1>1. Among(h, S) \in SUBSET Conn
    BY DEF Among
<1> QED
    BY <1>1, ServerAssumption, FS_Subset, FS_CardinalityType

LEMMA OneType == \A v, S : One(v, S) \in Nat
    BY DEF One

\* A connection that moves leaves one set and enters another.
LEMMA CountMoves ==
    ASSUME NEW h \in [Conn -> Places], NEW c \in Conn, NEW v \in Places, NEW S
    PROVE  Cardinality(Among(Put(h, c, v), S)) = Cardinality(Among(h, S)) + One(v, S) - One(h[c], S)
<1> DEFINE g == Put(h, c, v)
<1>1. /\ IsFiniteSet(Among(h, S)) /\ Cardinality(Among(h, S)) \in Nat
      /\ IsFiniteSet(Among(g, S)) /\ Cardinality(Among(g, S)) \in Nat
    BY CountType
<1>2. g[c] = v /\ \A d \in Conn \ {c} : g[d] = h[d]
    BY DEF Put
<1> SUFFICES Cardinality(Among(g, S)) = Cardinality(Among(h, S)) + One(v, S) - One(h[c], S)
    OBVIOUS
<1> HIDE DEF g
<1>3. CASE v \in S /\ h[c] \notin S
    <2>1. Among(g, S) = Among(h, S) \cup {c} /\ c \notin Among(h, S)
        BY <1>2, <1>3 DEF Among
    <2>2. Cardinality(Among(g, S)) = Cardinality(Among(h, S)) + 1
        BY <1>1, <2>1, FS_AddElement
    <2> QED
        BY <1>1, <1>3, <2>2 DEF One
<1>4. CASE v \notin S /\ h[c] \in S
    <2>1. Among(g, S) = Among(h, S) \ {c} /\ c \in Among(h, S)
        BY <1>2, <1>4 DEF Among
    <2>2. Cardinality(Among(g, S)) = Cardinality(Among(h, S)) - 1
        BY <1>1, <2>1, FS_RemoveElement
    <2> QED
        BY <1>1, <1>4, <2>2 DEF One
<1>5. CASE v \in S <=> h[c] \in S
    <2>1. Among(g, S) = Among(h, S)
        BY <1>2, <1>5 DEF Among
    <2> QED
        BY <1>1, <1>5, <2>1 DEF One
<1> QED
    BY <1>3, <1>4, <1>5

\* The sets of the model are such sets, in the next state, too.
LEMMA CountedSets ==
    /\ Busy = Among(http, Handling) /\ Busy' = Among(http', Handling)
    /\ InTx = Among(http, {"tx"}) /\ InTx' = Among(http', {"tx"})
    /\ Streaming = Among(http, {"stream"})
    /\ Streaming' = Among(http', {"stream"})
    BY DEF Busy, InTx, Streaming, Among

LEMMA NobodyServed ==
    ASSUME Busy' = {}
    PROVE  /\ InTx' = {} /\ Streaming' = {}
           /\ Cardinality(Busy') = 0 /\ Cardinality(InTx') = 0
           /\ Cardinality(Streaming') = 0
<1>1. InTx' = {} /\ Streaming' = {}
    BY DEF InTx, Streaming, Busy, Handling
<1> QED
    BY <1>1, FS_EmptySet

-----------------------------------------------------------------------------
\* What a connection does

\* The connection c moves to v; main stays where it is.  Each gauge follows the
\* move, but for a handler that panics.
Moves(c, v) ==
    /\ v \in Places /\ http' = [http EXCEPT ![c] = v] /\ UNCHANGED notMoved
    /\ v = "tx" => http[c] # "tx" /\ InUse < MaxOpen
    /\ v \in Handling => http[c] \in Handling \/ main \in {"serve", "stop", "drain"}
    /\ hurt' = hurt \/ (hurt' \in SUBSET Conn /\ ~pool /\ http[c] \in Handling)
    /\ panics' \in {panics, panics + 1} /\ panics' <= MaxPanics
    /\ inFlight' = inFlight + One(v, Handling) - One(http[c], Handling)
                             + (panics' - panics)
    /\ sse' = sse + One(v, {"stream"}) - One(http[c], {"stream"})

LEMMA MoveInv ==
    ASSUME ServerInv, NEW c \in Conn, NEW v, Moves(c, v)
    PROVE  ServerInv'
<1> USE DEF ServerInv
<1>1. /\ UNCHANGED <<main, signal, migrator, pool, ticker, forced>>
      /\ v = "tx" => http[c] # "tx" /\ InUse < MaxOpen
      /\ v \in Handling => http[c] \in Handling \/ main \in {"serve", "stop", "drain"}
      /\ hurt' = hurt \/ (hurt' \in SUBSET Conn /\ ~pool /\ http[c] \in Handling)
    BY DEF Moves, notMoved
<1>2. /\ http \in [Conn -> Places] /\ http' \in [Conn -> Places] /\ http[c] \in Places
      /\ v \in Places /\ http' = [http EXCEPT ![c] = v]
    BY DEF ServerTypeOK, Places, Moves
<1>3. /\ Cardinality(Busy') = Cardinality(Busy) + One(v, Handling) - One(http[c], Handling)
      /\ Cardinality(InTx') = Cardinality(InTx) + One(v, {"tx"}) - One(http[c], {"tx"})
      /\ Cardinality(Streaming') = Cardinality(Streaming)
                                    + One(v, {"stream"}) - One(http[c], {"stream"})
    <2>1. ASSUME NEW S
          PROVE  Cardinality(Among(http', S))
                    = Cardinality(Among(http, S)) + One(v, S) - One(http[c], S)
        <3>1. http' = Put(http, c, v)
            BY <1>2 DEF Put
        <3>2. ASSUME NEW h \in [Conn -> Places], NEW w \in Places
              PROVE  Cardinality(Among(Put(h, c, w), S))
                        = Cardinality(Among(h, S)) + One(w, S) - One(h[c], S)
            BY CountMoves
        <3> QED
            BY <1>2, <3>1, <3>2
    <2> QED
        BY <2>1, CountedSets
<1>4. /\ Cardinality(Busy) \in Nat /\ Cardinality(InTx) \in Nat
      /\ Cardinality(Busy') \in Nat /\ Cardinality(InTx') \in Nat
      /\ Cardinality(Streaming) \in Nat /\ Cardinality(Streaming') \in Nat
    BY CountType, CountedSets
<1>5. Busy = {} /\ main \notin {"serve", "stop", "drain"} => Busy' = {}
    BY <1>1, <1>2 DEF Busy
<1>6. http[c] \in Handling => Busy # {}
    BY DEF Busy
<1>7. InUse' <= MaxOpen
    BY <1>1, <1>3, <1>4, ServerAssumption DEF InUse, One, ServerTypeOK
<1>8. /\ panics' \in 0..MaxPanics /\ panics \in Nat /\ panics' \in Nat
      /\ panics' = panics \/ panics' = panics + 1
      /\ inFlight \in Nat /\ sse \in Nat
    BY ServerAssumption DEF Moves, ServerTypeOK
<1>9. /\ inFlight' = inFlight + One(v, Handling) - One(http[c], Handling) + (panics' - panics)
      /\ sse' = sse + One(v, {"stream"}) - One(http[c], {"stream"})
    BY DEF Moves
<1>10. inFlight' \in Nat /\ sse' \in Nat
    <2>1. CASE main \notin Ended
        <3>1. inFlight' = Cardinality(Busy') + panics' /\ sse' = Cardinality(Streaming')
            BY <1>3, <1>4, <1>8, <1>9, <2>1, OneType DEF GaugesDriftByPanics
        <3> QED
            BY <1>4, <1>8, <3>1
    <2>2. CASE main \in Ended
        <3>1. http[c] \notin Handling /\ v \notin Handling
            BY <1>1, <1>6, <2>2 DEF ServerTypeOK, Ended
        <3>2. /\ One(v, Handling) = 0 /\ One(http[c], Handling) = 0
              /\ One(v, {"stream"}) = 0 /\ One(http[c], {"stream"}) = 0
            BY <3>1 DEF One, Handling
        <3>3. sse' = sse
            BY <1>8, <1>9, <3>2
        <3>4. inFlight' = inFlight + (panics' - panics)
            BY <1>8, <1>9, <3>2
        <3>5. inFlight' = inFlight \/ inFlight' = inFlight + 1
            <4>1. ASSUME NEW i \in Nat, NEW n \in Nat
                  PROVE  i + (n - n) = i /\ i + ((n + 1) - n) = i + 1
                OBVIOUS
            <4> QED
                BY <1>8, <3>4, <4>1
        <3> QED
            BY <1>8, <3>3, <3>5
    <2> QED
        BY <2>1, <2>2
<1>11. hurt' \in SUBSET Conn /\ (main' \in Ended => Busy' = {})
    BY <1>1, <1>5 DEF ServerTypeOK, Ended
<1>12. ServerTypeOK'
    BY <1>1, <1>2, <1>7, <1>8, <1>10, <1>11 DEF ServerTypeOK, Places
<1>13. ShutdownOrder'
    BY <1>1, <1>5 DEF ShutdownOrder, Ended
<1>14. CutOnlyWhenForced'
    BY <1>1, <1>6 DEF CutOnlyWhenForced, ShutdownOrder, ServerTypeOK, Ended
<1>15. GaugesDriftByPanics'
    BY <1>1, <1>3, <1>4, <1>8, <1>9, OneType DEF GaugesDriftByPanics
<1> QED
    BY <1>12, <1>13, <1>14, <1>15

LEMMA RequestInv ==
    ASSUME ServerInv, NEW c \in Conn,
           \/ ServeHTTP(c) \/ Query(c) \/ WithTenantTx(c) \/ EndTx(c) \/ Answer(c)
           \/ OpenStream(c) \/ EndStream(c) \/ Recovery(c) \/ Hangup(c)
    PROVE  ServerInv'
<1>1. /\ panics \in Int /\ panics <= MaxPanics /\ panics - panics = 0
      /\ inFlight \in Int /\ sse \in Int /\ MaxPanics \in Int
      /\ http \in [Conn -> Places] /\ hurt \in SUBSET Conn
    BY ServerAssumption DEF ServerInv, ServerTypeOK, Places
<1>2. ServeHTTP(c) => Moves(c, "run")
    BY <1>1 DEF ServeHTTP, Moves, notMoved, gauges, One, Places, Handling
<1>3. Query(c) => Moves(c, "wait")
    BY <1>1 DEF Query, Moves, notMoved, gauges, One, Places, Handling
<1>4. WithTenantTx(c) => Moves(c, "tx") \/ Moves(c, "run")
    BY <1>1 DEF WithTenantTx, Moves, notMoved, gauges, One, Places, Handling
<1>5. EndTx(c) => Moves(c, "run")
    BY <1>1 DEF EndTx, Moves, notMoved, gauges, One, Places, Handling
<1>6. Answer(c) => Moves(c, "idle") \/ Moves(c, "none")
    <2> SUFFICES ASSUME Answer(c) PROVE Moves(c, "idle") \/ Moves(c, "none")
        OBVIOUS
    <2>1. PICK v \in {"idle", "none"} : http' = [http EXCEPT ![c] = v]
        BY DEF Answer, Finish
    <2>2. Moves(c, v)
        BY <1>1, <2>1 DEF Answer, Moves, notMoved, gauges, One, Places, Handling
    <2> QED
        BY <2>1, <2>2
<1>7. OpenStream(c) => Moves(c, "stream")
    BY <1>1 DEF OpenStream, Moves, notMoved, gauges, One, Places, Handling
<1>8. EndStream(c) => Moves(c, "none")
    BY <1>1 DEF EndStream, Moves, notMoved, gauges, One, Places, Handling
<1>9. Recovery(c) => Moves(c, "idle") \/ Moves(c, "none")
    <2> SUFFICES ASSUME Recovery(c) PROVE Moves(c, "idle") \/ Moves(c, "none")
        OBVIOUS
    <2>1. PICK v \in {"idle", "none"} : http' = [http EXCEPT ![c] = v]
        BY DEF Recovery, Finish
    <2>2. Moves(c, v)
        BY <1>1, <2>1 DEF Recovery, Moves, notMoved, gauges, One, Places, Handling
    <2> QED
        BY <2>1, <2>2
<1>10. Hangup(c) => Moves(c, "none")
    BY <1>1 DEF Hangup, Moves, notMoved, gauges, One, Places, Handling
<1> QED
    BY <1>2, <1>3, <1>4, <1>5, <1>6, <1>7, <1>8, <1>9, <1>10, MoveInv

-----------------------------------------------------------------------------
\* What main and the keep-alive loop do

\* os.Exit takes every request with it.
LEMMA DieInv ==
    ASSUME ServerInv, Die
    PROVE  ServerInv'
<1> USE DEF ServerInv
<1>1. /\ main' = "failed" /\ ticker' = "off" /\ pool' = FALSE
      /\ http' = [c \in Conn |-> "none"] /\ hurt' \in SUBSET Conn
      /\ UNCHANGED <<signal, migrator, inFlight, sse, panics, forced>>
    BY DEF Die, Busy, gauges, ServerTypeOK
<1>2. Busy' = {}
    BY <1>1 DEF Busy, Handling
<1>3. InUse' <= MaxOpen
    BY <1>1, <1>2, NobodyServed, ServerAssumption DEF InUse, ServerTypeOK
<1>4. ServerTypeOK'
    BY <1>1, <1>2, <1>3 DEF ServerTypeOK, Ended, Handling
<1>5. ShutdownOrder' /\ CutOnlyWhenForced' /\ GaugesDriftByPanics'
    BY <1>1, <1>2 DEF ShutdownOrder, CutOnlyWhenForced, GaugesDriftByPanics, Ended
<1> QED
    BY <1>4, <1>5

\* What is counted stays the same as long as no connection moves between a
\* handler and the rest.
LEMMA SameServed ==
    ASSUME http' \in [Conn -> Places],
           \A c \in Conn : http'[c] = http[c]
                           \/ (http[c] \notin Handling /\ http'[c] \notin Handling)
    PROVE  Busy' = Busy /\ InTx' = InTx /\ Streaming' = Streaming
    BY DEF Busy, InTx, Streaming, Handling

LEMMA BootInv ==
    ASSUME ServerInv, MigrateAtStartup
    PROVE  ServerInv'
<1> USE DEF ServerInv
<1>1. /\ main = "boot" /\ main' = "serve" /\ migrator' \in BOOLEAN
      /\ ticker' \in {"off", "asleep"}
      /\ UNCHANGED <<signal, pool, http, inFlight, sse, panics, forced, hurt>>
    BY DEF MigrateAtStartup, gauges
<1>2. Busy = {} /\ Busy' = Busy /\ Streaming' = Streaming
    BY <1>1 DEF ShutdownOrder, Busy, Streaming
<1>3. InUse' <= MaxOpen
    BY <1>1, <1>2, NobodyServed, ServerAssumption DEF InUse
<1>4. ServerTypeOK'
    BY <1>1, <1>2, <1>3 DEF ServerTypeOK, Ended
<1>5. ShutdownOrder' /\ CutOnlyWhenForced' /\ GaugesDriftByPanics'
    BY <1>1, <1>2 DEF ShutdownOrder, CutOnlyWhenForced, GaugesDriftByPanics, Ended
<1> QED
    BY <1>4, <1>5

\* Nothing is cut off in an orderly stop: the pool closes after the drain.
LEMMA MainInv ==
    ASSUME ServerInv, Main
    PROVE  ServerInv'
<1> USE DEF ServerInv
<1>1. /\ http' \in [Conn -> Places] /\ hurt' \in SUBSET Conn
      /\ UNCHANGED <<signal, migrator, inFlight, sse, panics>>
    BY DEF Main, StopKeepalive, Shutdown, Drained, DrainTimesOut, Close, ClosePool, Exit,
           gauges, Busy, ServerTypeOK, Places
<1>2. CASE ~Exit
    <2>1. \A c \in Conn : http'[c] = http[c]
                          \/ (http[c] \notin Handling /\ http'[c] \notin Handling)
        BY <1>2 DEF Main, StopKeepalive, Shutdown, Drained, DrainTimesOut, Close, ClosePool,
                    Busy, Handling
    <2>2. Busy' = Busy /\ InTx' = InTx /\ Streaming' = Streaming
        BY <1>1, <2>1, SameServed
    <2>3. InUse' <= MaxOpen
        BY <1>1, <2>2 DEF InUse, ServerTypeOK
    <2>4. /\ main' \in {"stop", "drain", "force", "pool", "return"} /\ main \notin Ended
          /\ main' \in {"pool", "return"} => Busy = {} \/ forced'
          /\ main' = "force" => forced'
          /\ forced => forced'
          /\ forced' \in BOOLEAN /\ pool' \in BOOLEAN /\ UNCHANGED ticker
          /\ ~pool' => main' = "return" \/ ~pool
          /\ main \notin {"return"} \cup Ended
        BY <1>2 DEF Main, StopKeepalive, Shutdown, Drained, DrainTimesOut, Close, ClosePool,
                    Ended, ShutdownOrder, ServerTypeOK
    <2>5. ServerTypeOK'
        BY <1>1, <2>3, <2>4 DEF ServerTypeOK, Ended, Places
    <2>6. ShutdownOrder'
        BY <2>2, <2>4 DEF ShutdownOrder, Ended
    <2>7. hurt' = hurt \/ forced'
        BY <1>2 DEF Main, StopKeepalive, Shutdown, Drained, DrainTimesOut, Close, ClosePool,
                    ShutdownOrder
    <2>8. CutOnlyWhenForced' /\ GaugesDriftByPanics'
        BY <1>1, <2>2, <2>4, <2>7 DEF CutOnlyWhenForced, GaugesDriftByPanics, Ended
    <2> QED
        BY <2>5, <2>6, <2>8
<1>3. CASE Exit
    <2>1. /\ main = "return" /\ main' = "exited" /\ ticker' = "off"
          /\ http' = [c \in Conn |-> "none"] /\ hurt' = hurt \cup Busy
          /\ UNCHANGED <<pool, forced>>
        BY <1>3 DEF Exit
    <2>2. Busy' = {}
        BY <2>1 DEF Busy, Handling
    <2>3. InUse' <= MaxOpen
        BY <1>1, <2>2, NobodyServed, ServerAssumption DEF InUse, ServerTypeOK
    <2>4. ServerTypeOK'
        BY <1>1, <2>1, <2>2, <2>3 DEF ServerTypeOK, Ended, Places
    <2>5. ShutdownOrder' /\ CutOnlyWhenForced' /\ GaugesDriftByPanics'
        BY <2>1, <2>2 DEF ShutdownOrder, CutOnlyWhenForced, GaugesDriftByPanics, Ended
    <2> QED
        BY <2>4, <2>5
<1> QED
    BY <1>2, <1>3

\* A signal that waits, a tick of the keep-alive loop, and a stutter.
LEMMA AsideInv ==
    ASSUME ServerInv, signal' \in BOOLEAN, ticker' \in {"off", "asleep", "ping", "health"},
           UNCHANGED <<main, migrator, pool, http, inFlight, sse, panics, forced, hurt>>
    PROVE  ServerInv'
<1>1. Busy' = Busy /\ InTx' = InTx /\ Streaming' = Streaming
    BY DEF Busy, InTx, Streaming
<1>2. ServerTypeOK'
    BY <1>1 DEF ServerInv, ServerTypeOK, InUse
<1>3. ShutdownOrder' /\ CutOnlyWhenForced' /\ GaugesDriftByPanics'
    BY <1>1 DEF ServerInv, ShutdownOrder, CutOnlyWhenForced, GaugesDriftByPanics
<1> QED
    BY <1>2, <1>3 DEF ServerInv

LEMMA ServerInitInv == ServerInit => ServerInv
<1> SUFFICES ASSUME ServerInit PROVE ServerInv
    OBVIOUS
<1>1. Busy = {} /\ InTx = {} /\ Streaming = {}
    BY DEF ServerInit, Busy, InTx, Streaming, Handling
<1>2. Cardinality(Busy) = 0 /\ Cardinality(InTx) = 0 /\ Cardinality(Streaming) = 0
    BY <1>1, FS_EmptySet
<1>3. ServerTypeOK
    <2>1. InUse <= MaxOpen
        BY <1>2, ServerAssumption DEF ServerInit, InUse
    <2>2. http \in [Conn -> {"none", "idle"} \cup Handling] /\ panics \in 0..MaxPanics
        BY ServerAssumption DEF ServerInit
    <2> QED
        BY <1>1, <2>1, <2>2 DEF ServerInit, ServerTypeOK
<1> QED
    BY <1>1, <1>2, <1>3 DEF ServerInit, ServerInv, ShutdownOrder, CutOnlyWhenForced,
       GaugesDriftByPanics, Ended

LEMMA ServerStepInv == ServerInv /\ [ServerNext]_serverVars => ServerInv'
<1> SUFFICES ASSUME ServerInv, [ServerNext]_serverVars PROVE ServerInv'
    OBVIOUS
<1>1. CASE BootFails \/ ListenFails \/ Signal
    <2>1. CASE Die
        BY <2>1, DieInv
    <2>2. CASE ~Die
        <3>1. /\ signal' = TRUE
              /\ UNCHANGED <<main, migrator, pool, ticker, http, inFlight, sse, panics,
                             forced, hurt>>
            BY <1>1, <2>2 DEF BootFails, ListenFails, Signal, gauges
        <3> QED
            BY <3>1, AsideInv DEF ServerInv, ServerTypeOK
    <2> QED
        BY <2>1, <2>2
<1>2. ASSUME NEW c \in Conn,
             \/ ServeHTTP(c) \/ Query(c) \/ WithTenantTx(c) \/ EndTx(c) \/ Answer(c)
             \/ OpenStream(c) \/ EndStream(c) \/ Recovery(c) \/ Hangup(c)
      PROVE  ServerInv'
    BY <1>2, RequestInv
<1>3. CASE Tick \/ Ping \/ HealthDone \/ Stopped \/ UNCHANGED serverVars
    <2>1. /\ signal' \in BOOLEAN /\ ticker' \in {"off", "asleep", "ping", "health"}
          /\ UNCHANGED <<main, migrator, pool, http, inFlight, sse, panics, forced, hurt>>
        BY <1>3 DEF Tick, Ping, HealthDone, Stopped, serverVars, gauges, ServerInv, ServerTypeOK
    <2> QED
        BY <2>1, AsideInv
<1> QED
    BY <1>1, <1>2, <1>3, BootInv, MainInv DEF ServerNext

\* Requests, panics, ticks and signals in any order: the drain comes before the
\* pool and the pool before the end, whatever is still running.
THEOREM ServerInvariance == ServerSpec => []ServerInv
    BY ServerInitInv, ServerStepInv, PTL DEF ServerSpec

\* Every variable keeps its type; the pool never lends more than it has.
THEOREM ServerTypeCorrect == ServerSpec => []ServerTypeOK
<1>1. ServerInv => ServerTypeOK
    BY DEF ServerInv
<1> QED
    BY <1>1, ServerInvariance, PTL

\* No handler loses its connection, its pool or its process in an orderly stop:
\* main.go drains before it closes the pool, and only a drain that ran out of
\* its time, or a failure to start, cuts a request off.
THEOREM OnlyForcedCuts == ServerSpec => []CutOnlyWhenForced
<1>1. ServerInv => CutOnlyWhenForced
    BY DEF ServerInv
<1> QED
    BY <1>1, ServerInvariance, PTL

\* saas_api_in_flight is too high by the handlers that panicked, as many
\* as they are, and by nothing else; the gauge of streams is exact.
THEOREM GaugesDrift == ServerSpec => []GaugesDriftByPanics
<1>1. ServerInv => GaugesDriftByPanics
    BY DEF ServerInv
<1> QED
    BY <1>1, ServerInvariance, PTL
=============================================================================
