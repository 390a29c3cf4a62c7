----------------------------- MODULE RolesProofs -----------------------------
(***************************************************************************)
(* Proofs about Roles for every number of requests, users, custom roles    *)
(* and permissions.  What a mutation has checked is still so when it       *)
(* commits, because the rows it decided on are locked: IInv says for each  *)
(* request in progress                                                     *)
(*   - which rows it holds (ActorHeld, RolesHeld, ChosenHeld, TargetHeld), *)
(*   - that what it has read of them is what they say (ReadRight, and      *)
(*     ShownIsCurrent of the form an editor was shown),                    *)
(*   - what it was found to be allowed (RoleAllowed, CreateAllowed,        *)
(*     TargetAllowed), in terms of the tables and not of what it read.     *)
(***************************************************************************)
EXTENDS Roles, TLAPS

\* Steps of a transaction; "loading" and "loaded" are before it.
Running(p) == req[p].pc \in {"actor", "role", "target", "commit"}

\* The actor's roles are locked and have been read.
Trusted(p) == req[p].pc \in {"role", "target", "commit"}

\* The role the mutation is about is locked and has been checked.
Chosen(p) == At(p, "target") \/ (At(p, "commit") /\ req[p].op # "create")

\* The user the mutation is about is locked and has been checked.
Aimed(p) == At(p, "commit") /\ req[p].op \in {"assign", "revoke"}

ActorHeld(p) ==
    Running(p) => req[p].actor \in User /\ userLock[req[p].actor] = p

RolesHeld(p) ==
    Trusted(p) => \A r \in holds[req[p].actor] : roleLock[r] = p

ReadRight(p) ==
    req[p].pc \in {"role", "target"} =>
        /\ req[p].held = holds[req[p].actor]
        /\ req[p].can = PermsOf(holds[req[p].actor])

\* The ids a request carries, and the operations its step is one of.
Cargo(p) ==
    /\ req[p].role # None => req[p].role \in System \cup used
    /\ req[p].op \in {"update", "delete", "assign", "revoke"} => req[p].role # None
    /\ req[p].op \in {"assign", "revoke"} => req[p].user # None
    /\ req[p].pc \in {"loading", "loaded"} => req[p].op = "update"
    /\ Running(p) => req[p].op # "none"
    /\ At(p, "role") => req[p].op # "create"
    /\ At(p, "target") => req[p].op \in {"assign", "revoke"}

ChosenHeld(p) ==
    Chosen(p) => req[p].role \in exists /\ roleLock[req[p].role] = p

TargetHeld(p) == Aimed(p) => userLock[req[p].user] = p

\* Nobody has edited the role since the editor was shown it, if its revision is
\* still the one the editor sends back.
ShownIsCurrent(p) ==
    (req[p].fresh /\ req[p].role \in exists /\ req[p].pc \in {"loaded", "actor", "role"})
        => perms[req[p].role] = req[p].seen

\* What authorizeRoleDelegation and authorizeRoleControl allow a holder of R.
MayGive(R, r, codes) ==
    /\ r = "owner" => "owner" \in R
    /\ "owner" \in R \/ Outranks(R, {r})
    /\ OrgManage \in codes => r = "owner"
    /\ codes \subseteq PermsOf(R)

MayTake(R, r) ==
    /\ r = "owner" => "owner" \in R
    /\ "owner" \in R \/ Outranks(R, {r})

RoleAllowed(p) ==
    Chosen(p) =>
        LET R == holds[req[p].actor]
            r == req[p].role
        IN  /\ req[p].op = "update" =>
                 /\ MayGive(R, r, req[p].codes)
                 /\ r = "owner" => OrgManage \in req[p].codes
                 /\ req[p].conditional => perms[r] = req[p].seen
            /\ req[p].op = "delete" => r \notin System /\ MayTake(R, r)
            /\ req[p].op = "assign" => MayGive(R, r, perms[r])
            /\ req[p].op = "revoke" => MayTake(R, r)

CreateAllowed(p) ==
    (At(p, "commit") /\ req[p].op = "create") =>
        MayCreate(holds[req[p].actor], req[p].codes)

TargetAllowed(p) ==
    Aimed(p) =>
        LET R == holds[req[p].actor]
            u == req[p].user
        IN  /\ "owner" \in R \/ Outranks(R, holds[u])
            /\ req[p].op = "revoke" =>
                 /\ req[p].role \in holds[u]
                 /\ req[p].role = "owner" => OtherOwners(u) # {}

Carries(p) ==
    /\ ActorHeld(p) /\ RolesHeld(p) /\ ReadRight(p) /\ Cargo(p)
    /\ ChosenHeld(p) /\ TargetHeld(p) /\ ShownIsCurrent(p)
    /\ RoleAllowed(p) /\ CreateAllowed(p) /\ TargetAllowed(p)

ReqInv == \A p \in Proc : Carries(p)

\* Only rows of the table are locked: a new role finds no lock on its id.
LocksExist == \A r \in Role \ exists : roleLock[r] = None

IInv == TypeOK /\ ReqInv /\ LocksExist /\ OrgManageExclusive /\ OwnerRemains

-----------------------------------------------------------------------------
\* Requests as records

LEMMA NoRequestTyped == NoRequest \in Request /\ NoRequest.pc = "idle"
    BY DEF NoRequest, Request, Op, Pc

\* What moving a request, or answering it, does to its fields.
LEMMA ChosenFields ==
    ASSUME NEW r \in Request, NEW l \in Pc
    PROVE  LET g == [r EXCEPT !.pc = l] IN
           /\ g \in Request
           /\ g.pc = l /\ g.op = r.op /\ g.actor = r.actor /\ g.role = r.role
           /\ g.user = r.user /\ g.codes = r.codes /\ g.held = r.held
           /\ g.can = r.can /\ g.seen = r.seen /\ g.fresh = r.fresh
           /\ g.conditional = r.conditional
    BY DEF Request

LEMMA ReadyFields ==
    ASSUME NEW r \in Request
    PROVE  LET g == ReadyToCommit(r) IN
           /\ g \in Request
           /\ g.pc = "commit" /\ g.op = r.op /\ g.actor = r.actor /\ g.role = r.role
           /\ g.user = r.user /\ g.codes = r.codes /\ g.seen = r.seen
           /\ g.fresh = FALSE /\ g.conditional = r.conditional
    BY DEF Request, ReadyToCommit, Pc

LEMMA TrustedFields ==
    ASSUME NEW r \in Request, NEW R \in SUBSET Role, NEW C \in SUBSET Perm
    PROVE  LET g == [r EXCEPT !.pc = "role", !.held = R, !.can = C] IN
           /\ g \in Request
           /\ g.pc = "role" /\ g.op = r.op /\ g.actor = r.actor /\ g.role = r.role
           /\ g.user = r.user /\ g.codes = r.codes /\ g.held = R
           /\ g.can = C /\ g.seen = r.seen /\ g.fresh = r.fresh
           /\ g.conditional = r.conditional
    BY DEF Request, Pc

LEMMA StaleFields ==
    ASSUME NEW r \in Request
    PROVE  LET g == [r EXCEPT !.fresh = FALSE] IN
           /\ g \in Request
           /\ g.pc = r.pc /\ g.op = r.op /\ g.actor = r.actor /\ g.role = r.role
           /\ g.user = r.user /\ g.codes = r.codes /\ g.held = r.held
           /\ g.can = r.can /\ g.seen = r.seen /\ g.fresh = FALSE
           /\ g.conditional = r.conditional
    BY DEF Request

LEMMA PermsOfTyped ==
    ASSUME TypeOK, NEW R \in SUBSET Role
    PROVE  PermsOf(R) \in SUBSET Perm
    BY DEF TypeOK, PermsOf

-----------------------------------------------------------------------------
\* Types

LEMMA FinishTyped ==
    ASSUME TypeOK, NEW p \in Proc, Finish(p)
    PROVE  /\ userLock' \in [User -> Proc \cup {None}]
           /\ roleLock' \in [Role -> Proc \cup {None}]
    BY DEF TypeOK, Finish

LEMMA AnswerTyped ==
    ASSUME TypeOK, NEW p \in Proc, Answer(p)
    PROVE  req' \in [Proc -> Request] /\ req'[p] = NoRequest
    BY NoRequestTyped DEF TypeOK, Answer

LEMMA RefuseTyped ==
    ASSUME TypeOK, NEW p \in Proc, Refuse(p)
    PROVE  TypeOK'
    BY FinishTyped, AnswerTyped DEF TypeOK, Refuse, tables

\* A transaction that begins.
LEMMA BeginTyped ==
    ASSUME TypeOK, NEW p \in Proc, NEW a \in User, NEW r \in Request, Begin(p, a, r)
    PROVE  TypeOK'
    BY DEF TypeOK, Begin, tables

LEMMA ArriveTyped ==
    ASSUME TypeOK, NEW p \in Proc, Arrive(p)
    PROVE  TypeOK'
<1>1. ASSUME NEW a \in User, NEW codes \in SUBSET Perm, CreateRole(p, a, codes)
      PROVE  TypeOK'
    <2>1. [NoRequest EXCEPT !.op = "create", !.pc = "actor", !.actor = a,
                            !.codes = codes] \in Request
        BY DEF NoRequest, Request, Op, Pc
    <2> QED
        BY <1>1, <2>1, BeginTyped DEF CreateRole
<1>2. ASSUME NEW a \in User, NEW codes \in SUBSET Perm, UpdateIfUnchanged(p, a, codes)
      PROVE  TypeOK'
    <2>1. [req[p] EXCEPT !.pc = "actor", !.actor = a, !.codes = codes,
                         !.conditional = TRUE] \in Request
        BY DEF TypeOK, Request, Pc
    <2> QED
        BY <1>2, <2>1, BeginTyped DEF UpdateIfUnchanged
<1>3. ASSUME NEW a \in User, NEW r \in exists, NEW codes \in SUBSET Perm,
             UpdateRolePermissions(p, a, r, codes)
      PROVE  TypeOK'
    <2>1. [NoRequest EXCEPT !.op = "update", !.pc = "actor", !.actor = a,
                            !.role = r, !.codes = codes] \in Request
        BY DEF TypeOK, NoRequest, Request, Op, Pc
    <2> QED
        BY <1>3, <2>1, BeginTyped DEF UpdateRolePermissions
<1>4. ASSUME NEW a \in User, NEW r \in exists, DeleteRole(p, a, r)
      PROVE  TypeOK'
    <2>1. [NoRequest EXCEPT !.op = "delete", !.pc = "actor", !.actor = a,
                            !.role = r] \in Request
        BY DEF TypeOK, NoRequest, Request, Op, Pc
    <2> QED
        BY <1>4, <2>1, BeginTyped DEF DeleteRole
<1>5. ASSUME NEW a \in User, NEW u \in User, NEW r \in exists, AssignRole(p, a, u, r)
      PROVE  TypeOK'
    <2>1. [NoRequest EXCEPT !.op = "assign", !.pc = "actor", !.actor = a,
                            !.role = r, !.user = u] \in Request
        BY DEF TypeOK, NoRequest, Request, Op, Pc
    <2> QED
        BY <1>5, <2>1, BeginTyped DEF AssignRole
<1>6. ASSUME NEW a \in User, NEW u \in User, NEW r \in exists, RevokeRole(p, a, u, r)
      PROVE  TypeOK'
    <2>1. [NoRequest EXCEPT !.op = "revoke", !.pc = "actor", !.actor = a,
                            !.role = r, !.user = u] \in Request
        BY DEF TypeOK, NoRequest, Request, Op, Pc
    <2> QED
        BY <1>6, <2>1, BeginTyped DEF RevokeRole
<1>7. ASSUME NEW r \in exists, GetRolePermissions(p, r)
      PROVE  TypeOK'
    <2>1. [NoRequest EXCEPT !.op = "update", !.pc = "loading", !.role = r,
                            !.fresh = TRUE] \in Request
        BY DEF TypeOK, NoRequest, Request, Op, Pc
    <2> QED
        BY <1>7, <2>1 DEF GetRolePermissions, TypeOK, tables, locks
<1> QED
    BY <1>1, <1>2, <1>3, <1>4, <1>5, <1>6, <1>7 DEF Arrive

LEMMA StepTyped ==
    ASSUME TypeOK, NEW p \in Proc, Carries(p), Step(p)
    PROVE  TypeOK'
<1>1. req[p] \in Request
    BY DEF TypeOK
<1>2. CASE ReadCodes(p)
    <2>1. [req[p] EXCEPT !.pc = "loaded", !.seen = perms[req[p].role]] \in Request
        <3>1. perms[req[p].role] \in SUBSET Perm
            BY <1>2 DEF TypeOK, ReadCodes, At, Carries, Cargo, Role, Request
        <3> QED
            BY <1>1, <3>1 DEF Request, Pc
    <2> QED
        BY <1>2, <2>1 DEF ReadCodes, TypeOK, tables, locks
<1>3. CASE ActorAccessTx(p)
    <2> DEFINE R == holds[req[p].actor]
    <2>1. req[p].actor \in User /\ R \in SUBSET Role
        BY <1>3 DEF ActorAccessTx, At, Carries, ActorHeld, Running, TypeOK
    <2>2. Authenticated(p, R) \in Request
        BY <1>1, <2>1, PermsOfTyped, TrustedFields, ChosenFields DEF Authenticated, Pc
    <2>3. CASE Refuse(p)
        BY <2>3, RefuseTyped
    <2>4. CASE ~Refuse(p)
        BY <1>3, <2>1, <2>2, <2>4 DEF ActorAccessTx, TypeOK, tables
    <2> QED
        BY <2>3, <2>4
<1>4. CASE RoleForUpdateTx(p)
    <2>1. CASE Refuse(p)
        BY <2>1, RefuseTyped
    <2>2. CASE ~Refuse(p)
        <3>1. [req[p] EXCEPT !.pc = "target"] \in Request /\ ReadyToCommit(req[p]) \in Request
            BY <1>1, ChosenFields, ReadyFields DEF Pc
        <3> QED
            BY <1>4, <2>2, <3>1 DEF RoleForUpdateTx, TypeOK, tables
    <2> QED
        BY <2>1, <2>2
<1>5. CASE UserExistsTx(p)
    <2>1. CASE Refuse(p)
        BY <2>1, RefuseTyped
    <2>2. CASE ~Refuse(p)
        BY <1>1, <1>5, <2>2, ReadyFields DEF UserExistsTx, TypeOK, tables
    <2> QED
        BY <2>1, <2>2
<1>6. CASE CommitCreate(p)
    BY <1>1, <1>6, FinishTyped, AnswerTyped DEF CommitCreate, TypeOK, Request, Role
<1>7. CASE CommitUpdate(p)
    <2>1. req' \in [Proc -> Request]
        BY <1>7, NoRequestTyped, StaleFields DEF CommitUpdate, TypeOK
    <2>2. req[p].role \in exists
        BY <1>7 DEF CommitUpdate, Committing, Carries, ChosenHeld, Chosen
    <2> QED
        BY <1>1, <1>7, <2>1, <2>2, FinishTyped DEF CommitUpdate, TypeOK, Request
<1>8. CASE CommitDelete(p)
    <2>1. req[p].role \notin System
        BY <1>8 DEF CommitDelete, Committing, Carries, RoleAllowed, Chosen
    <2> QED
        BY <1>8, <2>1, FinishTyped, AnswerTyped DEF CommitDelete, TypeOK
<1>9. CASE CommitAssign(p)
    <2>1. req[p].role \in exists
        BY <1>9 DEF CommitAssign, Committing, Carries, ChosenHeld, Chosen
    <2> QED
        BY <1>9, <2>1, FinishTyped, AnswerTyped DEF CommitAssign, TypeOK
<1>10. CASE CommitRevoke(p)
    BY <1>10, FinishTyped, AnswerTyped DEF CommitRevoke, TypeOK
<1>11. CASE Abort(p)
    BY <1>11, RefuseTyped DEF Abort
<1> QED
    BY <1>2, <1>3, <1>4, <1>5, <1>6, <1>7, <1>8, <1>9, <1>10, <1>11 DEF Step

LEMMA TypeStep ==
    ASSUME TypeOK, ReqInv, [Next]_vars
    PROVE  TypeOK'
<1>1. ASSUME NEW u \in User, NEW r \in Invited, AcceptInvitation(u, r)
      PROVE  TypeOK'
    BY <1>1 DEF AcceptInvitation, TypeOK, locks
<1>2. CASE UNCHANGED vars
    BY <1>2 DEF TypeOK, vars
<1> QED
    BY <1>1, <1>2, ArriveTyped, StepTyped DEF Next, ReqInv

-----------------------------------------------------------------------------
\* What a step of somebody else leaves to q: its locks, and the tables as far
\* as its locks reach.  A deleted role is taken from users q has locked, too.
Frame(q) ==
    /\ \A u \in User : userLock[u] = q => userLock'[u] = q /\ holds'[u] \subseteq holds[u]
    /\ \A r \in Role : roleLock[r] = q =>
        /\ roleLock'[r] = q
        /\ perms'[r] = perms[r]
        /\ r \in exists' <=> r \in exists
        /\ \A v \in User : r \in holds'[v] <=> r \in holds[v]
    /\ used \subseteq used' /\ disabled' = disabled
    /\ \A r \in System \cup used :
        /\ r \in exists' => r \in exists
        /\ (r \in exists' /\ perms'[r] # perms[r] /\ req[q].role = r) => ~req'[q].fresh
    /\ req'[q] = req[q] \/ req'[q] = [req[q] EXCEPT !.fresh = FALSE]

LEMMA FrameFields ==
    ASSUME TypeOK, NEW q \in Proc, Frame(q)
    PROVE  /\ req'[q].pc = req[q].pc /\ req'[q].op = req[q].op
           /\ req'[q].actor = req[q].actor /\ req'[q].role = req[q].role
           /\ req'[q].user = req[q].user /\ req'[q].codes = req[q].codes
           /\ req'[q].held = req[q].held /\ req'[q].can = req[q].can
           /\ req'[q].seen = req[q].seen /\ req'[q].conditional = req[q].conditional
           /\ req'[q].fresh => req[q].fresh
<1>1. req[q] \in Request
    BY DEF TypeOK
<1> QED
    BY <1>1, StaleFields DEF Frame

\* The permissions of a set of roles that q has locked.
LEMMA LockedPerms ==
    ASSUME NEW q \in Proc, Frame(q), NEW R \in SUBSET Role,
           \A r \in R : roleLock[r] = q
    PROVE  UNION {perms'[r] : r \in R} = PermsOf(R)
    BY DEF Frame, PermsOf

\* What q has checked outlasts such a step.
LEMMA FrameKeeps ==
    ASSUME TypeOK, TypeOK', NEW q \in Proc, Carries(q), Frame(q)
    PROVE  Carries(q)'
<1> DEFINE R == holds[req[q].actor]
           r == req[q].role
           u == req[q].user
<1>1. /\ req'[q].pc = req[q].pc /\ req'[q].op = req[q].op
      /\ req'[q].actor = req[q].actor /\ req'[q].role = req[q].role
      /\ req'[q].user = req[q].user /\ req'[q].codes = req[q].codes
      /\ req'[q].held = req[q].held /\ req'[q].can = req[q].can
      /\ req'[q].seen = req[q].seen /\ req'[q].conditional = req[q].conditional
      /\ req'[q].fresh => req[q].fresh
    BY FrameFields
<1>2. ActorHeld(q)'
    BY <1>1 DEF Carries, ActorHeld, Running, Frame
<1>3. ASSUME Trusted(q)
      PROVE  /\ req[q].actor \in User /\ R \in SUBSET Role
             /\ holds'[req'[q].actor] = R
             /\ PermsOf(holds[req[q].actor])' = PermsOf(R)
             /\ \A h \in R : roleLock[h] = q
    <2>1. req[q].actor \in User /\ userLock[req[q].actor] = q
        BY <1>3 DEF Carries, ActorHeld, Running, Trusted
    <2>2. \A h \in R : roleLock[h] = q
        BY <1>3 DEF Carries, RolesHeld
    <2>3. R \in SUBSET Role
        BY <2>1 DEF TypeOK
    <2>4. holds'[req[q].actor] = R
        BY <2>1, <2>2, <2>3 DEF Frame
    <2>5. PermsOf(holds[req[q].actor])' = PermsOf(R)
        <3>1. UNION {perms'[h] : h \in R} = PermsOf(R)
            BY <2>2, <2>3, LockedPerms
        <3> QED
            BY <1>1, <2>4, <3>1 DEF PermsOf
    <2> QED
        BY <1>1, <2>1, <2>2, <2>3, <2>4, <2>5
<1>4. RolesHeld(q)'
    BY <1>1, <1>3 DEF Carries, RolesHeld, Trusted, Frame
<1>5. ReadRight(q)'
    BY <1>1, <1>3 DEF Carries, ReadRight, Trusted
<1>6. Cargo(q)'
    BY <1>1 DEF Carries, Cargo, Running, At, Frame
<1>7. ASSUME Chosen(q)
      PROVE  /\ r \in exists /\ r \in exists' /\ roleLock[r] = q /\ roleLock'[r] = q
             /\ perms'[r] = perms[r] /\ Trusted(q)
             /\ \A v \in User : r \in holds'[v] <=> r \in holds[v]
    <2>1. r \in exists /\ roleLock[r] = q /\ r \in Role
        BY <1>7 DEF Carries, ChosenHeld, TypeOK
    <2> QED
        BY <1>7, <2>1 DEF Frame, Chosen, Trusted, At
<1>8. ChosenHeld(q)'
    BY <1>1, <1>7 DEF ChosenHeld, Chosen, At
<1>9. ASSUME Aimed(q)
      PROVE  u \in User /\ userLock[u] = q /\ userLock'[u] = q /\ holds'[u] \subseteq holds[u]
    <2>1. u \in User /\ userLock[u] = q
        BY <1>9 DEF Carries, TargetHeld, Aimed, Cargo, TypeOK, Request
    <2> QED
        BY <2>1 DEF Frame
<1>10. TargetHeld(q)'
    BY <1>1, <1>9 DEF TargetHeld, Aimed, At
<1>11. ShownIsCurrent(q)'
    <2>1. r # None => r \in System \cup used
        BY DEF Carries, Cargo
    <2>2. None \notin exists'
        BY RolesAssumption DEF TypeOK
    <2> QED
        BY <1>1, <2>1, <2>2 DEF Carries, ShownIsCurrent, Frame
<1>12. RoleAllowed(q)'
    BY <1>1, <1>3, <1>7 DEF Carries, RoleAllowed, Chosen, At, MayGive, MayTake, Outranks
<1>13. CreateAllowed(q)'
    BY <1>1, <1>3 DEF Carries, CreateAllowed, At, MayCreate, Trusted
<1>14. TargetAllowed(q)'
    <2> SUFFICES ASSUME Aimed(q)'
                 PROVE  LET S == holds'[req[q].actor]
                        IN  /\ "owner" \in S \/ Outranks(S, holds'[u])
                            /\ req[q].op = "revoke" =>
                                 /\ r \in holds'[u]
                                 /\ r = "owner" => OtherOwners(u)' # {}
        BY <1>1 DEF TargetAllowed
    <2>1. Aimed(q) /\ Chosen(q) /\ Trusted(q)
        BY <1>1 DEF Aimed, Chosen, Trusted, At
    <2>2. "owner" \in R \/ Outranks(R, holds'[u])
        BY <2>1, <1>9 DEF Carries, TargetAllowed, Outranks
    <2>3. ASSUME req[q].op = "revoke"
          PROVE  /\ r \in holds'[u]
                 /\ r = "owner" => OtherOwners(u)' # {}
        <3>1. r \in holds[u] /\ (r = "owner" => OtherOwners(u) # {})
            BY <2>1, <2>3 DEF Carries, TargetAllowed
        <3>2. \A v \in User : r \in holds'[v] <=> r \in holds[v]
            BY <1>7, <2>1
        <3>3. disabled' = disabled /\ req'[q].user = req[q].user
            BY <1>1 DEF Frame
        <3> QED
            BY <1>9, <2>1, <3>1, <3>2, <3>3 DEF OtherOwners
    <2>4. holds'[req[q].actor] = R
        BY <1>1, <1>3, <2>1
    <2> QED
        BY <2>1, <2>2, <2>3, <2>4
<1> QED
    BY <1>2, <1>4, <1>5, <1>6, <1>8, <1>10, <1>11, <1>12, <1>13, <1>14 DEF Carries

-----------------------------------------------------------------------------
\* Every step of p, and of the environment, leaves q its frame.

\* A step of p that writes no table.
LEMMA QuietFrame ==
    ASSUME TypeOK, NEW p \in Proc, NEW q \in Proc \ {p}, NEW r,
           UNCHANGED tables, req' = [req EXCEPT ![p] = r],
           \A u \in User : userLock[u] = q => userLock'[u] = q,
           \A s \in Role : roleLock[s] = q => roleLock'[s] = q
    PROVE  Frame(q)
    BY DEF Frame, tables, TypeOK

LEMMA FinishFrame ==
    ASSUME TypeOK, NEW p \in Proc, NEW q \in Proc \ {p}, Finish(p)
    PROVE  /\ \A u \in User : userLock[u] = q => userLock'[u] = q
           /\ \A r \in Role : roleLock[r] = q => roleLock'[r] = q
    BY DEF Finish

LEMMA RefuseFrame ==
    ASSUME TypeOK, NEW p \in Proc, NEW q \in Proc \ {p}, Refuse(p)
    PROVE  Frame(q)
    BY QuietFrame, FinishFrame DEF Refuse, Answer

LEMMA BeginFrame ==
    ASSUME TypeOK, NEW p \in Proc, NEW q \in Proc \ {p}, NEW a \in User, NEW r,
           Begin(p, a, r)
    PROVE  Frame(q)
<1>1. None # q
    BY RolesAssumption
<1>2. \A u \in User : userLock[u] = q => userLock'[u] = q
    BY <1>1 DEF Begin, TypeOK
<1> QED
    BY <1>2, QuietFrame DEF Begin

LEMMA ArriveFrame ==
    ASSUME TypeOK, NEW p \in Proc, NEW q \in Proc \ {p}, Arrive(p)
    PROVE  Frame(q)
<1>1. ASSUME NEW a \in User, NEW r, Begin(p, a, r)
      PROVE  Frame(q)
    BY <1>1, BeginFrame
<1>2. ASSUME NEW r \in exists, GetRolePermissions(p, r)
      PROVE  Frame(q)
    BY <1>2, QuietFrame DEF GetRolePermissions, locks
<1> QED
    BY <1>1, <1>2 DEF Arrive, CreateRole, UpdateIfUnchanged, UpdateRolePermissions,
       DeleteRole, AssignRole, RevokeRole

LEMMA StepFrame ==
    ASSUME TypeOK, LocksExist, NEW p \in Proc, NEW q \in Proc \ {p}, Carries(p), Step(p)
    PROVE  Frame(q)
<1> USE RolesAssumption
<1>1. CASE ReadCodes(p)
    BY <1>1, QuietFrame DEF ReadCodes, locks
<1>2. CASE ActorAccessTx(p)
    <2>1. CASE Refuse(p)
        BY <2>1, RefuseFrame
    <2>2. CASE ~Refuse(p)
        <3> DEFINE R == holds[req[p].actor]
        <3>1. /\ \A r \in R : roleLock[r] = None
              /\ roleLock' = [r \in Role |-> IF r \in R THEN p ELSE roleLock[r]]
              /\ req' = [req EXCEPT ![p] = Authenticated(p, R)]
              /\ UNCHANGED <<tables, userLock>>
            BY <1>2, <2>2 DEF ActorAccessTx
        <3> HIDE DEF R
        <3>2. \A s \in Role : roleLock[s] = q => roleLock'[s] = q
            BY <3>1
        <3> QED
            BY <3>1, <3>2, QuietFrame
    <2> QED
        BY <2>1, <2>2
<1>3. CASE RoleForUpdateTx(p)
    <2>1. CASE Refuse(p)
        BY <2>1, RefuseFrame
    <2>2. CASE ~Refuse(p)
        <3>1. \A s \in Role : roleLock[s] = q => roleLock'[s] = q
            BY <1>3, <2>2 DEF RoleForUpdateTx, TypeOK
        <3> QED
            BY <1>3, <2>2, <3>1, QuietFrame DEF RoleForUpdateTx
    <2> QED
        BY <2>1, <2>2
<1>4. CASE UserExistsTx(p)
    <2>1. CASE Refuse(p)
        BY <2>1, RefuseFrame
    <2>2. CASE ~Refuse(p)
        <3>1. \A u \in User : userLock[u] = q => userLock'[u] = q
            BY <1>4, <2>2 DEF UserExistsTx, TypeOK
        <3> QED
            BY <1>4, <2>2, <3>1, QuietFrame DEF UserExistsTx
    <2> QED
        BY <2>1, <2>2
<1>5. CASE CommitCreate(p)
    <2>1. PICK c \in Custom \ used :
            /\ exists' = exists \cup {c} /\ used' = used \cup {c}
            /\ perms' = [perms EXCEPT ![c] = req[p].codes]
        BY <1>5 DEF CommitCreate
    <2>2. Finish(p) /\ Answer(p) /\ UNCHANGED <<holds, disabled>>
        BY <1>5 DEF CommitCreate
    <2>3. c \in Role /\ c \notin exists /\ c \notin System
        BY <2>1 DEF Role, TypeOK
    <2>4. \A r \in Role : roleLock[r] = q =>
            perms'[r] = perms[r] /\ (r \in exists' <=> r \in exists)
        BY <2>1, <2>3 DEF TypeOK, LocksExist
    <2> QED
        BY <2>1, <2>2, <2>3, <2>4, FinishFrame DEF Frame, Answer, TypeOK
<1>6. CASE CommitUpdate(p)
    <2>1. req[p].role \in exists /\ roleLock[req[p].role] = p
        BY <1>6 DEF CommitUpdate, Committing, Carries, ChosenHeld, Chosen
    <2>2. IF req[q].role = req[p].role THEN req'[q] = [req[q] EXCEPT !.fresh = FALSE]
                                       ELSE req'[q] = req[q]
        BY <1>6 DEF CommitUpdate
    <2>3. req[q].role = req[p].role => ~req'[q].fresh
        BY <2>2, StaleFields DEF TypeOK
    <2> QED
        BY <1>6, <2>1, <2>2, <2>3, FinishFrame DEF CommitUpdate, Frame, TypeOK
<1>7. CASE CommitDelete(p)
    <2>1. req[p].role \in exists /\ roleLock[req[p].role] = p
        BY <1>7 DEF CommitDelete, Committing, Carries, ChosenHeld, Chosen
    <2> QED
        BY <1>7, <2>1, FinishFrame DEF CommitDelete, Frame, Answer, TypeOK
<1>8. CASE CommitAssign(p)
    <2>1. /\ req[p].role \in exists /\ roleLock[req[p].role] = p
          /\ userLock[req[p].user] = p
        BY <1>8 DEF CommitAssign, Committing, Carries, ChosenHeld, Chosen, TargetHeld, Aimed
    <2> QED
        BY <1>8, <2>1, FinishFrame DEF CommitAssign, Frame, Answer, TypeOK
<1>9. CASE CommitRevoke(p)
    <2>1. /\ req[p].role \in exists /\ roleLock[req[p].role] = p
          /\ userLock[req[p].user] = p
        BY <1>9 DEF CommitRevoke, Committing, Carries, ChosenHeld, Chosen, TargetHeld, Aimed
    <2> QED
        BY <1>9, <2>1, FinishFrame DEF CommitRevoke, Frame, Answer, TypeOK
<1>10. CASE Abort(p)
    BY <1>10, RefuseFrame DEF Abort
<1> QED
    BY <1>1, <1>2, <1>3, <1>4, <1>5, <1>6, <1>7, <1>8, <1>9, <1>10 DEF Step

LEMMA InvitationFrame ==
    ASSUME TypeOK, NEW q \in Proc, NEW u \in User, NEW r \in Invited, AcceptInvitation(u, r)
    PROVE  Frame(q)
    BY RolesAssumption DEF AcceptInvitation, Frame, locks, TypeOK

-----------------------------------------------------------------------------
\* The steps of p itself establish what it carries from then on.

LEMMA AnswerCarries ==
    ASSUME NEW p \in Proc, req'[p] = NoRequest
    PROVE  Carries(p)'
    BY DEF NoRequest, Carries, ActorHeld, RolesHeld, ReadRight, Cargo, ChosenHeld,
       TargetHeld, ShownIsCurrent, RoleAllowed, CreateAllowed, TargetAllowed, Running,
       Trusted, Chosen, Aimed, At

LEMMA RefuseCarries ==
    ASSUME TypeOK, NEW p \in Proc, Refuse(p)
    PROVE  Carries(p)'
    BY AnswerTyped, AnswerCarries DEF Refuse

\* A transaction that begins holds the actor's row and has read nothing.
LEMMA BeginCarries ==
    ASSUME TypeOK, NEW p \in Proc, NEW a \in User, NEW r \in Request, Begin(p, a, r),
           r.pc = "actor", r.actor = a, r.op # "none",
           r.role # None => r.role \in exists \/ r.role \in System \cup used,
           r.op \in {"update", "delete", "assign", "revoke"} => r.role # None,
           r.op \in {"assign", "revoke"} => r.user # None,
           r.fresh /\ r.role \in exists => perms[r.role] = r.seen
    PROVE  Carries(p)'
<1>1. /\ req'[p] = r /\ userLock'[a] = p
      /\ UNCHANGED <<exists, used, perms>>
    BY DEF Begin, TypeOK, tables
<1>2. r.role # None => r.role \in System \cup used
    BY DEF TypeOK
<1> QED
    BY <1>1, <1>2 DEF Carries, ActorHeld, RolesHeld, ReadRight, Cargo, ChosenHeld,
       TargetHeld, ShownIsCurrent, RoleAllowed, CreateAllowed, TargetAllowed, Running,
       Trusted, Chosen, Aimed, At

LEMMA ArriveCarries ==
    ASSUME TypeOK, NEW p \in Proc, Carries(p), Arrive(p)
    PROVE  Carries(p)'
<1> USE RolesAssumption
<1>1. ASSUME NEW a \in User, NEW codes \in SUBSET Perm,
             CreateRole(p, a, codes)
      PROVE  Carries(p)'
    <2> DEFINE g == [NoRequest EXCEPT !.op = "create", !.pc = "actor", !.actor = a,
                                      !.codes = codes]
    <2>1. /\ g \in Request /\ g.pc = "actor" /\ g.actor = a /\ g.op = "create"
          /\ g.role = None /\ g.user = None /\ g.fresh = FALSE
        BY DEF TypeOK, NoRequest, Request, Op, Pc
    <2>2. Begin(p, a, g)
        BY <1>1 DEF CreateRole
    <2>3. None \in exists \cup {None}
        OBVIOUS
    <2> HIDE DEF g
    <2> QED
        BY <2>1, <2>2, <2>3, BeginCarries DEF TypeOK
<1>2. ASSUME NEW a \in User, NEW r \in exists, NEW codes \in SUBSET Perm,
             UpdateRolePermissions(p, a, r, codes)
      PROVE  Carries(p)'
    <2> DEFINE g == [NoRequest EXCEPT !.op = "update", !.pc = "actor", !.actor = a,
                                      !.role = r, !.codes = codes]
    <2>1. /\ g \in Request /\ g.pc = "actor" /\ g.actor = a /\ g.op = "update"
          /\ g.role = r /\ g.user = None /\ g.fresh = FALSE
        BY DEF TypeOK, NoRequest, Request, Op, Pc
    <2>2. Begin(p, a, g)
        BY <1>2 DEF UpdateRolePermissions
    <2>3. r \in exists \cup {None}
        OBVIOUS
    <2> HIDE DEF g
    <2> QED
        BY <2>1, <2>2, <2>3, BeginCarries DEF TypeOK
<1>3. ASSUME NEW a \in User, NEW r \in exists,
             DeleteRole(p, a, r)
      PROVE  Carries(p)'
    <2> DEFINE g == [NoRequest EXCEPT !.op = "delete", !.pc = "actor", !.actor = a,
                                      !.role = r]
    <2>1. /\ g \in Request /\ g.pc = "actor" /\ g.actor = a /\ g.op = "delete"
          /\ g.role = r /\ g.user = None /\ g.fresh = FALSE
        BY DEF TypeOK, NoRequest, Request, Op, Pc
    <2>2. Begin(p, a, g)
        BY <1>3 DEF DeleteRole
    <2>3. r \in exists \cup {None}
        OBVIOUS
    <2> HIDE DEF g
    <2> QED
        BY <2>1, <2>2, <2>3, BeginCarries DEF TypeOK
<1>4. ASSUME NEW a \in User, NEW u \in User, NEW r \in exists,
             AssignRole(p, a, u, r)
      PROVE  Carries(p)'
    <2> DEFINE g == [NoRequest EXCEPT !.op = "assign", !.pc = "actor", !.actor = a,
                                      !.role = r, !.user = u]
    <2>1. /\ g \in Request /\ g.pc = "actor" /\ g.actor = a /\ g.op = "assign"
          /\ g.role = r /\ g.user = u /\ g.fresh = FALSE
        BY DEF TypeOK, NoRequest, Request, Op, Pc
    <2>2. Begin(p, a, g)
        BY <1>4 DEF AssignRole
    <2>3. r \in exists \cup {None}
        OBVIOUS
    <2> HIDE DEF g
    <2> QED
        BY <2>1, <2>2, <2>3, BeginCarries DEF TypeOK
<1>5. ASSUME NEW a \in User, NEW u \in User, NEW r \in exists,
             RevokeRole(p, a, u, r)
      PROVE  Carries(p)'
    <2> DEFINE g == [NoRequest EXCEPT !.op = "revoke", !.pc = "actor", !.actor = a,
                                      !.role = r, !.user = u]
    <2>1. /\ g \in Request /\ g.pc = "actor" /\ g.actor = a /\ g.op = "revoke"
          /\ g.role = r /\ g.user = u /\ g.fresh = FALSE
        BY DEF TypeOK, NoRequest, Request, Op, Pc
    <2>2. Begin(p, a, g)
        BY <1>5 DEF RevokeRole
    <2>3. r \in exists \cup {None}
        OBVIOUS
    <2> HIDE DEF g
    <2> QED
        BY <2>1, <2>2, <2>3, BeginCarries DEF TypeOK
<1>6. ASSUME NEW a \in User, NEW codes \in SUBSET Perm, UpdateIfUnchanged(p, a, codes)
      PROVE  Carries(p)'
    <2> DEFINE g == [req[p] EXCEPT !.pc = "actor", !.actor = a, !.codes = codes,
                                   !.conditional = TRUE]
    <2>1. /\ g \in Request /\ g.pc = "actor" /\ g.actor = a /\ g.op = req[p].op
          /\ g.role = req[p].role /\ g.user = req[p].user /\ g.seen = req[p].seen
          /\ g.fresh = req[p].fresh
        <3>1. req[p] \in Request
            BY DEF TypeOK
        <3> QED
            BY <3>1 DEF Request, Pc
    <2>2. Begin(p, a, g) /\ At(p, "loaded") /\ req[p].op = "update"
        BY <1>6 DEF UpdateIfUnchanged, Carries, Cargo, At
    <2>3. g.fresh /\ g.role \in exists => perms[g.role] = g.seen
        BY <2>1, <2>2 DEF Carries, ShownIsCurrent, At
    <2>4. /\ g.role # None => g.role \in System \cup used
          /\ g.op = "update" => g.role # None
        BY <2>1, <2>2 DEF Carries, Cargo, At
    <2> HIDE DEF g
    <2> QED
        BY <2>1, <2>2, <2>3, <2>4, BeginCarries
<1>7. ASSUME NEW r \in exists, GetRolePermissions(p, r)
      PROVE  Carries(p)'
    <2>1. /\ req'[p].pc = "loading" /\ req'[p].op = "update" /\ req'[p].role = r
          /\ exists' = exists /\ used' = used
        BY <1>7 DEF GetRolePermissions, NoRequest, TypeOK, tables
    <2>2. r \in System \cup used /\ r # None
        BY DEF TypeOK
    <2> QED
        BY <2>1, <2>2 DEF Carries, ActorHeld, RolesHeld, ReadRight, Cargo, ChosenHeld,
           TargetHeld, ShownIsCurrent, RoleAllowed, CreateAllowed, TargetAllowed, Running,
           Trusted, Chosen, Aimed, At
<1> QED
    BY <1>1, <1>2, <1>3, <1>4, <1>5, <1>6, <1>7 DEF Arrive

\* What ActorAccessTx reads of the actor it has locked.
LEMMA ActorAccessCarries ==
    ASSUME TypeOK, NEW p \in Proc, Carries(p), ActorAccessTx(p), ~Refuse(p)
    PROVE  Carries(p)'
<1> DEFINE R == holds[req[p].actor]
<1>1. /\ ~Refused(p, R)
      /\ roleLock' = [r \in Role |-> IF r \in R THEN p ELSE roleLock[r]]
      /\ req'[p] = Authenticated(p, R)
      /\ UNCHANGED <<exists, used, perms, holds, disabled, userLock>>
    BY DEF ActorAccessTx, tables, TypeOK
<1>2. /\ req[p] \in Request /\ req[p].actor \in User /\ R \in SUBSET Role
      /\ userLock[req[p].actor] = p
    BY DEF ActorAccessTx, At, Carries, ActorHeld, Running, TypeOK
<1>3. \A r \in R : roleLock'[r] = p
    BY <1>1, <1>2
<1>4. At(p, "actor") /\ req[p].op # "none"
    BY DEF ActorAccessTx, Carries, Cargo, At, Running
<1>5. PermsOf(R) \in SUBSET Perm
    BY <1>2, PermsOfTyped
<1>6. CASE req[p].op = "create"
    <2>1. req'[p] = [req[p] EXCEPT !.pc = "commit"]
        BY <1>1, <1>6 DEF Authenticated
    <2>2. /\ req'[p].pc = "commit" /\ req'[p].op = "create"
          /\ req'[p].actor = req[p].actor /\ req'[p].role = req[p].role
          /\ req'[p].user = req[p].user /\ req'[p].codes = req[p].codes
        BY <1>2, <1>6, <2>1, ChosenFields DEF Pc
    <2>3. MayCreate(R, req[p].codes)
        BY <1>1, <1>6 DEF Refused
    <2>4. MayCreate(holds[req[p].actor], req[p].codes)'
        BY <1>1, <2>2, <2>3 DEF MayCreate, PermsOf
    <2> QED
        BY <1>1, <1>2, <1>3, <2>2, <2>4 DEF Carries, ActorHeld, RolesHeld, ReadRight, Cargo,
           ChosenHeld, TargetHeld, ShownIsCurrent, RoleAllowed, CreateAllowed,
           TargetAllowed, Running, Trusted, Chosen, Aimed, At
<1>7. CASE req[p].op # "create"
    <2>1. req'[p] = [req[p] EXCEPT !.pc = "role", !.held = R, !.can = PermsOf(R)]
        BY <1>1, <1>7 DEF Authenticated
    <2>2. /\ req'[p].pc = "role" /\ req'[p].op = req[p].op
          /\ req'[p].actor = req[p].actor /\ req'[p].role = req[p].role
          /\ req'[p].user = req[p].user /\ req'[p].codes = req[p].codes
          /\ req'[p].held = R /\ req'[p].can = PermsOf(R)
          /\ req'[p].seen = req[p].seen /\ req'[p].fresh = req[p].fresh
        <3> DEFINE C == PermsOf(R)
        <3>1. C \in SUBSET Perm /\ req'[p] = [req[p] EXCEPT !.pc = "role", !.held = R, !.can = C]
            BY <1>5, <2>1
        <3> HIDE DEF C, R
        <3>2. req[p] \in Request /\ R \in SUBSET Role
            BY <1>2
        <3>3. /\ req'[p].pc = "role" /\ req'[p].op = req[p].op
              /\ req'[p].actor = req[p].actor /\ req'[p].role = req[p].role
              /\ req'[p].user = req[p].user /\ req'[p].codes = req[p].codes
              /\ req'[p].held = R /\ req'[p].can = C
              /\ req'[p].seen = req[p].seen /\ req'[p].fresh = req[p].fresh
            BY <3>1, <3>2 DEF Request, Pc
        <3> QED
            BY <3>3 DEF C
    <2>3. PermsOf(holds[req[p].actor])' = PermsOf(R)
        BY <1>1, <2>2 DEF PermsOf
    <2> QED
        BY <1>1, <1>2, <1>3, <1>4, <1>7, <2>2, <2>3 DEF Carries, ActorHeld, RolesHeld,
           ReadRight, Cargo, ChosenHeld, TargetHeld, ShownIsCurrent, RoleAllowed,
           CreateAllowed, TargetAllowed, Running, Trusted, Chosen, Aimed, At
<1> QED
    BY <1>6, <1>7

\* What RoleForUpdateTx finds of the role it has locked.
LEMMA RoleForUpdateCarries ==
    ASSUME TypeOK, NEW p \in Proc, Carries(p), RoleForUpdateTx(p), ~Refuse(p)
    PROVE  Carries(p)'
<1> DEFINE R == holds[req[p].actor]
           r == req[p].role
           g == IF req[p].op \in {"assign", "revoke"}
                THEN [req[p] EXCEPT !.pc = "target"] ELSE ReadyToCommit(req[p])
<1>1. /\ r \in exists /\ RoleAuthorized(p)
      /\ roleLock' = [roleLock EXCEPT ![r] = p]
      /\ req'[p] = g
      /\ UNCHANGED <<exists, used, perms, holds, disabled, userLock>>
    BY DEF RoleForUpdateTx, tables, TypeOK
<1>2. /\ req[p] \in Request /\ r \in Role /\ req[p].actor \in User /\ R \in SUBSET Role
      /\ userLock[req[p].actor] = p /\ At(p, "role")
    BY <1>1 DEF RoleForUpdateTx, At, Carries, ActorHeld, Running, TypeOK
<1>3. /\ req'[p].op = req[p].op /\ req'[p].actor = req[p].actor /\ req'[p].role = r
      /\ req'[p].user = req[p].user /\ req'[p].codes = req[p].codes
      /\ req'[p].seen = req[p].seen /\ req'[p].conditional = req[p].conditional
      /\ IF req[p].op \in {"assign", "revoke"}
         THEN req'[p].pc = "target" /\ req'[p].held = req[p].held /\ req'[p].can = req[p].can
         ELSE req'[p].pc = "commit"
    <2>1. CASE req[p].op \in {"assign", "revoke"}
        <3>1. req'[p] = [req[p] EXCEPT !.pc = "target"] /\ "target" \in Pc
            BY <1>1, <2>1 DEF Pc
        <3> QED
            BY <1>2, <2>1, <3>1, ChosenFields
    <2>2. CASE req[p].op \notin {"assign", "revoke"}
        <3>1. req'[p] = ReadyToCommit(req[p])
            BY <1>1, <2>2
        <3> QED
            BY <1>2, <2>2, <3>1, ReadyFields
    <2> QED
        BY <2>1, <2>2
<1>4. roleLock'[r] = p /\ \A s \in R : roleLock'[s] = p
    BY <1>1, <1>2 DEF Carries, RolesHeld, Trusted, At, TypeOK
<1>5. req[p].held = R /\ req[p].can = PermsOf(R)
    BY <1>2 DEF Carries, ReadRight, At
<1>6. /\ req[p].op = "update" =>
            /\ MayGive(R, r, req[p].codes)
            /\ r = "owner" => OrgManage \in req[p].codes
            /\ req[p].conditional => perms[r] = req[p].seen
      /\ req[p].op = "delete" => r \notin System /\ MayTake(R, r)
      /\ req[p].op = "assign" => MayGive(R, r, perms[r])
      /\ req[p].op = "revoke" => MayTake(R, r)
    <2>1. /\ req[p].op = "update" =>
                /\ req[p].conditional => req[p].fresh
                /\ MayDelegate(p, r, req[p].codes)
                /\ r = "owner" => OrgManage \in req[p].codes
          /\ req[p].op = "delete" => r \notin System /\ MayControl(p, r, perms[r])
          /\ req[p].op = "assign" => MayDelegate(p, r, perms[r])
          /\ req[p].op = "revoke" => MayControl(p, r, perms[r])
        BY <1>1 DEF RoleAuthorized
    <2>2. req[p].fresh => perms[r] = req[p].seen
        BY <1>1, <1>2 DEF Carries, ShownIsCurrent, At
    <2>3. \A codes : /\ MayDelegate(p, r, codes) => MayGive(R, r, codes)
                     /\ MayControl(p, r, codes) => MayTake(R, r)
        BY <1>5 DEF MayDelegate, MayControl, MayGive, MayTake, IsOwner
    <2> QED
        BY <2>1, <2>2, <2>3
<1>7. holds'[req'[p].actor] = R /\ PermsOf(holds[req[p].actor])' = PermsOf(R)
    BY <1>1, <1>3 DEF PermsOf
<1>8. RoleAllowed(p)'
    BY <1>1, <1>3, <1>6, <1>7 DEF RoleAllowed, MayGive, MayTake, PermsOf
<1>9. Cargo(p)'
    BY <1>1, <1>2, <1>3 DEF Carries, Cargo, Running, At
<1>10. req[p].op \in {"update", "delete", "assign", "revoke"}
    BY <1>2 DEF Carries, Cargo, Running, At, Request, Op
<1> HIDE DEF R, r, g
<1>11. ActorHeld(p)' /\ RolesHeld(p)' /\ ChosenHeld(p)'
    BY <1>1, <1>2, <1>3, <1>4, <1>7 DEF ActorHeld, RolesHeld, ChosenHeld
<1>12. ReadRight(p)'
    BY <1>3, <1>5, <1>7 DEF ReadRight
<1>13. TargetHeld(p)' /\ CreateAllowed(p)' /\ TargetAllowed(p)' /\ ShownIsCurrent(p)'
    BY <1>3, <1>10 DEF TargetHeld, CreateAllowed, TargetAllowed, ShownIsCurrent, Aimed, At
<1> QED
    BY <1>8, <1>9, <1>11, <1>12, <1>13 DEF Carries

\* What UserExistsTx finds of the user it has locked.
LEMMA UserExistsCarries ==
    ASSUME TypeOK, NEW p \in Proc, Carries(p), UserExistsTx(p), ~Refuse(p)
    PROVE  Carries(p)'
<1> DEFINE R == holds[req[p].actor]
           r == req[p].role
           u == req[p].user
<1>1. /\ TargetAuthorized(p) /\ At(p, "target")
      /\ userLock' = [userLock EXCEPT ![u] = p]
      /\ req'[p] = ReadyToCommit(req[p])
      /\ UNCHANGED <<exists, used, perms, holds, disabled, roleLock>>
    BY DEF UserExistsTx, tables, TypeOK
<1>2. /\ req[p] \in Request /\ u \in User /\ req[p].actor \in User
      /\ userLock[req[p].actor] = p /\ req[p].op \in {"assign", "revoke"}
    BY <1>1, RolesAssumption DEF At, Carries, ActorHeld, Running, Cargo, TypeOK, Request
<1>3. /\ req'[p].op = req[p].op /\ req'[p].actor = req[p].actor /\ req'[p].role = r
      /\ req'[p].user = u /\ req'[p].codes = req[p].codes /\ req'[p].pc = "commit"
      /\ req'[p].conditional = req[p].conditional
    BY <1>1, <1>2, ReadyFields
<1>4. userLock'[req[p].actor] = p /\ userLock'[u] = p
    BY <1>1, <1>2 DEF TypeOK
<1>5. /\ "owner" \in R \/ Outranks(R, holds[u])
      /\ req[p].op = "revoke" =>
            r \in holds[u] /\ (r = "owner" => OtherOwners(u) # {})
    BY <1>1 DEF TargetAuthorized, IsOwner, Carries, ReadRight, At
<1>6. PermsOf(holds[req[p].actor])' = PermsOf(R)
    BY <1>1, <1>3 DEF PermsOf
<1>7. RoleAllowed(p)
    BY DEF Carries
<1>8. RoleAllowed(p)'
    BY <1>1, <1>2, <1>3, <1>6, <1>7 DEF RoleAllowed, Chosen, At, MayGive, MayTake
<1>9. TargetAllowed(p)'
    BY <1>1, <1>3, <1>5 DEF TargetAllowed, OtherOwners
<1>10. Cargo(p)'
    BY <1>1, <1>2, <1>3 DEF Carries, Cargo, Running, At
<1>11. ActorHeld(p)' /\ RolesHeld(p)' /\ ChosenHeld(p)' /\ TargetHeld(p)'
    BY <1>1, <1>2, <1>3, <1>4 DEF Carries, ActorHeld, RolesHeld, ChosenHeld, TargetHeld,
       Trusted, Chosen, At
<1>12. ReadRight(p)' /\ CreateAllowed(p)' /\ ShownIsCurrent(p)'
    BY <1>2, <1>3 DEF ReadRight, CreateAllowed, ShownIsCurrent, At
<1> QED
    BY <1>8, <1>9, <1>10, <1>11, <1>12 DEF Carries

LEMMA StepCarries ==
    ASSUME TypeOK, NEW p \in Proc, Carries(p), Step(p)
    PROVE  Carries(p)'
<1>1. CASE ReadCodes(p)
    <2>1. req[p] \in Request
        BY DEF TypeOK
    <2>2. /\ req'[p].pc = "loaded" /\ req'[p].op = "update" /\ req'[p].role = req[p].role
          /\ req'[p].seen = perms[req[p].role]
          /\ exists' = exists /\ used' = used /\ perms' = perms
        BY <1>1, <2>1 DEF ReadCodes, At, tables, TypeOK, Carries, Cargo, Request
    <2>3. req[p].role # None /\ req[p].role \in System \cup used
        BY <1>1 DEF ReadCodes, At, Carries, Cargo
    <2> QED
        BY <2>2, <2>3 DEF Carries, ActorHeld, RolesHeld, ReadRight, Cargo, ChosenHeld,
           TargetHeld, ShownIsCurrent, RoleAllowed, CreateAllowed, TargetAllowed, Running, Trusted,
           Chosen, Aimed, At
<1>2. CASE ActorAccessTx(p)
    BY <1>2, ActorAccessCarries, RefuseCarries
<1>3. CASE RoleForUpdateTx(p)
    BY <1>3, RoleForUpdateCarries, RefuseCarries
<1>4. CASE UserExistsTx(p)
    BY <1>4, UserExistsCarries, RefuseCarries
<1>5. CASE CommitCreate(p) \/ CommitDelete(p) \/ CommitAssign(p) \/ CommitRevoke(p)
    BY <1>5, AnswerTyped, AnswerCarries DEF CommitCreate, CommitDelete, CommitAssign,
       CommitRevoke
<1>6. CASE CommitUpdate(p)
    BY <1>6, AnswerCarries DEF CommitUpdate
<1>7. CASE Abort(p)
    BY <1>7, RefuseCarries DEF Abort
<1> QED
    BY <1>1, <1>2, <1>3, <1>4, <1>5, <1>6, <1>7 DEF Step

-----------------------------------------------------------------------------
\* The inductive invariant

LEMMA InitInv == Init => IInv
<1> SUFFICES ASSUME Init PROVE IInv
    OBVIOUS
<1> USE RolesAssumption
<1>1. TypeOK
    BY NoRequestTyped DEF Init, TypeOK, Role, System
<1>2. ReqInv
    BY DEF Init, ReqInv, NoRequest, Carries, ActorHeld, RolesHeld, ReadRight, Cargo,
       ChosenHeld, TargetHeld, ShownIsCurrent, RoleAllowed, CreateAllowed, TargetAllowed,
       Running, Trusted, Chosen, Aimed, At
<1>3. LocksExist
    BY DEF Init, LocksExist
<1>4. OrgManageExclusive
    BY DEF Init, OrgManageExclusive, System, Role
<1>5. OwnerRemains
    BY DEF Init, OwnerRemains
<1> QED
    BY <1>1, <1>2, <1>3, <1>4, <1>5 DEF IInv

LEMMA ReqStep ==
    ASSUME TypeOK, ReqInv, LocksExist, [Next]_vars
    PROVE  ReqInv'
<1> SUFFICES ASSUME NEW q \in Proc PROVE Carries(q)'
    BY DEF ReqInv
<1>1. TypeOK' /\ Carries(q)
    BY TypeStep DEF ReqInv
<1>2. ASSUME NEW p \in Proc, Arrive(p) \/ Step(p)
      PROVE  Carries(q)'
    <2>1. Carries(p)
        BY DEF ReqInv
    <2>2. CASE p = q
        BY <1>2, <2>1, <2>2, ArriveCarries, StepCarries
    <2>3. CASE p # q
        <3>1. Frame(q)
            BY <1>2, <2>1, <2>3, ArriveFrame, StepFrame
        <3> QED
            BY <1>1, <3>1, FrameKeeps
    <2> QED
        BY <2>2, <2>3
<1>3. ASSUME NEW u \in User, NEW r \in Invited, AcceptInvitation(u, r)
      PROVE  Carries(q)'
    BY <1>1, <1>3, InvitationFrame, FrameKeeps
<1>4. CASE UNCHANGED vars
    <2>1. Frame(q)
        BY <1>4 DEF vars, Frame, TypeOK
    <2> QED
        BY <1>1, <2>1, FrameKeeps
<1> QED
    BY <1>2, <1>3, <1>4 DEF Next

\* The tables change at a commit and when somebody joins, and at no other step.
LEMMA WhoWrites ==
    ASSUME TypeOK, [Next]_vars
    PROVE  \/ UNCHANGED tables
           \/ \E p \in Proc : CommitCreate(p) \/ CommitUpdate(p) \/ CommitDelete(p)
                                \/ CommitAssign(p) \/ CommitRevoke(p)
           \/ \E u \in User, r \in Invited : AcceptInvitation(u, r)
<1>1. ASSUME NEW p \in Proc, Arrive(p)
      PROVE  UNCHANGED tables
    BY <1>1 DEF Arrive, CreateRole, UpdateIfUnchanged, UpdateRolePermissions, DeleteRole,
       AssignRole, RevokeRole, GetRolePermissions, Begin
<1>2. ASSUME NEW p \in Proc, ReadCodes(p) \/ ActorAccessTx(p) \/ RoleForUpdateTx(p)
                                \/ UserExistsTx(p) \/ Abort(p)
      PROVE  UNCHANGED tables
    BY <1>2 DEF ReadCodes, ActorAccessTx, RoleForUpdateTx, UserExistsTx, Abort, Refuse
<1>3. CASE UNCHANGED vars
    BY <1>3 DEF vars, tables
<1> QED
    BY <1>1, <1>2, <1>3 DEF Next, Step

LEMMA LocksStep ==
    ASSUME TypeOK, ReqInv, LocksExist, [Next]_vars
    PROVE  LocksExist'
<1> SUFFICES ASSUME NEW s \in Role, s \notin exists' PROVE roleLock'[s] = None
    BY DEF LocksExist
<1>1. ASSUME NEW p \in Proc, Finish(p), s \notin exists \/ roleLock[s] = p
      PROVE  roleLock'[s] = None
    BY <1>1 DEF Finish, LocksExist
<1>2. ASSUME NEW p \in Proc, Arrive(p)
      PROVE  roleLock'[s] = None
    BY <1>2 DEF Arrive, CreateRole, UpdateIfUnchanged, UpdateRolePermissions, DeleteRole,
       AssignRole, RevokeRole, GetRolePermissions, Begin, tables, locks, LocksExist
<1>3. ASSUME NEW p \in Proc, Step(p)
      PROVE  roleLock'[s] = None
    <2>1. Carries(p)
        BY DEF ReqInv
    <2>2. CASE ReadCodes(p)
        BY <2>2 DEF ReadCodes, tables, locks, LocksExist
    <2>3. CASE Refuse(p)
        BY <1>1, <2>3 DEF Refuse, tables
    <2>4. CASE ActorAccessTx(p) /\ ~Refuse(p)
        <3>1. holds[req[p].actor] \subseteq exists
            BY <2>1, <2>4 DEF ActorAccessTx, At, Carries, ActorHeld, Running, TypeOK
        <3> QED
            BY <2>4, <3>1 DEF ActorAccessTx, tables, LocksExist
    <2>5. CASE RoleForUpdateTx(p) /\ ~Refuse(p)
        BY <2>5 DEF RoleForUpdateTx, tables, LocksExist, TypeOK
    <2>6. CASE UserExistsTx(p) /\ ~Refuse(p)
        BY <2>6 DEF UserExistsTx, tables, LocksExist
    <2>7. CASE CommitCreate(p) \/ CommitUpdate(p) \/ CommitAssign(p) \/ CommitRevoke(p)
        BY <1>1, <2>7 DEF CommitCreate, CommitUpdate, CommitAssign, CommitRevoke
    <2>8. CASE CommitDelete(p)
        <3>1. roleLock[req[p].role] = p
            BY <2>1, <2>8 DEF CommitDelete, Committing, Carries, ChosenHeld, Chosen
        <3> QED
            BY <1>1, <2>8, <3>1 DEF CommitDelete
    <2> QED
        BY <1>3, <2>2, <2>3, <2>4, <2>5, <2>6, <2>7, <2>8 DEF Step, Abort
<1>4. ASSUME NEW u \in User, NEW r \in Invited, AcceptInvitation(u, r)
      PROVE  roleLock'[s] = None
    BY <1>4 DEF AcceptInvitation, locks, LocksExist
<1>5. CASE UNCHANGED vars
    BY <1>5 DEF vars, LocksExist
<1> QED
    BY <1>2, <1>3, <1>4, <1>5 DEF Next

LEMMA OrgManageStep ==
    ASSUME TypeOK, ReqInv, OrgManageExclusive, [Next]_vars
    PROVE  OrgManageExclusive'
<1>1. CASE UNCHANGED tables
    BY <1>1 DEF tables, OrgManageExclusive
<1>2. ASSUME NEW p \in Proc, CommitCreate(p)
      PROVE  OrgManageExclusive'
    <2>1. OrgManage \notin req[p].codes
        BY <1>2 DEF CommitCreate, Committing, ReqInv, Carries, CreateAllowed, MayCreate
    <2>2. PICK c \in Custom \ used :
            exists' = exists \cup {c} /\ perms' = [perms EXCEPT ![c] = req[p].codes]
        BY <1>2 DEF CommitCreate
    <2>3. c \in Role /\ c # "owner"
        BY RolesAssumption DEF Role, System
    <2> QED
        BY <2>1, <2>2, <2>3 DEF OrgManageExclusive, TypeOK
<1>3. ASSUME NEW p \in Proc, CommitUpdate(p)
      PROVE  OrgManageExclusive'
    <2>1. OrgManage \in req[p].codes <=> req[p].role = "owner"
        BY <1>3 DEF CommitUpdate, Committing, ReqInv, Carries, RoleAllowed, Chosen, MayGive
    <2> QED
        BY <1>3, <2>1 DEF CommitUpdate, OrgManageExclusive, TypeOK
<1>4. ASSUME NEW p \in Proc, CommitDelete(p)
      PROVE  OrgManageExclusive'
    BY <1>4 DEF CommitDelete, OrgManageExclusive, TypeOK
<1>5. ASSUME NEW p \in Proc, CommitAssign(p) \/ CommitRevoke(p)
      PROVE  OrgManageExclusive'
    BY <1>5 DEF CommitAssign, CommitRevoke, OrgManageExclusive
<1>6. ASSUME NEW u \in User, NEW r \in Invited, AcceptInvitation(u, r)
      PROVE  OrgManageExclusive'
    BY <1>6 DEF AcceptInvitation, OrgManageExclusive
<1> QED
    BY <1>1, <1>2, <1>3, <1>4, <1>5, <1>6, WhoWrites

LEMMA OwnerStep ==
    ASSUME TypeOK, ReqInv, OwnerRemains, [Next]_vars
    PROVE  OwnerRemains'
<1>1. CASE UNCHANGED tables
    BY <1>1 DEF tables, OwnerRemains
<1>2. ASSUME NEW p \in Proc, CommitCreate(p) \/ CommitUpdate(p)
      PROVE  OwnerRemains'
    BY <1>2 DEF CommitCreate, CommitUpdate, OwnerRemains
<1>3. ASSUME NEW p \in Proc, CommitDelete(p)
      PROVE  OwnerRemains'
    <2>1. req[p].role # "owner"
        BY <1>3 DEF CommitDelete, Committing, ReqInv, Carries, RoleAllowed, Chosen, System
    <2> QED
        BY <1>3, <2>1 DEF CommitDelete, OwnerRemains
<1>4. ASSUME NEW p \in Proc, CommitAssign(p)
      PROVE  OwnerRemains'
    BY <1>4 DEF CommitAssign, OwnerRemains, TypeOK
\* The row of the Owner who stays is not locked by p: it stays an Owner because
\* p holds the row of the owner role.
<1>5. ASSUME NEW p \in Proc, CommitRevoke(p)
      PROVE  OwnerRemains'
    <2>1. req[p].role = "owner" => OtherOwners(req[p].user) # {}
        BY <1>5 DEF CommitRevoke, Committing, ReqInv, Carries, TargetAllowed, Aimed
    <2>2. CASE req[p].role = "owner"
        <3>1. PICK v \in User \ {req[p].user} : "owner" \in holds[v] /\ v \notin disabled
            BY <2>1, <2>2 DEF OtherOwners
        <3> QED
            BY <1>5, <3>1 DEF CommitRevoke, OwnerRemains, TypeOK
    <2>3. CASE req[p].role # "owner"
        BY <1>5, <2>3 DEF CommitRevoke, OwnerRemains, TypeOK
    <2> QED
        BY <2>2, <2>3
<1>6. ASSUME NEW u \in User, NEW r \in Invited, AcceptInvitation(u, r)
      PROVE  OwnerRemains'
    BY <1>6 DEF AcceptInvitation, OwnerRemains, TypeOK
<1> QED
    BY <1>1, <1>2, <1>3, <1>4, <1>5, <1>6, WhoWrites

LEMMA StepInv ==
    ASSUME IInv, [Next]_vars
    PROVE  IInv'
    BY TypeStep, ReqStep, LocksStep, OrgManageStep, OwnerStep DEF IInv

\* Whatever mutations overlap, what each has checked stays so until it commits:
\* the locks of internal/authz/repository.go are enough.
THEOREM Invariance == Spec => []IInv
<1>1. Init => IInv
    BY InitInv
<1>2. IInv /\ [Next]_vars => IInv'
    BY StepInv
<1> QED
    BY <1>1, <1>2, PTL DEF Spec

\* Every variable of the role mutations stays in its type; in particular every
\* grant is of a role that exists, so deleting a role leaves no grant behind.
THEOREM TypeCorrect == Spec => []TypeOK
<1>1. IInv => TypeOK
    BY DEF IInv
<1> QED
    BY <1>1, Invariance, PTL

\* org:manage belongs to the owner role and to no other, for every number of
\* overlapping calls of CreateRole and UpdateRolePermissions.
THEOREM OrgManageIsExclusive == Spec => []OrgManageExclusive
<1>1. IInv => OrgManageExclusive
    BY DEF IInv
<1> QED
    BY <1>1, Invariance, PTL

\* RevokeRole and DeleteRole never leave the organization without an Owner who
\* can log in, however many Owners revoke one another at once.
THEOREM OwnerAlwaysRemains == Spec => []OwnerRemains
<1>1. IInv => OwnerRemains
    BY DEF IInv
<1> QED
    BY <1>1, Invariance, PTL

-----------------------------------------------------------------------------
\* What a commit may do

LEMMA CommitIsOne ==
    ASSUME IInv, [Next]_vars, NEW p \in Proc, Commit(p)
    PROVE  \/ UNCHANGED tables
           \/ CommitCreate(p) \/ CommitUpdate(p) \/ CommitDelete(p)
           \/ CommitAssign(p) \/ CommitRevoke(p)
<1> USE DEF IInv
<1>1. ASSUME Frame(p)
      PROVE  FALSE
    BY <1>1, FrameFields DEF Commit, At
<1>2. ASSUME NEW q \in Proc, Arrive(q) \/ Step(q)
      PROVE  q = p
    BY <1>1, <1>2, ArriveFrame, StepFrame DEF ReqInv
<1>3. ASSUME NEW u \in User, NEW r \in Invited, AcceptInvitation(u, r)
      PROVE  FALSE
    BY <1>1, <1>3, InvitationFrame
<1> QED
    BY <1>2, <1>3, WhoWrites DEF Step

LEMMA CommitEscalatesNothing ==
    ASSUME IInv, [Next]_vars, NEW p \in Proc, Commit(p), NEW u \in User
    PROVE  UNION {perms'[r] : r \in holds'[u]} \subseteq
               PermsOf(holds[u]) \cup PermsOf(holds[req[p].actor])
<1> USE DEF IInv
<1>1. Carries(p) /\ At(p, "commit")
    BY DEF ReqInv, Commit
<1> SUFFICES ASSUME NEW r \in holds'[u]
             PROVE  \/ r \in holds[u] /\ perms'[r] \subseteq perms[r]
                    \/ perms'[r] \subseteq PermsOf(holds[req[p].actor])
    BY DEF PermsOf
<1>2. CASE UNCHANGED tables
    BY <1>2 DEF tables
<1>3. CASE CommitCreate(p)
    <2>1. r \in exists /\ r \in holds[u]
        BY <1>3 DEF CommitCreate, TypeOK
    <2> QED
        BY <1>3, <2>1, RolesAssumption DEF CommitCreate, TypeOK, Role
<1>4. CASE CommitUpdate(p)
    <2>1. req[p].codes \subseteq PermsOf(holds[req[p].actor])
        BY <1>1, <1>4 DEF CommitUpdate, Committing, Carries, RoleAllowed, Chosen, MayGive
    <2> QED
        BY <1>4, <2>1 DEF CommitUpdate, TypeOK
<1>5. CASE CommitDelete(p)
    BY <1>5 DEF CommitDelete, TypeOK
<1>6. CASE CommitAssign(p)
    <2>1. perms[req[p].role] \subseteq PermsOf(holds[req[p].actor])
        BY <1>1, <1>6 DEF CommitAssign, Committing, Carries, RoleAllowed, Chosen, MayGive
    <2> QED
        BY <1>6, <2>1 DEF CommitAssign, TypeOK
<1>7. CASE CommitRevoke(p)
    BY <1>7 DEF CommitRevoke, TypeOK
<1> QED
    BY <1>2, <1>3, <1>4, <1>5, <1>6, <1>7, CommitIsOne

\* A commit gives no user a permission its actor does not have at that moment,
\* although the actor's permissions were read several statements earlier
\* (actorAccessTx locks the rows they come from).
THEOREM NobodyEscalates == Spec => NoEscalation
<1>1. IInv /\ [Next]_vars =>
        [\A p \in Proc : Commit(p) =>
            \A u \in User :
                UNION {perms'[r] : r \in holds'[u]} \subseteq
                    PermsOf(holds[u]) \cup PermsOf(holds[req[p].actor])]_vars
    BY CommitEscalatesNothing
<1> QED
    BY <1>1, Invariance, PTL DEF Spec, NoEscalation

\* A set of roles that outranks two others outranks both at once.
LEMMA OutranksBoth ==
    ASSUME NEW R, NEW S, NEW T, Outranks(R, S), Outranks(R, T)
    PROVE  Outranks(R, S \cup T)
<1>1. \A r : Rank(r) \in Nat
    BY DEF Rank
<1>2. PICK h \in R : \A r \in S : Rank(h) < Rank(r)
    BY DEF Outranks
<1>3. PICK k \in R : \A r \in T : Rank(k) < Rank(r)
    BY DEF Outranks
<1>4. CASE Rank(h) <= Rank(k)
    <2>1. \A r \in S \cup T : Rank(h) < Rank(r)
        BY <1>1, <1>2, <1>3, <1>4
    <2> QED
        BY <2>1 DEF Outranks
<1>5. CASE Rank(k) <= Rank(h)
    <2>1. \A r \in S \cup T : Rank(k) < Rank(r)
        BY <1>1, <1>2, <1>3, <1>5
    <2> QED
        BY <2>1 DEF Outranks
<1> QED
    BY <1>1, <1>4, <1>5

LEMMA CommitRespectsRank ==
    ASSUME IInv, [Next]_vars, NEW p \in Proc, Commit(p), "owner" \notin holds[req[p].actor]
    PROVE  /\ \A r \in exists : perms'[r] # perms[r] =>
                Outranks(holds[req[p].actor], {r})
           /\ \A u \in User :
                (holds'[u] # holds[u] /\ req[p].op \in {"assign", "revoke"}) =>
                    Outranks(holds[req[p].actor], holds[u] \cup holds'[u])
<1> USE DEF IInv
<1> DEFINE R == holds[req[p].actor]
<1>1. Carries(p) /\ At(p, "commit")
    BY DEF ReqInv, Commit
<1>2. CASE UNCHANGED tables
    BY <1>2 DEF tables
<1>3. CASE CommitCreate(p)
    <2>1. \A r \in exists : perms'[r] = perms[r]
        <3>1. PICK c \in Custom \ used : perms' = [perms EXCEPT ![c] = req[p].codes]
            BY <1>3 DEF CommitCreate
        <3>2. c \notin exists
            BY RolesAssumption DEF TypeOK
        <3> QED
            BY <3>1, <3>2 DEF TypeOK
    <2> QED
        BY <1>3, <2>1 DEF CommitCreate, Committing
<1>4. CASE CommitUpdate(p)
    <2>1. Outranks(R, {req[p].role})
        BY <1>1, <1>4 DEF CommitUpdate, Committing, Carries, RoleAllowed, Chosen, MayGive
    <2> QED
        BY <1>4, <2>1 DEF CommitUpdate, Committing, TypeOK
<1>5. CASE CommitDelete(p)
    <2>1. Outranks(R, {req[p].role})
        BY <1>1, <1>5 DEF CommitDelete, Committing, Carries, RoleAllowed, Chosen, MayTake
    <2> QED
        BY <1>5, <2>1 DEF CommitDelete, Committing, TypeOK
<1>6. CASE CommitAssign(p) \/ CommitRevoke(p)
    <2>1. Outranks(R, {req[p].role}) /\ Outranks(R, holds[req[p].user])
        BY <1>1, <1>6 DEF CommitAssign, CommitRevoke, Committing, Carries, RoleAllowed, Chosen,
           MayGive, MayTake, TargetAllowed, Aimed
    <2>2. Outranks(R, {req[p].role} \cup holds[req[p].user])
        BY <2>1, OutranksBoth
    <2>3. \A u \in User : holds'[u] # holds[u] =>
            /\ u = req[p].user
            /\ holds'[u] \subseteq {req[p].role} \cup holds[req[p].user]
        BY <1>6 DEF CommitAssign, CommitRevoke, TypeOK
    <2>4. perms' = perms
        BY <1>6 DEF CommitAssign, CommitRevoke
    <2> QED
        BY <2>2, <2>3, <2>4 DEF Outranks
<1> QED
    BY <1>2, <1>3, <1>4, <1>5, <1>6, CommitIsOne

\* An actor who is not an Owner when the mutation commits has changed nothing
\* at or above the actor's own rank (authorizeRoleControl, highestRoleRankTx).
THEOREM RankIsRespected == Spec => RankRespected
<1>1. IInv /\ [Next]_vars =>
        [\A p \in Proc :
            (Commit(p) /\ "owner" \notin holds[req[p].actor]) =>
                /\ \A r \in exists : perms'[r] # perms[r] =>
                    Outranks(holds[req[p].actor], {r})
                /\ \A u \in User :
                    (holds'[u] # holds[u] /\ req[p].op \in {"assign", "revoke"}) =>
                        Outranks(holds[req[p].actor], holds[u] \cup holds'[u])]_vars
    BY CommitRespectsRank
<1> QED
    BY <1>1, Invariance, PTL DEF Spec, RankRespected

\* An edit that carries a revision replaces the very set its editor was shown,
\* however many editors have the same role open (expectedRevision of
\* UpdateRolePermissions).
THEOREM NoEditIsLost == Spec => NoLostEdit
<1>1. IInv => [\A p \in Proc : (CommitUpdate(p) /\ req[p].conditional) =>
                perms[req[p].role] = req[p].seen]_vars
    BY DEF IInv, ReqInv, CommitUpdate, Committing, Carries, RoleAllowed, Chosen
<1> QED
    BY <1>1, Invariance, PTL DEF Spec, NoLostEdit
=============================================================================
