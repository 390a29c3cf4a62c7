----------------------------- MODULE SeatsProofs -----------------------------
(***************************************************************************)
(* Proofs about Seats for every number of requests, people, invitations    *)
(* and plans.                                                              *)
(*                                                                         *)
(* A request decides on what it has read, and nothing keeps that from      *)
(* changing.  IInv says what it may rely on all the same: that its own     *)
(* check passed for the count and the plan it carries (Checked), that an   *)
(* invitation it found is still a row, and that the tables are finite, so  *)
(* that their counts are numbers.                                          *)
(***************************************************************************)
EXTENDS Seats, FiniteSetTheorems, TLAPS

\* What a request carries from its reads.
Carried(p) ==
    /\ req[p].pc \in {"count", "insert"} => req[p].email \in Email
    /\ req[p].pc \in {"count", "insert", "upsert", "write"} => req[p].plan \in Plan
    /\ req[p].pc \in {"update", "select", "claim"} =>
         req[p].inv \in Inv /\ status[req[p].inv] # "absent"

\* The verdict of the quota check, for the count it read.
Checked(p) ==
    /\ At(p, "insert") => HasRoom(req[p].n, req[p].plan)
    /\ (req[p].pc \in {"upsert", "write"} /\ req[p].op = "change") =>
         Fits(req[p].n, req[p].plan)

ReqInv == \A p \in Proc : Carried(p) /\ Checked(p)

Issued == {i \in Inv : status[i] # "absent"}

Finite == IsFiniteSet(member) /\ IsFiniteSet(Issued)

IInv == TypeOK /\ ReqInv /\ Finite /\ PlanCodeInStep

-----------------------------------------------------------------------------
\* Counts

LEMMA Counts ==
    ASSUME TypeOK, Finite
    PROVE  Seats \in Nat /\ Occupied \in Nat
<1>1. IsFiniteSet({i \in Inv : Pending(i) /\ i \notin lapsed})
    <2>1. {i \in Inv : Pending(i) /\ i \notin lapsed} \subseteq Issued
        BY DEF Issued, Pending
    <2> QED
        BY <2>1, FS_Subset DEF Finite
<1>2. Cardinality({i \in Inv : Pending(i) /\ i \notin lapsed}) \in Nat
    BY <1>1, FS_CardinalityType
<1>3. Cardinality(member) \in Nat
    BY FS_CardinalityType DEF Finite
<1> QED
    BY <1>2, <1>3 DEF Seats, Occupied

\* One more row of invitations takes one more seat at most.
LEMMA OneMore ==
    ASSUME TypeOK, Finite, NEW i \in Inv, status' = [status EXCEPT ![i] = "pending"],
           UNCHANGED <<member, lapsed>>
    PROVE  Occupied' \in Nat /\ Occupied' <= Occupied + 1
<1> DEFINE S == {j \in Inv : Pending(j) /\ j \notin lapsed}
           T == {j \in Inv : Pending(j) /\ j \notin lapsed}'
<1>1. IsFiniteSet(S) /\ Cardinality(S) \in Nat
    <2>1. S \subseteq Issued
        BY DEF Issued, Pending
    <2> QED
        BY <2>1, FS_Subset, FS_CardinalityType DEF Finite
<1>2. T \subseteq S \cup {i}
    BY DEF Pending, TypeOK
<1>3. /\ IsFiniteSet(S \cup {i})
      /\ Cardinality(S \cup {i}) = Cardinality(S) \/ Cardinality(S \cup {i}) = Cardinality(S) + 1
    BY <1>1, FS_AddElement
<1>4. IsFiniteSet(T) /\ Cardinality(T) <= Cardinality(S \cup {i}) /\ Cardinality(T) \in Nat
    BY <1>2, <1>3, FS_Subset, FS_CardinalityType
<1>5. Cardinality(T) <= Cardinality(S) + 1
    BY <1>1, <1>3, <1>4
<1>6. Cardinality(member) \in Nat
    BY FS_CardinalityType DEF Finite
<1>7. Occupied = Cardinality(member) + Cardinality(S)
    BY DEF Occupied, Seats
<1>8. Occupied' = Cardinality(member) + Cardinality(T)
    BY DEF Occupied, Seats
<1> HIDE DEF S, T
<1> QED
    BY <1>1, <1>4, <1>5, <1>6, <1>7, <1>8

-----------------------------------------------------------------------------
\* Requests

Alone(p) == req' \in [Proc -> Request] /\ \A q \in Proc \ {p} : req'[q] = req[q]

LEMMA NoRequestTyped == NoRequest \in Request /\ NoRequest.pc = "idle"
    BY DEF NoRequest, Request, Op

LEMMA AnswerFields ==
    ASSUME TypeOK, NEW p \in Proc, Answer(p)
    PROVE  Alone(p) /\ Carried(p)' /\ Checked(p)'
    BY NoRequestTyped DEF TypeOK, Answer, Alone, Carried, Checked, At

\* A request that takes a new form.
LEMMA BecomesFields ==
    ASSUME TypeOK, NEW p \in Proc, NEW r \in Request, req' = [req EXCEPT ![p] = r]
    PROVE  Alone(p) /\ req'[p] = r
    BY DEF TypeOK, Alone

\* What the others carry is theirs; an invitation stays a row.
LEMMA OthersKeep ==
    ASSUME ReqInv, NEW p \in Proc, Alone(p), Carried(p)', Checked(p)',
           \A i \in Inv : status[i] # "absent" => status'[i] # "absent"
    PROVE  ReqInv'
<1> SUFFICES ASSUME NEW q \in Proc \ {p} PROVE Carried(q)' /\ Checked(q)'
    BY DEF ReqInv
<1>1. req'[q] = req[q] /\ Carried(q) /\ Checked(q)
    BY DEF ReqInv, Alone
<1> QED
    BY <1>1 DEF Carried, Checked, At

\* A step that writes no table.
LEMMA QuietInv ==
    ASSUME IInv, NEW p \in Proc, UNCHANGED <<invitations, member, billing>>,
           Alone(p), Carried(p)', Checked(p)'
    PROVE  IInv'
<1>1. UNCHANGED <<status, email, lapsed, member, sub, planCode>>
    BY DEF invitations, billing
<1>2. ReqInv'
    BY <1>1, OthersKeep DEF IInv
<1>3. TypeOK'
    BY <1>1 DEF IInv, TypeOK, Alone, Pending
<1>4. Finite' /\ PlanCodeInStep'
    BY <1>1 DEF IInv, Finite, Issued, PlanCodeInStep, ActivePlan
<1> QED
    BY <1>2, <1>3, <1>4 DEF IInv

LEMMA PlanTyped ==
    ASSUME TypeOK
    PROVE  ActivePlan \in Plan
    BY SeatsAssumption DEF TypeOK, ActivePlan, Subscription

LEMMA ArriveInv ==
    ASSUME IInv, NEW p \in Proc, Arrive(p)
    PROVE  IInv'
<1> USE DEF IInv
<1>1. ASSUME NEW e \in Email, Invite(p, e)
      PROVE  IInv'
    <2> DEFINE r == [NoRequest EXCEPT !.op = "invite", !.pc = "count", !.email = e,
                                      !.plan = ActivePlan]
    <2>1. r \in Request /\ r.pc = "count" /\ r.email = e /\ r.plan \in Plan
        BY PlanTyped DEF NoRequest, Request, Op
    <2>2. req' = [req EXCEPT ![p] = r] /\ UNCHANGED <<invitations, member, billing>>
        BY <1>1 DEF Invite, Begin
    <2> HIDE DEF r
    <2>3. Alone(p) /\ Carried(p)' /\ Checked(p)'
        BY <2>1, <2>2, BecomesFields DEF Carried, Checked, At
    <2> QED
        BY <2>2, <2>3, QuietInv
<1>2. ASSUME NEW i \in Inv, Revoke(p, i) \/ Accept(p, i)
      PROVE  IInv'
    <2>1. PICK r \in Request : /\ req' = [req EXCEPT ![p] = r]
                               /\ r.pc \in {"update", "select"} /\ r.inv = i
        <3>1. /\ [NoRequest EXCEPT !.op = "revoke", !.pc = "update", !.inv = i] \in Request
              /\ [NoRequest EXCEPT !.op = "accept", !.pc = "select", !.inv = i] \in Request
            BY DEF NoRequest, Request, Op
        <3>2. /\ [NoRequest EXCEPT !.op = "revoke", !.pc = "update", !.inv = i].pc = "update"
              /\ [NoRequest EXCEPT !.op = "revoke", !.pc = "update", !.inv = i].inv = i
              /\ [NoRequest EXCEPT !.op = "accept", !.pc = "select", !.inv = i].pc = "select"
              /\ [NoRequest EXCEPT !.op = "accept", !.pc = "select", !.inv = i].inv = i
            BY DEF NoRequest
        <3> QED
            BY <1>2, <3>1, <3>2 DEF Revoke, Accept, Begin
    <2>2. UNCHANGED <<invitations, member, billing>> /\ Pending(i)
        BY <1>2 DEF Revoke, Accept, Redeemable
    <2>3. Alone(p) /\ Carried(p)' /\ Checked(p)'
        BY <2>1, <2>2, BecomesFields DEF Carried, Checked, At, Pending, invitations
    <2> QED
        BY <2>2, <2>3, QuietInv
<1>3. ASSUME NEW plan \in Plan, ChangePlan(p, plan)
      PROVE  IInv'
    <2> DEFINE n == Seats
               r == [NoRequest EXCEPT !.op = "change", !.pc = "upsert", !.plan = plan, !.n = n]
    <2>1. n \in Nat
        BY Counts
    <2>2. Fits(n, plan) /\ req' = [req EXCEPT ![p] = r]
          /\ UNCHANGED <<invitations, member, billing>>
        BY <1>3 DEF ChangePlan, Begin
    <2> HIDE DEF n
    <2>3. /\ r \in Request /\ r.pc = "upsert" /\ r.op = "change" /\ r.plan = plan /\ r.n = n
        BY <2>1 DEF NoRequest, Request, Op
    <2> HIDE DEF r
    <2>4. Alone(p) /\ Carried(p)' /\ Checked(p)'
        BY <2>2, <2>3, BecomesFields DEF Carried, Checked, At, Fits
    <2> QED
        BY <2>2, <2>4, QuietInv
<1>4. CASE Cancel(p)
    <2> DEFINE r == [NoRequest EXCEPT !.op = "cancel", !.pc = "upsert", !.plan = sub.plan]
    <2>1. sub.plan \in Plan
        BY <1>4 DEF Cancel, TypeOK, Subscription
    <2>2. r \in Request /\ r.pc = "upsert" /\ r.op = "cancel" /\ r.plan \in Plan
        BY <2>1 DEF NoRequest, Request, Op
    <2>3. req' = [req EXCEPT ![p] = r] /\ UNCHANGED <<invitations, member, billing>>
        BY <1>4 DEF Cancel, Begin
    <2> HIDE DEF r
    <2>4. Alone(p) /\ Carried(p)' /\ Checked(p)'
        BY <2>2, <2>3, BecomesFields DEF Carried, Checked, At
    <2> QED
        BY <2>3, <2>4, QuietInv
<1> QED
    BY <1>1, <1>2, <1>3, <1>4 DEF Arrive

LEMMA StepsInv ==
    ASSUME IInv, NEW p \in Proc, Step(p)
    PROVE  IInv'
<1> USE DEF IInv
<1>1. Carried(p) /\ Checked(p) /\ req[p] \in Request
    BY DEF ReqInv, TypeOK
<1>2. CASE CheckSeatQuota(p)
    <2>1. UNCHANGED <<invitations, member, billing>>
        BY <1>2 DEF CheckSeatQuota
    <2>2. CASE HasRoom(Occupied, req[p].plan)
        <3> DEFINE n == Occupied
                   r == [req[p] EXCEPT !.pc = "insert", !.n = n]
        <3>1. n \in Nat
            BY Counts
        <3>2. HasRoom(n, req[p].plan) /\ req' = [req EXCEPT ![p] = r] /\ At(p, "count")
            BY <1>2, <2>2 DEF CheckSeatQuota, TypeOK
        <3> HIDE DEF n
        <3>3. /\ r \in Request /\ r.pc = "insert" /\ r.n = n
              /\ r.plan = req[p].plan /\ r.email = req[p].email
            BY <1>1, <3>1 DEF Request
        <3> HIDE DEF r
        <3>4. Alone(p) /\ Carried(p)' /\ Checked(p)'
            BY <1>1, <3>2, <3>3, BecomesFields DEF Carried, Checked, At, HasRoom
        <3> QED
            BY <2>1, <3>4, QuietInv
    <2>3. CASE ~HasRoom(Occupied, req[p].plan)
        <3>1. Answer(p)
            BY <1>2, <2>3 DEF CheckSeatQuota, Answer
        <3> QED
            BY <2>1, <3>1, AnswerFields, QuietInv
    <2> QED
        BY <2>2, <2>3
<1>3. CASE InsertInvitation(p)
    <2>1. PICK i \in Inv : /\ status[i] = "absent"
                           /\ status' = [status EXCEPT ![i] = "pending"]
                           /\ email' = [email EXCEPT ![i] = req[p].email]
        BY <1>3 DEF InsertInvitation
    <2>2. /\ Alone(p) /\ Carried(p)' /\ Checked(p)' /\ req[p].email \in Email
          /\ UNCHANGED <<lapsed, member, sub, planCode>> /\ ~Taken(req[p].email)
        BY <1>1, <1>3, AnswerFields DEF InsertInvitation, Carried, At, billing
    <2>3. ReqInv'
        BY <2>1, <2>2, OthersKeep DEF TypeOK
    <2>4. TypeOK'
        <3>1. \A j \in Inv : email'[j] = None <=> status'[j] = "absent"
            BY <2>1, <2>2, SeatsAssumption DEF TypeOK
        <3>2. \A j, k \in Inv :
                (Pending(j)' /\ Pending(k)' /\ email'[j] = email'[k]) => j = k
            BY <2>1, <2>2 DEF TypeOK, Taken, Pending
        <3> QED
            BY <2>1, <2>2, <3>1, <3>2 DEF TypeOK, Alone
    <2>5. Finite'
        <3>1. Issued' \subseteq Issued \cup {i}
            BY <2>1 DEF Issued, TypeOK
        <3> QED
            BY <2>2, <3>1, FS_AddElement, FS_Subset DEF Finite
    <2>6. PlanCodeInStep'
        BY <2>2 DEF PlanCodeInStep, ActivePlan
    <2> QED
        BY <2>3, <2>4, <2>5, <2>6
<1>4. CASE InvitationConflict(p) \/ Abort(p)
    BY <1>4, AnswerFields, QuietInv DEF InvitationConflict, Abort
<1>5. CASE UpdateStatus(p) \/ ClaimInvitation(p)
    <2> DEFINE i == req[p].inv
    <2>1. i \in Inv /\ status[i] # "absent" /\ email[i] \in Email
        BY <1>1, <1>5 DEF UpdateStatus, ClaimInvitation, Carried, At, TypeOK
    <2>2. /\ Alone(p) /\ Carried(p)' /\ Checked(p)' /\ UNCHANGED <<email, lapsed, sub, planCode>>
          /\ \/ status' = status /\ member' = member
             \/ \E s \in {"revoked", "accepted"} :
                  /\ status' = [status EXCEPT ![i] = s]
                  /\ member' \in {member, member \cup {email[i]}}
        BY <1>5, AnswerFields DEF UpdateStatus, ClaimInvitation, billing
    <2>3. \A j \in Inv : status[j] # "absent" <=> status'[j] # "absent"
        BY <2>1, <2>2 DEF TypeOK
    <2>4. ReqInv'
        BY <2>2, <2>3, OthersKeep
    <2>5. TypeOK'
        <3>1. \A j \in Inv : Pending(j)' => Pending(j)
            BY <2>2 DEF Pending, TypeOK
        <3>2. \A j \in Inv : email'[j] = None <=> status'[j] = "absent"
            BY <2>2, <2>3 DEF TypeOK
        <3>3. \A j, k \in Inv :
                (Pending(j)' /\ Pending(k)' /\ email'[j] = email'[k]) => j = k
            BY <2>2, <3>1 DEF TypeOK
        <3> QED
            BY <2>1, <2>2, <3>2, <3>3 DEF TypeOK, Alone
    <2>6. Finite'
        <3>1. Issued' = Issued
            BY <2>3 DEF Issued
        <3>2. IsFiniteSet(member \cup {email[i]})
            BY FS_AddElement DEF Finite
        <3> QED
            BY <2>2, <3>1, <3>2 DEF Finite
    <2>7. PlanCodeInStep'
        BY <2>2 DEF PlanCodeInStep, ActivePlan
    <2> QED
        BY <2>4, <2>5, <2>6, <2>7
<1>6. CASE SelectInvitation(p)
    <2>1. UNCHANGED <<invitations, member, billing>> /\ At(p, "select")
        BY <1>6 DEF SelectInvitation
    <2>2. CASE Answer(p)
        BY <2>1, <2>2, AnswerFields, QuietInv
    <2>3. CASE Goto(p, "claim")
        <3> DEFINE r == [req[p] EXCEPT !.pc = "claim"]
        <3>1. r \in Request /\ r.pc = "claim" /\ r.inv = req[p].inv
            BY <1>1 DEF Request
        <3>2. req' = [req EXCEPT ![p] = r]
            BY <2>3 DEF Goto, TypeOK
        <3> HIDE DEF r
        <3>3. Alone(p) /\ Carried(p)' /\ Checked(p)'
            BY <1>1, <2>1, <3>1, <3>2, BecomesFields DEF Carried, Checked, At, invitations
        <3> QED
            BY <2>1, <3>3, QuietInv
    <2> QED
        BY <1>6, <2>2, <2>3 DEF SelectInvitation
<1>7. CASE UpsertFind(p)
    <2> DEFINE b == sub # None
               r == [req[p] EXCEPT !.pc = "write", !.existing = b]
    <2>1. /\ r \in Request /\ r.pc = "write" /\ r.plan = req[p].plan /\ r.op = req[p].op
          /\ r.n = req[p].n
        BY <1>1 DEF Request
    <2>2. /\ req' = [req EXCEPT ![p] = r] /\ At(p, "upsert")
          /\ UNCHANGED <<invitations, member, billing>>
        BY <1>7 DEF UpsertFind, TypeOK
    <2> HIDE DEF r, b
    <2>3. Alone(p) /\ Carried(p)' /\ Checked(p)'
        BY <1>1, <2>1, <2>2, BecomesFields DEF Carried, Checked, At, Fits
    <2> QED
        BY <2>2, <2>3, QuietInv
<1>8. CASE UpsertSubscription(p)
    <2>1. /\ Alone(p) /\ Carried(p)' /\ Checked(p)' /\ req[p].plan \in Plan
          /\ sub' = [plan |-> req[p].plan, cancels |-> req[p].op = "cancel"]
          /\ planCode' = req[p].plan /\ UNCHANGED <<status, email, lapsed, member>>
        BY <1>1, <1>8, AnswerFields DEF UpsertSubscription, Carried, At, invitations
    <2>2. sub' \in Subscription /\ sub'.plan = req[p].plan
        BY <2>1 DEF Subscription
    <2>3. sub' # None
        BY <2>2, SeatsAssumption
    <2>4. ReqInv'
        BY <2>1, OthersKeep
    <2>5. TypeOK'
        BY <2>1, <2>2 DEF TypeOK, Alone, Pending
    <2>6. Finite'
        BY <2>1 DEF Finite, Issued
    <2>7. PlanCodeInStep'
        BY <2>1, <2>2, <2>3 DEF PlanCodeInStep, ActivePlan
    <2> QED
        BY <2>4, <2>5, <2>6, <2>7
<1> QED
    BY <1>2, <1>3, <1>4, <1>5, <1>6, <1>7, <1>8 DEF Step

-----------------------------------------------------------------------------
\* The inductive invariant

LEMMA InitInv == Init => IInv
<1> SUFFICES ASSUME Init PROVE IInv
    OBVIOUS
<1>1. TypeOK
    BY SeatsAssumption, NoRequestTyped DEF Init, TypeOK, Pending
<1>2. ReqInv
    BY NoRequestTyped DEF Init, ReqInv, Carried, Checked, At
<1>3. Finite
    <2>1. IsFiniteSet(member)
        BY FS_Singleton DEF Init
    <2>2. Issued = {}
        BY DEF Init, Issued
    <2> QED
        BY <2>1, <2>2, FS_EmptySet DEF Finite
<1>4. PlanCodeInStep
    BY DEF Init, PlanCodeInStep, ActivePlan
<1> QED
    BY <1>1, <1>2, <1>3, <1>4 DEF IInv

LEMMA StepInv == IInv /\ [Next]_vars => IInv'
<1> SUFFICES ASSUME IInv, [Next]_vars PROVE IInv'
    OBVIOUS
<1> USE DEF IInv
<1>1. ASSUME NEW p \in Proc, Arrive(p) \/ Step(p)
      PROVE  IInv'
    BY <1>1, ArriveInv, StepsInv
<1>2. ASSUME NEW i \in Inv, Lapse(i)
      PROVE  IInv'
    <2>1. lapsed' = lapsed \cup {i} /\ UNCHANGED <<status, email, member, sub, planCode, req>>
        BY <1>2 DEF Lapse, billing
    <2>2. TypeOK'
        BY <2>1 DEF TypeOK, Pending
    <2> QED
        BY <2>1, <2>2 DEF ReqInv, Carried, Checked, At, Finite, Issued, PlanCodeInStep, ActivePlan
<1>3. ASSUME NEW e \in Email, SignUp(e) \/ OperatorDeletes(e)
      PROVE  IInv'
    <2>1. /\ member' = member \cup {e} \/ member' = member \ {e}
          /\ UNCHANGED <<status, email, lapsed, sub, planCode, req>>
        BY <1>3 DEF SignUp, OperatorDeletes, invitations, billing
    <2>2. TypeOK'
        BY <2>1 DEF TypeOK, Pending
    <2>3. Finite'
        BY <2>1, FS_AddElement, FS_RemoveElement DEF Finite, Issued
    <2> QED
        BY <2>1, <2>2, <2>3 DEF ReqInv, Carried, Checked, At, PlanCodeInStep, ActivePlan
<1>4. CASE UNCHANGED vars
    BY <1>4 DEF vars, TypeOK, Pending, ReqInv, Carried, Checked, At, Finite, Issued,
                PlanCodeInStep, ActivePlan
<1> QED
    BY <1>1, <1>2, <1>3, <1>4 DEF Next

\* Whatever invitations, acceptances, plan changes and sign-ups overlap, a
\* request goes by a check that passed for what it carries, and the tenant's
\* tables stay finite.
THEOREM Invariance == Spec => []IInv
    BY InitInv, StepInv, PTL DEF Spec

\* Every variable keeps its type; in particular the table never holds two
\* pending invitations of one person (the unique index that InsertInvitation
\* runs into).
THEOREM TypeCorrect == Spec => []TypeOK
<1>1. IInv => TypeOK
    BY DEF IInv
<1> QED
    BY <1>1, Invariance, PTL

\* UpsertSubscription writes the subscription and tenants.plan_code together:
\* no overlap of plan changes and cancellations leaves them apart.
THEOREM PlanCodeStaysInStep == Spec => []PlanCodeInStep
<1>1. IInv => PlanCodeInStep
    BY DEF IInv
<1> QED
    BY <1>1, Invariance, PTL

-----------------------------------------------------------------------------
\* Actions

\* An invitation accepted (accept_invitation) or revoked (UpdateStatus) stays
\* so: each of them claims the row only while it is pending.
THEOREM InvitationsResolvedOnce == Spec => ResolvedOnce
<1> DEFINE A == \A i \in Inv : status[i] \in {"accepted", "revoked"} => status'[i] = status[i]
<1>1. ASSUME IInv, [Next]_vars PROVE [A]_vars
    <2> USE DEF IInv
    <2>1. ASSUME NEW p \in Proc, Arrive(p)
          PROVE  A
        BY <2>1 DEF Arrive, Invite, Revoke, Accept, ChangePlan, Cancel, invitations
    <2>2. ASSUME NEW p \in Proc, Step(p)
          PROVE  A
        <3>1. CASE \/ CheckSeatQuota(p) \/ InvitationConflict(p) \/ SelectInvitation(p)
                   \/ UpsertFind(p) \/ UpsertSubscription(p) \/ Abort(p)
            BY <3>1 DEF CheckSeatQuota, InvitationConflict, SelectInvitation, UpsertFind,
                        UpsertSubscription, Abort, invitations
        <3>2. CASE InsertInvitation(p)
            BY <3>2 DEF InsertInvitation, TypeOK
        <3>3. CASE UpdateStatus(p)
            BY <3>3 DEF UpdateStatus, Pending, TypeOK
        <3>4. CASE ClaimInvitation(p)
            <4>1. \/ status' = status
                  \/ Pending(req[p].inv) /\ status' = [status EXCEPT ![req[p].inv] = "accepted"]
                BY <3>4 DEF ClaimInvitation
            <4> QED
                BY <1>1, <4>1 DEF Pending, TypeOK
        <3> QED
            BY <2>2, <3>1, <3>2, <3>3, <3>4 DEF Step
    <2>3. CASE \/ \E i \in Inv : Lapse(i)
               \/ \E e \in Email : SignUp(e) \/ OperatorDeletes(e)
        BY <2>3 DEF Lapse, SignUp, OperatorDeletes, invitations
    <2> QED
        BY <1>1, <2>1, <2>2, <2>3 DEF Next
<1> QED
    BY <1>1, Invariance, PTL DEF Spec, ResolvedOnce

LEMMA InsertFits ==
    ASSUME IInv, NEW p \in Proc, InsertInvitation(p), Occupied <= req[p].n
    PROVE  Fits(Occupied', req[p].plan)
<1> USE DEF IInv
<1>1. PICK i \in Inv : status' = [status EXCEPT ![i] = "pending"]
    BY DEF InsertInvitation
<1>2. Occupied \in Nat /\ Occupied' \in Nat /\ Occupied' <= Occupied + 1
    BY <1>1, Counts, OneMore DEF InsertInvitation
<1>3. HasRoom(req[p].n, req[p].plan) /\ req[p].plan \in Plan /\ req[p].n \in Nat
    BY DEF InsertInvitation, ReqInv, Carried, Checked, At, TypeOK, Request
<1> QED
    BY <1>2, <1>3, SeatsAssumption DEF HasRoom, Fits

LEMMA ChangeFits ==
    ASSUME IInv, NEW p \in Proc, UpsertSubscription(p), req[p].op = "change", Seats <= req[p].n
    PROVE  Fits(Seats', ActivePlan')
<1> USE DEF IInv
<1>1. /\ Fits(req[p].n, req[p].plan) /\ req[p].plan \in Plan /\ req[p].n \in Nat
    BY DEF UpsertSubscription, ReqInv, Carried, Checked, At, TypeOK, Request
<1>2. ActivePlan' = req[p].plan
    <2>1. sub' = [plan |-> req[p].plan, cancels |-> req[p].op = "cancel"]
        BY DEF UpsertSubscription
    <2>2. sub' \in Subscription /\ sub'.plan = req[p].plan
        BY <1>1, <2>1 DEF Subscription
    <2> QED
        BY <2>2, SeatsAssumption DEF ActivePlan
<1>3. Seats' = Seats /\ Seats \in Nat
    BY Counts DEF UpsertSubscription, Seats
<1> QED
    BY <1>1, <1>2, <1>3, SeatsAssumption DEF Fits

\* CheckSeatQuota and ChangePlan count before they write.  As long as no more
\* seats are taken at the write than the count saw, the new invitation is
\* within the plan that was read, and the members within the plan they get.
THEOREM QuotaIsExact == Spec => ExactWhenNotOvertaken
<1> DEFINE A == \A p \in Proc :
              /\ (InsertInvitation(p) /\ Occupied <= req[p].n) =>
                     Fits(Occupied', req[p].plan)
              /\ (UpsertSubscription(p) /\ req[p].op = "change" /\ Seats <= req[p].n) =>
                     Fits(Seats', ActivePlan')
<1>1. IInv => A
    BY InsertFits, ChangeFits
<1>2. IInv => [A]_vars
    BY <1>1
<1> QED
    BY <1>2, Invariance, PTL DEF ExactWhenNotOvertaken
=============================================================================
