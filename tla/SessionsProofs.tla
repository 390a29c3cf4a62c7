--------------------------- MODULE SessionsProofs ---------------------------
(***************************************************************************)
(* Proofs about Sessions for every number of requests, tokens, passwords   *)
(* and verification tokens.  IInv is the inductive invariant:              *)
(*   - ReqInv ties the step a request is at to what it carries;            *)
(*   - LockInv says which steps hold the account lock, exactly;            *)
(*   - FamilyInv says a family is named by a stored token of its own, that *)
(*     a replaced token is revoked and that a revoked token is stored;     *)
(*   - ClaimInv says a claim found unused has not been spent by another    *)
(*     request when its transaction gets to its commit.                    *)
(***************************************************************************)
EXTENDS Sessions, TLAPS

\* Steps at which a request's transaction holds the account row FOR UPDATE.
HoldsAccount(p) ==
    \/ req[p].pc \in {"token", "rotate", "claim"}
    \/ req[p].pc = "apply" /\ req[p].op \in {"refresh", "reset"}

LockInv == \A p \in Proc : userLock = p <=> HoldsAccount(p)

ReqInv ==
    \A p \in Proc :
        /\ req[p].pc \in {"tenant", "save"} =>
            req[p].op = "login" /\ req[p].row \in UserRow
        /\ req[p].vtok # None => req[p].op \in {"reset", "verify"}
        /\ req[p].pc = "lock" => req[p].op \in {"refresh", "reset", "verify"}
        /\ req[p].pc \in {"token", "rotate"} => req[p].op = "refresh"
        /\ req[p].pc = "claim" => req[p].op \in {"reset", "verify"}
        /\ req[p].pc = "start" => req[p].op \in {"logout", "change"}
        /\ req[p].pc = "write" => req[p].op = "change"
        /\ req[p].op \in {"refresh", "logout"} =>
            req[p].tok \in Token /\ Stored(req[p].tok)
        /\ req[p].pc = "apply" =>
            \A t \in req[p].rows : t \in Token /\ Stored(t)
        /\ req[p].op = "reset" => req[p].vtok \in VToken
        /\ req[p].pc = "claim" => req[p].vtok \in VToken
        /\ (req[p].pc = "lock" /\ req[p].op = "verify") => req[p].vtok \in VToken

FamilyInv ==
    \A t \in Token :
        /\ Stored(t) => Stored(family[t]) /\ family[family[t]] = family[t]
        /\ replacedBy[t] # None => revoked[t]
        /\ revoked[t] => Stored(t)

ClaimInv ==
    \A p \in Proc :
        At(p, "apply") /\ req[p].op = "reset" => vt[req[p].vtok] \in {"unused", "expired"}

IInv ==
    /\ TypeOK
    /\ ReqInv
    /\ LockInv
    /\ FamilyInv
    /\ ClaimInv
    /\ FamilyLinear
    /\ LockProtects

-----------------------------------------------------------------------------
\* Starting an UPDATE keeps a request well-typed.
LEMMA UpdateRequestTyped ==
    ASSUME NEW r \in Request, NEW S \in SUBSET Token
    PROVE  [r EXCEPT !.pc = "apply", !.rows = S] \in Request
    BY DEF Request, Pc

\* Moving a request to another step keeps it well-typed.
LEMMA GotoTyped ==
    ASSUME NEW r \in Request, NEW l \in Pc
    PROVE  [r EXCEPT !.pc = l] \in Request
    BY DEF Request

\* What moving a request, or starting its UPDATE, leaves of its fields.
LEMMA GotoFields ==
    ASSUME NEW r \in Request, NEW l
    PROVE  LET g == [r EXCEPT !.pc = l] IN
           /\ g.pc = l /\ g.op = r.op /\ g.tok = r.tok /\ g.vtok = r.vtok
           /\ g.pw = r.pw /\ g.row = r.row /\ g.rows = r.rows
    BY DEF Request

LEMMA UpdateFields ==
    ASSUME NEW r \in Request, NEW S
    PROVE  LET g == [r EXCEPT !.pc = "apply", !.rows = S] IN
           /\ g.pc = "apply" /\ g.op = r.op /\ g.tok = r.tok /\ g.vtok = r.vtok
           /\ g.pw = r.pw /\ g.row = r.row /\ g.rows = S
    BY DEF Request

\* Every step leaves the requests well-typed.
LEMMA RequestsTyped ==
    ASSUME TypeOK, ReqInv, [Next]_vars
    PROVE  req' \in [Proc -> Request]
<1> USE DEF TypeOK
<1>1. NoRequest \in Request
    BY DEF NoRequest, Request, Op, Pc
<1>2. ASSUME NEW p \in Proc, NEW l \in Pc, Goto(p, l)
      PROVE  req' \in [Proc -> Request]
    <2>1. [req[p] EXCEPT !.pc = l] \in Request
        BY GotoTyped
    <2> QED
        BY <1>2, <2>1 DEF Goto
<1>3. ASSUME NEW p \in Proc, Answer(p)
      PROVE  req' \in [Proc -> Request]
    BY <1>1, <1>3 DEF Answer
<1>4. ASSUME NEW p \in Proc, NEW r \in Request, Begin(p, r)
      PROVE  req' \in [Proc -> Request]
    BY <1>4 DEF Begin
<1>5. ASSUME NEW p \in Proc, StartUpdate(p)
      PROVE  req' \in [Proc -> Request]
    <2>1. RowsToRevoke(p) \in SUBSET Token
        BY DEF RowsToRevoke
    <2>2. [req[p] EXCEPT !.pc = "apply", !.rows = RowsToRevoke(p)] \in Request
        BY <2>1, UpdateRequestTyped
    <2> QED
        BY <1>5, <2>2 DEF StartUpdate
<1>6. ASSUME NEW p \in Proc, Arrive(p)
      PROVE  req' \in [Proc -> Request]
    <2>1. CASE Login(p)
        BY <1>4, <2>1 DEF Login, NoRequest, Request, Op, Pc
    <2>2. CASE OAuthLogin(p)
        BY <1>4, <2>2 DEF OAuthLogin, NoRequest, Request, Op, Pc
    <2>3. ASSUME NEW t \in Token, Refresh(p, t) \/ Logout(p, t)
          PROVE  req' \in [Proc -> Request]
        BY <1>4, <2>3 DEF Refresh, Logout, NoRequest, Request, Op, Pc
    <2>4. ASSUME NEW q \in Password, ChangePassword(p, q)
          PROVE  req' \in [Proc -> Request]
        BY <1>4, <2>4 DEF ChangePassword, NoRequest, Request, Op, Pc
    <2>5. ASSUME NEW v \in ResetToken, NEW q \in Password, ResetPassword(p, v, q)
          PROVE  req' \in [Proc -> Request]
        BY <1>4, <2>5 DEF ResetPassword, VToken, NoRequest, Request, Op, Pc
    <2>6. ASSUME NEW v \in VerifyToken, VerifyEmail(p, v)
          PROVE  req' \in [Proc -> Request]
        BY <1>4, <2>6 DEF VerifyEmail, VToken, NoRequest, Request, Op, Pc
    <2>7. CASE RequestPasswordReset(p) \/ RequestEmailVerification(p)
        BY <1>4, <2>7 DEF RequestPasswordReset, RequestEmailVerification, NoRequest, Request, Op, Pc
    <2> QED
        BY <1>6, <2>1, <2>2, <2>3, <2>4, <2>5, <2>6, <2>7 DEF Arrive
<1>7. ASSUME NEW p \in Proc, Step(p)
      PROVE  req' \in [Proc -> Request]
    <2>1. CASE LoginTenant(p) \/ LoginSave(p) \/ IssueTokenPair(p)
        BY <1>2, <1>3, <2>1 DEF LoginTenant, LoginSave, IssueTokenPair, Pc
    <2>2. CASE ActiveCredentialUserTx(p) \/ LockRefreshToken(p)
        BY <1>2, <1>3, <2>2 DEF ActiveCredentialUserTx, LockRefreshToken, Pc
    <2>3. CASE RotateRefreshToken(p) \/ RotateExpired(p)
        BY <1>3, <2>3 DEF RotateRefreshToken, Replace, RotateExpired
    <2>4. CASE RotateReused(p) \/ RevokeStart(p) \/ ClaimVerificationTokenTx(p)
        BY <1>5, <2>4 DEF RotateReused, RevokeStart, ClaimVerificationTokenTx
    <2>5. CASE RevokeCommit(p) \/ ClaimRefused(p) \/ ConsumePasswordReset(p)
        BY <1>3, <2>5 DEF RevokeCommit, ClaimRefused, ConsumePasswordReset
    <2>6. CASE UpdatePassword(p)
        BY <1>2, <1>3, <2>6 DEF UpdatePassword, Pc
    <2>7. CASE ConsumeEmailVerification(p) \/ CreateVerificationToken(p)
        BY <1>3, <2>7 DEF ConsumeEmailVerification, CreateVerificationToken
    <2> QED
        BY <1>7, <2>1, <2>2, <2>3, <2>4, <2>5, <2>6, <2>7 DEF Step
<1>8. CASE Environment
    <2>1. ASSUME NEW p \in Proc, LoginSaveFails(p) \/ Abort(p)
          PROVE  req' \in [Proc -> Request]
        BY <1>2, <1>3, <2>1 DEF LoginSaveFails, Abort, Pc
    <2>2. CASE UNCHANGED req
        BY <2>2
    <2> QED
        BY <1>8, <2>1, <2>2 DEF Environment, ExpireRefreshToken,
           ExpireVerificationToken, OperatorMint, OperatorSetStatus, OperatorSetTenant
<1>9. CASE UNCHANGED vars
    BY <1>9 DEF vars
<1> QED
    BY <1>6, <1>7, <1>8, <1>9 DEF Next

\* Giving up the locks and the rows of an UPDATE keep their types.
LEMMA UnlockTyped ==
    ASSUME TypeOK, NEW p \in Proc, Unlock(p)
    PROVE  userLock' \in Proc \cup {None} /\ tokenLock' \in [Token -> Proc \cup {None}]
    BY DEF TypeOK, Unlock

LEMMA RevokeRowsTyped ==
    ASSUME TypeOK, NEW p \in Proc, RevokeRows(p)
    PROVE  /\ revoked' \in [Token -> BOOLEAN]
           /\ family' \in [Token -> Token \cup {None}]
           /\ replacedBy' \in [Token -> Token \cup {None}]
<1>1. revoked' = [t \in Token |-> revoked[t] \/ t \in req[p].rows]
    BY DEF RevokeRows
<1>2. \A t \in Token : (revoked[t] \/ t \in req[p].rows) \in BOOLEAN
    OBVIOUS
<1> QED
    BY <1>1, <1>2 DEF TypeOK, RevokeRows

\* Type correctness is preserved.
LEMMA TypeStep ==
    ASSUME TypeOK, ReqInv, [Next]_vars
    PROVE  TypeOK'
<1> DEFINE RestOK ==
        /\ tenant \in TenantStatuses
        /\ user \in UserRow
        /\ family \in [Token -> Token \cup {None}]
        /\ revoked \in [Token -> BOOLEAN]
        /\ replacedBy \in [Token -> Token \cup {None}]
        /\ expired \in SUBSET Token
        /\ vt \in [VToken -> {"absent", "unused", "used", "expired"}]
        /\ userLock \in Proc \cup {None}
        /\ tokenLock \in [Token -> Proc \cup {None}]
<1>1. SUFFICES RestOK'
    BY RequestsTyped DEF TypeOK
<1> USE DEF TypeOK, tokens, locks
<1>2. ASSUME NEW p \in Proc, Arrive(p)
      PROVE  RestOK'
    BY <1>2 DEF Arrive, Login, OAuthLogin, Refresh, Logout, ChangePassword,
       ResetPassword, VerifyEmail, RequestPasswordReset, RequestEmailVerification
<1>3. ASSUME NEW p \in Proc, Step(p)
      PROVE  RestOK'
    <2>1. CASE LoginTenant(p) \/ RotateReused(p) \/ RevokeStart(p)
               \/ ClaimVerificationTokenTx(p)
        BY <2>1 DEF LoginTenant, RotateReused, RevokeStart, ClaimVerificationTokenTx
    <2>2. CASE LoginSave(p)
        BY <2>2 DEF LoginSave, ReqInv, At
    <2>3. CASE IssueTokenPair(p)
        BY <2>3 DEF IssueTokenPair
    <2>4. CASE ActiveCredentialUserTx(p)
        BY <2>4 DEF ActiveCredentialUserTx
    <2>5. CASE LockRefreshToken(p)
        <3>1. req[p].tok \in Token
            BY <2>5 DEF LockRefreshToken, ReqInv, At
        <3> QED
            BY <2>5, <3>1 DEF LockRefreshToken
    <2>6. CASE RotateRefreshToken(p)
        <3>1. req[p].tok \in Token
            BY <2>6 DEF RotateRefreshToken, ReqInv, At
        <3> QED
            BY <2>6, <3>1, UnlockTyped DEF RotateRefreshToken, Replace
    <2>7. CASE RotateExpired(p) \/ ClaimRefused(p)
        BY <2>7, UnlockTyped DEF RotateExpired, ClaimRefused
    <2>8. CASE RevokeCommit(p)
        BY <2>8, UnlockTyped, RevokeRowsTyped DEF RevokeCommit
    <2>9. CASE UpdatePassword(p)
        <3>1. req[p].pw \in Password \cup {None}
            BY DEF Request
        <3>2. [user EXCEPT !.pw = req[p].pw] \in UserRow
            BY <3>1 DEF UserRow
        <3> QED
            BY <2>9, <3>2 DEF UpdatePassword
    <2>10. CASE ConsumePasswordReset(p)
        <3>1. req[p].pw \in Password \cup {None}
            BY DEF Request
        <3>2. [user EXCEPT !.pw = req[p].pw] \in UserRow
            BY <3>1 DEF UserRow
        <3> QED
            BY <2>10, <3>2, UnlockTyped, RevokeRowsTyped DEF ConsumePasswordReset
    <2>11. CASE ConsumeEmailVerification(p)
        <3>1. [user EXCEPT !.verified = TRUE] \in UserRow
            BY DEF UserRow
        <3> QED
            BY <2>11, <3>1, UnlockTyped DEF ConsumeEmailVerification
    <2>12. CASE CreateVerificationToken(p)
        BY <2>12 DEF CreateVerificationToken
    <2> QED
        BY <1>3, <2>1, <2>2, <2>3, <2>4, <2>5, <2>6, <2>7, <2>8, <2>9, <2>10,
           <2>11, <2>12 DEF Step
<1>4. CASE Environment
    <2>1. ASSUME NEW p \in Proc, LoginSaveFails(p) \/ Abort(p)
          PROVE  RestOK'
        BY <2>1, UnlockTyped DEF LoginSaveFails, Abort
    <2>2. ASSUME NEW t \in Token, ExpireRefreshToken(t)
          PROVE  RestOK'
        BY <2>2 DEF ExpireRefreshToken
    <2>3. ASSUME NEW v \in VToken, ExpireVerificationToken(v) \/ OperatorMint(v)
          PROVE  RestOK'
        BY <2>3 DEF ExpireVerificationToken, OperatorMint
    <2>4. ASSUME NEW s \in Status, OperatorSetStatus(s)
          PROVE  RestOK'
        <3>1. [user EXCEPT !.status = s] \in UserRow
            BY SessionsAssumption DEF UserRow
        <3> QED
            BY <2>4, <3>1 DEF OperatorSetStatus
    <2>5. ASSUME NEW s \in TenantStatus, OperatorSetTenant(s)
          PROVE  RestOK'
        BY <2>5, SessionsAssumption DEF OperatorSetTenant
    <2> QED
        BY <1>4, <2>1, <2>2, <2>3, <2>4, <2>5 DEF Environment
<1>5. CASE UNCHANGED vars
    BY <1>5 DEF vars
<1> QED
    BY <1>2, <1>3, <1>4, <1>5 DEF Next

-----------------------------------------------------------------------------
\* Only the two inserts of a refresh token touch families and replaced_by.
LEMMA FamilyFrame ==
    ASSUME [Next]_vars
    PROVE  \/ UNCHANGED <<family, replacedBy>>
           \/ \E p \in Proc : IssueTokenPair(p) \/ RotateRefreshToken(p)
<1> USE DEF tokens
<1>1. ASSUME NEW p \in Proc, Arrive(p)
      PROVE  UNCHANGED <<family, replacedBy>>
    BY <1>1 DEF Arrive, Login, OAuthLogin, Refresh, Logout, ChangePassword,
       ResetPassword, VerifyEmail, RequestPasswordReset, RequestEmailVerification
<1>2. ASSUME NEW p \in Proc, Step(p)
      PROVE  \/ UNCHANGED <<family, replacedBy>>
             \/ IssueTokenPair(p) \/ RotateRefreshToken(p)
    BY <1>2 DEF Step, LoginTenant, LoginSave, ActiveCredentialUserTx,
       LockRefreshToken, RotateExpired, RotateReused, RevokeStart, RevokeCommit,
       RevokeRows, UpdatePassword, ClaimRefused, ClaimVerificationTokenTx,
       ConsumePasswordReset, ConsumeEmailVerification, CreateVerificationToken
<1>3. CASE Environment
    BY <1>3 DEF Environment, LoginSaveFails, Abort, ExpireRefreshToken,
       ExpireVerificationToken, OperatorMint, OperatorSetStatus, OperatorSetTenant
<1>4. CASE UNCHANGED vars
    BY <1>4 DEF vars
<1> QED
    BY <1>1, <1>2, <1>3, <1>4 DEF Next

\* A stored token stays in its family.
LEMMA StoredStays ==
    ASSUME TypeOK, [Next]_vars
    PROVE  \A t \in Token : Stored(t) => Stored(t)' /\ family'[t] = family[t]
<1>1. ASSUME NEW p \in Proc, IssueTokenPair(p)
      PROVE  \A t \in Token : Stored(t) => Stored(t)' /\ family'[t] = family[t]
    BY <1>1, SessionsAssumption DEF IssueTokenPair, TypeOK, Stored
<1>2. ASSUME NEW p \in Proc, RotateRefreshToken(p)
      PROVE  \A t \in Token : Stored(t) => Stored(t)' /\ family'[t] = family[t]
    BY <1>2 DEF RotateRefreshToken, Replace, TypeOK, Stored
<1> QED
    BY <1>1, <1>2, FamilyFrame DEF Stored

\* What holds of a request's step and cargo, and who holds the account lock.
LEMMA RequestStep ==
    ASSUME TypeOK, ReqInv, LockInv, [Next]_vars
    PROVE  ReqInv' /\ LockInv'
<1> DEFINE Carries(p) ==
        /\ req[p].pc \in {"tenant", "save"} =>
            req[p].op = "login" /\ req[p].row \in UserRow
        /\ req[p].vtok # None => req[p].op \in {"reset", "verify"}
        /\ req[p].pc = "lock" => req[p].op \in {"refresh", "reset", "verify"}
        /\ req[p].pc \in {"token", "rotate"} => req[p].op = "refresh"
        /\ req[p].pc = "claim" => req[p].op \in {"reset", "verify"}
        /\ req[p].pc = "start" => req[p].op \in {"logout", "change"}
        /\ req[p].pc = "write" => req[p].op = "change"
        /\ req[p].op \in {"refresh", "logout"} =>
            req[p].tok \in Token /\ Stored(req[p].tok)
        /\ req[p].pc = "apply" =>
            \A t \in req[p].rows : t \in Token /\ Stored(t)
        /\ req[p].op = "reset" => req[p].vtok \in VToken
        /\ req[p].pc = "claim" => req[p].vtok \in VToken
        /\ (req[p].pc = "lock" /\ req[p].op = "verify") => req[p].vtok \in VToken
<1>1. ReqInv <=> \A p \in Proc : Carries(p)
    BY DEF ReqInv
<1>2. ReqInv' <=> \A p \in Proc : Carries(p)'
    BY DEF ReqInv
<1>3. ASSUME NEW q \in Proc, req'[q] = req[q]
      PROVE  Carries(q)' /\ (HoldsAccount(q)' <=> HoldsAccount(q))
    BY <1>1, <1>3, StoredStays DEF HoldsAccount
<1> HIDE DEF Carries
<1> DEFINE Good(p) == Carries(p)' /\ (userLock' = p <=> HoldsAccount(p)')
<1>4. ASSUME NEW p \in Proc, NEW r, req' = [req EXCEPT ![p] = r],
             \A q \in Proc \ {p} : userLock' = q <=> userLock = q,
             Good(p)
      PROVE  ReqInv' /\ LockInv'
    <2>1. \A q \in Proc \ {p} : req'[q] = req[q]
        BY <1>4 DEF TypeOK
    <2>2. \A q \in Proc \ {p} : Good(q)
        BY <1>3, <1>4, <2>1 DEF LockInv
    <2> QED
        BY <1>2, <1>4, <2>2 DEF LockInv
<1>5. ASSUME UNCHANGED <<req, userLock>>
      PROVE  ReqInv' /\ LockInv'
    <2>1. \A q \in Proc : Good(q)
        BY <1>3, <1>5 DEF LockInv
    <2> QED
        BY <1>2, <2>1 DEF LockInv
\* A request that is answered keeps nothing.
<1>6. ASSUME NEW p \in Proc, Answer(p), Unlock(p) \/ (UNCHANGED userLock /\ ~HoldsAccount(p))
      PROVE  ReqInv' /\ LockInv'
    <2>1. req'[p] = NoRequest
        BY <1>6 DEF Answer, TypeOK
    <2>2. Carries(p)' /\ ~HoldsAccount(p)'
        BY <2>1 DEF Carries, HoldsAccount, NoRequest
    <2>3. /\ userLock' # p
          /\ \A q \in Proc \ {p} : userLock' = q <=> userLock = q
        BY <1>6, SessionsAssumption DEF Unlock, LockInv
    <2>4. req' = [req EXCEPT ![p] = NoRequest]
        BY <1>6 DEF Answer
    <2> QED
        BY <1>4, <2>2, <2>3, <2>4
\* A request that moves on.
<1>7. ASSUME NEW p \in Proc, NEW l, Goto(p, l)
      PROVE  /\ \E r : req' = [req EXCEPT ![p] = r]
             /\ req'[p].pc = l /\ req'[p].op = req[p].op /\ req'[p].tok = req[p].tok
             /\ req'[p].vtok = req[p].vtok /\ req'[p].row = req[p].row
    <2>1. req[p] \in Request
        BY DEF TypeOK
    <2>2. req' = [req EXCEPT ![p] = [req[p] EXCEPT !.pc = l]]
        BY <1>7 DEF Goto
    <2>3. req'[p] = [req[p] EXCEPT !.pc = l]
        BY <2>2 DEF TypeOK
    <2>4. \E r : req' = [req EXCEPT ![p] = r]
        BY <2>2
    <2>5. /\ req'[p].pc = l /\ req'[p].op = req[p].op /\ req'[p].tok = req[p].tok
          /\ req'[p].vtok = req[p].vtok /\ req'[p].row = req[p].row
        BY <2>1, <2>3, GotoFields
    <2> QED
        BY <2>4, <2>5, Zenon
<1>8. ASSUME NEW p \in Proc, StartUpdate(p)
      PROVE  /\ \E r : req' = [req EXCEPT ![p] = r]
             /\ req'[p].pc = "apply" /\ req'[p].op = req[p].op
             /\ req'[p].tok = req[p].tok /\ req'[p].vtok = req[p].vtok
             /\ \A t \in req'[p].rows : t \in Token /\ Stored(t)
    <2> DEFINE g == [req[p] EXCEPT !.pc = "apply", !.rows = RowsToRevoke(p)]
    <2>1. req[p] \in Request
        BY DEF TypeOK
    <2>2. req' = [req EXCEPT ![p] = g]
        BY <1>8 DEF StartUpdate
    <2>3. req'[p] = g
        BY <2>2 DEF TypeOK
    <2>4. /\ g.pc = "apply" /\ g.op = req[p].op
          /\ g.tok = req[p].tok /\ g.vtok = req[p].vtok /\ g.rows = RowsToRevoke(p)
        BY <2>1, UpdateFields
    <2> HIDE DEF g
    <2>5. \E r : req' = [req EXCEPT ![p] = r]
        BY <2>2
    <2>6. /\ req'[p].pc = "apply" /\ req'[p].op = req[p].op
          /\ req'[p].tok = req[p].tok /\ req'[p].vtok = req[p].vtok
          /\ \A t \in req'[p].rows : t \in Token /\ Stored(t)
        BY <2>3, <2>4 DEF RowsToRevoke, Live
    <2> QED
        BY <2>5, <2>6, Zenon
\* A request that comes in.
<1>9. ASSUME NEW p \in Proc, NEW r, Begin(p, r)
      PROVE  /\ req' = [req EXCEPT ![p] = r] /\ req'[p] = r
             /\ ~HoldsAccount(p) /\ userLock # p
    BY <1>9 DEF Begin, At, TypeOK, HoldsAccount, LockInv
<1>10. ASSUME NEW p \in Proc, Arrive(p)
       PROVE  ReqInv' /\ LockInv'
    <2> DEFINE Entered(r) ==
            /\ Begin(p, r)
            /\ UNCHANGED userLock
            /\ r.pc \notin {"token", "rotate", "claim", "apply", "start"}
            /\ r.pc \in {"tenant", "save"} => r.op = "login" /\ r.row \in UserRow
            /\ r.vtok # None => r.op \in {"reset", "verify"}
            /\ r.pc = "lock" => r.op \in {"refresh", "reset", "verify"}
            /\ r.pc = "write" => r.op = "change"
            /\ r.op = "refresh" => r.tok \in Token /\ Stored(r.tok)
            /\ r.op # "logout"
            /\ r.op = "reset" => r.vtok \in VToken
            /\ (r.pc = "lock" /\ r.op = "verify") => r.vtok \in VToken
    <2>1. ASSUME NEW r, Entered(r)
          PROVE  ReqInv' /\ LockInv'
        <3>1. req' = [req EXCEPT ![p] = r] /\ req'[p] = r /\ userLock # p
            BY <1>9, <2>1
        <3>2. Good(p)
            BY <2>1, <3>1, StoredStays DEF Carries, HoldsAccount
        <3> QED
            BY <1>4, <2>1, <3>1, <3>2
    <2>2. CASE Login(p)
        BY <2>1, <2>2 DEF Login, NoRequest, locks, TypeOK
    <2>3. CASE OAuthLogin(p)
        BY <2>1, <2>3 DEF OAuthLogin, NoRequest, locks
    <2>4. ASSUME NEW t \in Token, Refresh(p, t)
          PROVE  ReqInv' /\ LockInv'
        BY <2>1, <2>4 DEF Refresh, NoRequest, locks
    <2>5. ASSUME NEW t \in Token, Logout(p, t)
          PROVE  ReqInv' /\ LockInv'
        <3> DEFINE r == [NoRequest EXCEPT !.op = "logout", !.pc = "start", !.tok = t]
        <3>1. req' = [req EXCEPT ![p] = r] /\ req'[p] = r /\ userLock # p
            BY <1>9, <2>5 DEF Logout
        <3>2. r.op = "logout" /\ r.pc = "start" /\ r.tok = t /\ Stored(t) /\ r.vtok = None
            BY <2>5 DEF Logout, NoRequest
        <3>3. UNCHANGED userLock
            BY <2>5 DEF Logout, locks
        <3> HIDE DEF r
        <3>4. Good(p)
            BY <3>1, <3>2, <3>3, StoredStays DEF Carries, HoldsAccount
        <3> QED
            BY <1>4, <3>1, <3>3, <3>4
    <2>6. ASSUME NEW q \in Password, ChangePassword(p, q)
          PROVE  ReqInv' /\ LockInv'
        BY <2>1, <2>6 DEF ChangePassword, NoRequest, locks
    <2>7. ASSUME NEW v \in ResetToken, NEW q \in Password, ResetPassword(p, v, q)
          PROVE  ReqInv' /\ LockInv'
        BY <2>1, <2>7 DEF ResetPassword, NoRequest, VToken, locks
    <2>8. ASSUME NEW v \in VerifyToken, VerifyEmail(p, v)
          PROVE  ReqInv' /\ LockInv'
        BY <2>1, <2>8 DEF VerifyEmail, NoRequest, VToken, locks
    <2>9. CASE RequestPasswordReset(p) \/ RequestEmailVerification(p)
        BY <2>1, <2>9 DEF RequestPasswordReset, RequestEmailVerification, NoRequest, locks
    <2> QED
        BY <1>10, <2>2, <2>3, <2>4, <2>5, <2>6, <2>7, <2>8, <2>9 DEF Arrive
\* A request that moves on, its lock untouched or just taken.
<1>11. ASSUME NEW p \in Proc,
              \E r : req' = [req EXCEPT ![p] = r],
              \A q \in Proc \ {p} : userLock' = q <=> userLock = q,
              Good(p)
       PROVE  ReqInv' /\ LockInv'
    BY <1>4, <1>11
<1>12. ASSUME NEW p \in Proc, Step(p)
       PROVE  ReqInv' /\ LockInv'
    <2>0. Carries(p) /\ (userLock = p <=> HoldsAccount(p))
        BY <1>1 DEF LockInv
    <2>1. CASE LoginTenant(p)
        <3>1. CASE Goto(p, "save")
            <4>1. Good(p)
                BY <1>7, <2>0, <2>1, <3>1, StoredStays
                   DEF LoginTenant, At, Carries, HoldsAccount, locks
            <4> QED
                BY <1>7, <1>11, <2>1, <3>1, <4>1 DEF LoginTenant, locks
        <3>2. CASE Answer(p)
            BY <1>6, <2>1, <3>2 DEF LoginTenant, At, HoldsAccount, locks
        <3> QED
            BY <2>1, <3>1, <3>2 DEF LoginTenant
    <2>2. CASE LoginSave(p)
        <3>1. Goto(p, "issue") /\ UNCHANGED userLock /\ req[p].pc = "save"
            BY <2>2 DEF LoginSave, At, locks
        <3>2. Good(p)
            BY <1>7, <2>0, <3>1, StoredStays DEF Carries, HoldsAccount
        <3> QED
            BY <1>7, <1>11, <3>1, <3>2
    <2>3. CASE IssueTokenPair(p) \/ CreateVerificationToken(p)
        BY <1>6, <2>3 DEF IssueTokenPair, CreateVerificationToken, At, HoldsAccount, locks
    <2>4. CASE ActiveCredentialUserTx(p)
        <3>1. CASE Answer(p) /\ UNCHANGED userLock
            BY <1>6, <2>4, <3>1 DEF ActiveCredentialUserTx, At, HoldsAccount
        <3>2. CASE /\ userLock = None /\ userLock' = p
                   /\ Goto(p, IF req[p].op = "refresh" THEN "token" ELSE "claim")
            <4>1. req[p].pc = "lock"
                BY <2>4 DEF ActiveCredentialUserTx, At
            <4>2. Good(p)
                BY <1>7, <2>0, <3>2, <4>1, StoredStays DEF Carries, HoldsAccount
            <4>3. \A q \in Proc \ {p} : userLock' = q <=> userLock = q
                BY <3>2, SessionsAssumption
            <4> QED
                BY <1>7, <1>11, <3>2, <4>2, <4>3
        <3> QED
            BY <2>4, <3>1, <3>2 DEF ActiveCredentialUserTx
    <2>5. CASE LockRefreshToken(p)
        <3>1. Goto(p, "rotate") /\ UNCHANGED userLock /\ req[p].pc = "token"
            BY <2>5 DEF LockRefreshToken, At
        <3>2. Good(p)
            BY <1>7, <2>0, <3>1, StoredStays DEF Carries, HoldsAccount
        <3> QED
            BY <1>7, <1>11, <3>1, <3>2
    <2>6. CASE RotateRefreshToken(p) \/ RotateExpired(p) \/ RevokeCommit(p)
               \/ ClaimRefused(p) \/ ConsumePasswordReset(p)
               \/ ConsumeEmailVerification(p)
        BY <1>6, <2>6 DEF RotateRefreshToken, Replace, RotateExpired, RevokeCommit,
           ClaimRefused, ConsumePasswordReset, ConsumeEmailVerification
    <2>7. CASE RotateReused(p) \/ RevokeStart(p) \/ ClaimVerificationTokenTx(p)
        <3>1. /\ StartUpdate(p) /\ UNCHANGED userLock
              /\ \/ req[p].pc = "rotate"
                 \/ req[p].pc = "start"
                 \/ req[p].pc = "claim" /\ req[p].op = "reset"
            BY <2>7 DEF RotateReused, RevokeStart, ClaimVerificationTokenTx, At, locks
        <3>2. Good(p)
            BY <1>8, <2>0, <3>1, StoredStays DEF Carries, HoldsAccount
        <3> QED
            BY <1>8, <1>11, <3>1, <3>2
    <2>8. CASE UpdatePassword(p)
        <3>1. req[p].pc = "write" /\ UNCHANGED userLock
            BY <2>8 DEF UpdatePassword, At, locks
        <3>2. CASE Answer(p)
            BY <1>6, <3>1, <3>2 DEF HoldsAccount
        <3>3. CASE Goto(p, "start")
            <4>1. Good(p)
                BY <1>7, <2>0, <3>1, <3>3, StoredStays DEF Carries, HoldsAccount
            <4> QED
                BY <1>7, <1>11, <3>1, <3>3, <4>1
        <3> QED
            BY <2>8, <3>2, <3>3 DEF UpdatePassword
    <2> QED
        BY <1>12, <2>1, <2>2, <2>3, <2>4, <2>5, <2>6, <2>7, <2>8 DEF Step
<1>13. CASE Environment
    <2>1. ASSUME NEW p \in Proc, LoginSaveFails(p)
          PROVE  ReqInv' /\ LockInv'
        <3>1. Goto(p, "issue") /\ UNCHANGED userLock /\ req[p].pc = "save"
            BY <2>1 DEF LoginSaveFails, At, locks
        <3>2. Carries(p) /\ (userLock = p <=> HoldsAccount(p))
            BY <1>1 DEF LockInv
        <3>3. Good(p)
            BY <1>7, <3>1, <3>2, StoredStays DEF Carries, HoldsAccount
        <3> QED
            BY <1>7, <1>11, <3>1, <3>3
    <2>2. ASSUME NEW p \in Proc, Abort(p)
          PROVE  ReqInv' /\ LockInv'
        BY <1>6, <2>2 DEF Abort
    <2>3. CASE UNCHANGED <<req, userLock>>
        BY <1>5, <2>3
    <2> QED
        BY <1>13, <2>1, <2>2, <2>3 DEF Environment, ExpireRefreshToken, locks,
           ExpireVerificationToken, OperatorMint, OperatorSetStatus, OperatorSetTenant
<1>14. CASE UNCHANGED vars
    BY <1>5, <1>14 DEF vars
<1> QED
    BY <1>10, <1>12, <1>13, <1>14 DEF Next

-----------------------------------------------------------------------------
\* Only rotations and the UPDATEs of revocations touch revoked_at.
LEMMA RevokedFrame ==
    ASSUME [Next]_vars
    PROVE  \/ UNCHANGED revoked
           \/ \E p \in Proc : At(p, "apply") /\ RevokeRows(p)
           \/ \E p \in Proc : RotateRefreshToken(p)
<1> USE DEF tokens
<1>1. ASSUME NEW p \in Proc, Arrive(p)
      PROVE  UNCHANGED revoked
    BY <1>1 DEF Arrive, Login, OAuthLogin, Refresh, Logout, ChangePassword,
       ResetPassword, VerifyEmail, RequestPasswordReset, RequestEmailVerification
<1>2. ASSUME NEW p \in Proc, Step(p)
      PROVE  \/ UNCHANGED revoked
             \/ At(p, "apply") /\ RevokeRows(p)
             \/ RotateRefreshToken(p)
    BY <1>2 DEF Step, LoginTenant, LoginSave, IssueTokenPair, ActiveCredentialUserTx,
       LockRefreshToken, RotateExpired, RotateReused, RevokeStart, RevokeCommit,
       UpdatePassword, ClaimRefused, ClaimVerificationTokenTx,
       ConsumePasswordReset, ConsumeEmailVerification, CreateVerificationToken
<1>3. CASE Environment
    BY <1>3 DEF Environment, LoginSaveFails, Abort, ExpireRefreshToken,
       ExpireVerificationToken, OperatorMint, OperatorSetStatus, OperatorSetTenant
<1>4. CASE UNCHANGED vars
    BY <1>4 DEF vars
<1> QED
    BY <1>1, <1>2, <1>3, <1>4 DEF Next

\* No step clears revoked_at, and only stored tokens are revoked.
LEMMA RevokedStays ==
    ASSUME TypeOK, ReqInv, [Next]_vars
    PROVE  /\ \A t \in Token : revoked[t] => revoked'[t]
           /\ \A t \in Token : revoked'[t] => revoked[t] \/ Stored(t)
<1>1. ASSUME NEW p \in Proc, At(p, "apply"), RevokeRows(p)
      PROVE  /\ \A t \in Token : revoked[t] => revoked'[t]
             /\ \A t \in Token : revoked'[t] => revoked[t] \/ Stored(t)
    BY <1>1 DEF RevokeRows, ReqInv, At
<1>2. ASSUME NEW p \in Proc, RotateRefreshToken(p)
      PROVE  /\ \A t \in Token : revoked[t] => revoked'[t]
             /\ \A t \in Token : revoked'[t] => revoked[t] \/ Stored(t)
    BY <1>2 DEF RotateRefreshToken, Replace, TypeOK, ReqInv, At
<1> QED
    BY <1>1, <1>2, RevokedFrame

\* Families stay well-formed and never fork.
LEMMA FamilyStep ==
    ASSUME TypeOK, ReqInv, FamilyInv, FamilyLinear, [Next]_vars
    PROVE  FamilyInv' /\ FamilyLinear'
<1>1. CASE UNCHANGED <<family, replacedBy>>
    <2>1. FamilyInv'
        BY <1>1, RevokedStays DEF FamilyInv, Stored
    <2>2. FamilyLinear'
        BY <1>1 DEF FamilyLinear, Tip, Stored
    <2> QED
        BY <2>1, <2>2
<1>2. ASSUME NEW p \in Proc, IssueTokenPair(p)
      PROVE  FamilyInv' /\ FamilyLinear'
    <2>1. PICK t \in Token : ~Stored(t) /\ family' = [family EXCEPT ![t] = t]
        BY <1>2 DEF IssueTokenPair
    <2>2. \A s \in Token : family'[s] = IF s = t THEN t ELSE family[s]
        BY <2>1 DEF TypeOK
    <2>3. UNCHANGED <<revoked, replacedBy>>
        BY <1>2 DEF IssueTokenPair
    <2>4. \A s \in Token : Stored(s)' <=> s = t \/ Stored(s)
        BY <2>2, SessionsAssumption DEF Stored
    <2>5. \A s \in Token : Stored(s) => family[s] \in Token /\ Stored(family[s]) /\ family[s] # t
        BY <2>1 DEF FamilyInv, TypeOK, Stored
    <2>6. FamilyInv'
        BY <2>2, <2>3, <2>4, <2>5 DEF FamilyInv
    <2>7. \A s \in Token : Tip(s)' <=> (s = t /\ replacedBy[t] = None) \/ Tip(s)
        BY <2>1, <2>3, <2>4 DEF Tip
    <2>8. FamilyLinear'
        BY <2>1, <2>2, <2>5, <2>7 DEF FamilyLinear, Tip
    <2> QED
        BY <2>6, <2>8
<1>3. ASSUME NEW p \in Proc, RotateRefreshToken(p)
      PROVE  FamilyInv' /\ FamilyLinear'
    <2> DEFINE t == req[p].tok
    <2>1. t \in Token /\ Stored(t) /\ replacedBy[t] = None /\ ~revoked[t]
        BY <1>3 DEF RotateRefreshToken, ReqInv, At
    <2>2. PICK n \in Token :
            /\ ~Stored(n)
            /\ family' = [family EXCEPT ![n] = family[t]]
            /\ replacedBy' = [replacedBy EXCEPT ![t] = n]
        BY <1>3 DEF RotateRefreshToken, Replace
    <2>3. revoked' = [revoked EXCEPT ![t] = TRUE]
        BY <1>3 DEF RotateRefreshToken, Replace
    <2> HIDE DEF t
    <2>4. \A s \in Token :
            /\ family'[s] = IF s = n THEN family[t] ELSE family[s]
            /\ replacedBy'[s] = IF s = t THEN n ELSE replacedBy[s]
            /\ revoked'[s] <=> s = t \/ revoked[s]
        BY <2>1, <2>2, <2>3 DEF TypeOK
    <2>5. \A s \in Token : Stored(s)' <=> s = n \/ Stored(s)
        BY <2>1, <2>4 DEF Stored
    <2>6. \A s \in Token : Stored(s) => family[s] \in Token /\ Stored(family[s]) /\ family[s] # n
        BY <2>2 DEF FamilyInv, TypeOK, Stored
    <2>7. FamilyInv'
        BY <2>1, <2>4, <2>5, <2>6 DEF FamilyInv
    <2>8. n # None
        BY SessionsAssumption
    <2>9. \A s \in Token : Tip(s)' => s # t /\ (s = n \/ Tip(s))
        BY <2>1, <2>4, <2>5, <2>8 DEF Tip
    <2>10. FamilyLinear'
        BY <2>1, <2>4, <2>9 DEF FamilyLinear, Tip
    <2> QED
        BY <2>7, <2>10
<1> QED
    BY <1>1, <1>2, <1>3, FamilyFrame

-----------------------------------------------------------------------------
\* Any step is the step of one request, or leaves every request alone.
LEMMA RequestFrame ==
    ASSUME TypeOK, [Next]_vars, NEW p \in Proc
    PROVE  \/ req'[p] = req[p]
           \/ Arrive(p) \/ Step(p) \/ LoginSaveFails(p) \/ Abort(p)
<1>1. ASSUME NEW q \in Proc, NEW r, req' = [req EXCEPT ![q] = r], q # p
      PROVE  req'[p] = req[p]
    BY <1>1 DEF TypeOK
<1>2. ASSUME NEW q \in Proc, q # p,
             \/ \E r : Begin(q, r)
             \/ \E l : Goto(q, l)
             \/ Answer(q) \/ StartUpdate(q)
      PROVE  req'[p] = req[p]
    BY <1>1, <1>2 DEF Begin, Goto, Answer, StartUpdate
<1>3. ASSUME NEW q \in Proc, q # p, Arrive(q)
      PROVE  req'[p] = req[p]
    BY <1>2, <1>3 DEF Arrive, Login, OAuthLogin, Refresh, Logout, ChangePassword,
       ResetPassword, VerifyEmail, RequestPasswordReset, RequestEmailVerification
<1>4. ASSUME NEW q \in Proc, q # p, Step(q)
      PROVE  req'[p] = req[p]
    BY <1>2, <1>4 DEF Step, LoginTenant, LoginSave, IssueTokenPair,
       ActiveCredentialUserTx, LockRefreshToken, RotateRefreshToken, Replace,
       RotateExpired, RotateReused, RevokeStart, RevokeCommit, UpdatePassword,
       ClaimRefused, ClaimVerificationTokenTx, ConsumePasswordReset,
       ConsumeEmailVerification, CreateVerificationToken
<1>5. ASSUME NEW q \in Proc, q # p, LoginSaveFails(q) \/ Abort(q)
      PROVE  req'[p] = req[p]
    BY <1>2, <1>5 DEF LoginSaveFails, Abort
<1>6. CASE UNCHANGED req
    BY <1>6
<1> QED
    BY <1>3, <1>4, <1>5, <1>6 DEF Next, Environment, ExpireRefreshToken, vars,
       ExpireVerificationToken, OperatorMint, OperatorSetStatus, OperatorSetTenant

\* A request is brought to the commit of its UPDATE by the start of it only.
LEMMA ApplyFrame ==
    ASSUME TypeOK, [Next]_vars, NEW p \in Proc, At(p, "apply")'
    PROVE  \/ req'[p] = req[p]
           \/ RotateReused(p) \/ RevokeStart(p) \/ ClaimVerificationTokenTx(p)
<1>1. ASSUME NEW l, Goto(p, l)
      PROVE  req'[p].pc = l
    BY <1>1, GotoFields DEF Goto, TypeOK
<1>2. ASSUME Answer(p)
      PROVE  req'[p].pc = "idle"
    BY <1>2 DEF Answer, NoRequest, TypeOK
<1>3. ASSUME NEW r, Begin(p, r)
      PROVE  req'[p] = r
    BY <1>3 DEF Begin, TypeOK
<1>4. CASE Arrive(p)
    BY <1>3, <1>4 DEF Arrive, Login, OAuthLogin, Refresh, Logout, ChangePassword,
       ResetPassword, VerifyEmail, RequestPasswordReset, RequestEmailVerification,
       NoRequest, At
<1>5. CASE Step(p)
    BY <1>1, <1>2, <1>5 DEF Step, LoginTenant, LoginSave, IssueTokenPair,
       ActiveCredentialUserTx, LockRefreshToken, RotateRefreshToken, Replace,
       RotateExpired, RotateReused, RevokeStart, RevokeCommit, UpdatePassword,
       ClaimRefused, ClaimVerificationTokenTx, ConsumePasswordReset,
       ConsumeEmailVerification, CreateVerificationToken, At, tokens
<1>6. CASE LoginSaveFails(p) \/ Abort(p)
    BY <1>1, <1>2, <1>6 DEF LoginSaveFails, Abort, At
<1> QED
    BY <1>4, <1>5, <1>6, RequestFrame

\* The account lock is taken by the locked re-check only.
LEMMA LockTaken ==
    ASSUME TypeOK, [Next]_vars, NEW p \in Proc, userLock # p, userLock' = p
    PROVE  ActiveCredentialUserTx(p)
<1> USE DEF locks
<1>1. ASSUME NEW q \in Proc, Unlock(q)
      PROVE  FALSE
    BY <1>1, SessionsAssumption DEF Unlock
<1>2. ASSUME NEW q \in Proc, Arrive(q)
      PROVE  FALSE
    BY <1>2 DEF Arrive, Login, OAuthLogin, Refresh, Logout, ChangePassword,
       ResetPassword, VerifyEmail, RequestPasswordReset, RequestEmailVerification
<1>3. ASSUME NEW q \in Proc, Step(q)
      PROVE  ActiveCredentialUserTx(q) /\ q = p
    BY <1>1, <1>3 DEF Step, LoginTenant, LoginSave, IssueTokenPair,
       ActiveCredentialUserTx, LockRefreshToken, RotateRefreshToken, Replace,
       RotateExpired, RotateReused, RevokeStart, RevokeCommit, UpdatePassword,
       ClaimRefused, ClaimVerificationTokenTx, ConsumePasswordReset,
       ConsumeEmailVerification, CreateVerificationToken
<1>4. CASE Environment \/ UNCHANGED vars
    BY <1>1, <1>4 DEF Environment, LoginSaveFails, Abort, ExpireRefreshToken, vars,
       ExpireVerificationToken, OperatorMint, OperatorSetStatus, OperatorSetTenant
<1> QED
    BY <1>2, <1>3, <1>4 DEF Next

\* While the account is locked its row, its tenant and, during an UPDATE of
\* the holder, the families of its tokens stay as they are.
LEMMA HeldFrame ==
    ASSUME TypeOK, LockInv, [Next]_vars, NEW p \in Proc, userLock = p, userLock' = p
    PROVE  UNCHANGED <<tenant, user>> /\ (At(p, "apply") => UNCHANGED family)
<1> USE DEF tokens, locks
<1>1. userLock # None
    BY SessionsAssumption
\* The other holder there could be is p itself, which would give up the lock.
<1>2. ASSUME NEW q \in Proc, Unlock(q), HoldsAccount(q)
      PROVE  FALSE
    BY <1>1, <1>2 DEF Unlock, LockInv
<1>3. ASSUME NEW q \in Proc, Arrive(q)
      PROVE  UNCHANGED <<tenant, user, family>>
    BY <1>3 DEF Arrive, Login, OAuthLogin, Refresh, Logout, ChangePassword,
       ResetPassword, VerifyEmail, RequestPasswordReset, RequestEmailVerification
<1>4. ASSUME NEW q \in Proc, Step(q)
      PROVE  UNCHANGED <<tenant, user, family>>
    <2>1. CASE RotateRefreshToken(q) \/ ConsumePasswordReset(q) \/ ConsumeEmailVerification(q)
        BY <1>2, <2>1 DEF RotateRefreshToken, Replace, ConsumePasswordReset,
           ConsumeEmailVerification, HoldsAccount, At
    <2>2. CASE LoginSave(q) \/ IssueTokenPair(q) \/ UpdatePassword(q)
        BY <1>1, <2>2 DEF LoginSave, IssueTokenPair, UpdatePassword
    <2>3. CASE RevokeCommit(q)
        BY <2>3 DEF RevokeCommit, RevokeRows
    <2> QED
        BY <1>4, <2>1, <2>2, <2>3 DEF Step, LoginTenant, ActiveCredentialUserTx,
           LockRefreshToken, RotateExpired, RotateReused, RevokeStart,
           ClaimRefused, ClaimVerificationTokenTx, CreateVerificationToken
<1>5. CASE Environment \/ UNCHANGED vars
    BY <1>1, <1>5 DEF Environment, LoginSaveFails, Abort, ExpireRefreshToken, vars,
       ExpireVerificationToken, OperatorMint, OperatorSetStatus, OperatorSetTenant
<1> QED
    BY <1>3, <1>4, <1>5 DEF Next

\* What the locked re-check has established holds until the commit.
LEMMA ProtectStep ==
    ASSUME TypeOK, ReqInv, LockInv, LockProtects, [Next]_vars
    PROVE  LockProtects'
<1> SUFFICES ASSUME NEW p \in Proc, userLock' = p
             PROVE  /\ CredentialActive'
                    /\ At(p, "apply")' => RowsToRevoke(p)' \subseteq req'[p].rows
    BY DEF LockProtects
<1>1. CASE userLock = p
    <2>1. UNCHANGED <<tenant, user>>
        BY <1>1, HeldFrame
    <2>2. CredentialActive'
        BY <1>1, <2>1 DEF LockProtects, CredentialActive
    <2>3. ASSUME At(p, "apply")', req'[p] = req[p]
          PROVE  RowsToRevoke(p)' \subseteq req'[p].rows
        <3>1. At(p, "apply") /\ UNCHANGED family
            BY <1>1, <2>3, HeldFrame DEF At
        <3>2. RowsToRevoke(p)' \subseteq RowsToRevoke(p)
            BY <2>3, <3>1, RevokedStays DEF RowsToRevoke, Live, Stored, InScope
        <3> QED
            BY <1>1, <2>3, <3>1, <3>2 DEF LockProtects
    <2>4. ASSUME StartUpdate(p), UNCHANGED <<family, revoked>>
          PROVE  RowsToRevoke(p)' \subseteq req'[p].rows
        <3>1. req[p] \in Request
            BY DEF TypeOK
        <3>2. req'[p] = [req[p] EXCEPT !.pc = "apply", !.rows = RowsToRevoke(p)]
            BY <2>4 DEF StartUpdate, TypeOK
        <3>3. /\ req'[p].op = req[p].op /\ req'[p].tok = req[p].tok
              /\ req'[p].rows = RowsToRevoke(p)
            BY <3>1, <3>2, UpdateFields
        <3>4. RowsToRevoke(p)' = RowsToRevoke(p)
            BY <2>4, <3>3 DEF RowsToRevoke, Live, Stored, InScope
        <3> QED
            BY <3>3, <3>4
    <2>5. RotateReused(p) \/ RevokeStart(p) \/ ClaimVerificationTokenTx(p) =>
            StartUpdate(p) /\ UNCHANGED <<family, revoked>>
        BY DEF RotateReused, RevokeStart, ClaimVerificationTokenTx, tokens
    <2> QED
        BY <2>2, <2>3, <2>4, <2>5, ApplyFrame
<1>2. CASE userLock # p
    <2>1. ActiveCredentialUserTx(p)
        BY <1>2, LockTaken
    <2>2. userLock # userLock'
        BY <1>2
    <2>3. CredentialActive /\ UNCHANGED <<tenant, user>>
        BY <2>1, <2>2 DEF ActiveCredentialUserTx
    <2>4. HoldsAccount(p)' /\ req'[p].pc \in {"token", "claim"}
        <3>1. Goto(p, IF req[p].op = "refresh" THEN "token" ELSE "claim")
            BY <2>1, <2>2 DEF ActiveCredentialUserTx
        <3>2. req'[p].pc = IF req[p].op = "refresh" THEN "token" ELSE "claim"
            BY <3>1, GotoFields DEF Goto, TypeOK
        <3> QED
            BY <3>2 DEF HoldsAccount
    <2> QED
        BY <2>3, <2>4 DEF CredentialActive, At
<1> QED
    BY <1>1, <1>2

-----------------------------------------------------------------------------
\* A claimed verification token is still its claimer's to spend.
LEMMA ClaimStep ==
    ASSUME TypeOK, ReqInv, LockInv, ClaimInv, [Next]_vars
    PROVE  ClaimInv'
<1> SUFFICES ASSUME NEW p \in Proc, At(p, "apply")', req'[p].op = "reset"
             PROVE  vt'[req'[p].vtok] \in {"unused", "expired"}
    BY DEF ClaimInv
<1>1. CASE ClaimVerificationTokenTx(p)
    <2>1. req'[p] = [req[p] EXCEPT !.pc = "apply", !.rows = RowsToRevoke(p)]
        BY <1>1 DEF ClaimVerificationTokenTx, StartUpdate, TypeOK
    <2>2. req'[p].vtok = req[p].vtok
        BY <2>1, UpdateFields DEF TypeOK
    <2> QED
        BY <1>1, <2>2 DEF ClaimVerificationTokenTx
<1>2. ASSUME RotateReused(p) \/ RevokeStart(p)
      PROVE  FALSE
    <2>1. req'[p] = [req[p] EXCEPT !.pc = "apply", !.rows = RowsToRevoke(p)]
        BY <1>2 DEF RotateReused, RevokeStart, StartUpdate, TypeOK
    <2>2. req'[p].op = req[p].op
        BY <2>1, UpdateFields DEF TypeOK
    <2> QED
        BY <1>2, <2>2 DEF RotateReused, RevokeStart, ReqInv, At
<1>3. CASE req'[p] = req[p]
    <2>1. At(p, "apply") /\ req[p].op = "reset" /\ req[p].vtok \in VToken
        BY <1>3 DEF At, ReqInv
    <2>2. vt[req[p].vtok] \in {"unused", "expired"} /\ userLock = p
        BY <2>1 DEF ClaimInv, LockInv, HoldsAccount, At
    <2>3. ASSUME NEW q \in Proc, ConsumePasswordReset(q) \/ ConsumeEmailVerification(q)
          PROVE  FALSE
        <3>1. q = p
            BY <2>2, <2>3 DEF ConsumePasswordReset, ConsumeEmailVerification,
               LockInv, HoldsAccount, At
        <3>2. req'[p] = NoRequest
            BY <2>3, <3>1 DEF ConsumePasswordReset, ConsumeEmailVerification, Answer, TypeOK
        <3> QED
            BY <1>3, <2>1, <3>2 DEF At, NoRequest
    <2>4. CASE UNCHANGED vt
        BY <1>3, <2>2, <2>4
    <2>5. ASSUME NEW v \in VToken, vt[v] = "absent", vt' = [vt EXCEPT ![v] = "unused"]
          PROVE  vt'[req[p].vtok] = vt[req[p].vtok]
        BY <2>1, <2>2, <2>5 DEF TypeOK
    <2>6. ASSUME NEW v \in VToken, ExpireVerificationToken(v)
          PROVE  vt'[req[p].vtok] \in {"unused", "expired"}
        BY <2>1, <2>2, <2>6 DEF ExpireVerificationToken, TypeOK
    <2>7. ASSUME NEW q \in Proc, Arrive(q)
          PROVE  UNCHANGED vt
        BY <2>7 DEF Arrive, Login, OAuthLogin, Refresh, Logout, ChangePassword,
           ResetPassword, VerifyEmail, RequestPasswordReset, RequestEmailVerification
    <2>8. ASSUME NEW q \in Proc, Step(q)
          PROVE  UNCHANGED vt \/ vt'[req[p].vtok] = vt[req[p].vtok]
        BY <2>3, <2>5, <2>8 DEF Step, LoginTenant, LoginSave, IssueTokenPair,
           ActiveCredentialUserTx, LockRefreshToken, RotateRefreshToken, Replace,
           RotateExpired, RotateReused, RevokeStart, RevokeCommit, UpdatePassword,
           ClaimRefused, ClaimVerificationTokenTx, CreateVerificationToken, VToken
    <2>9. CASE Environment \/ UNCHANGED vars
        BY <1>3, <2>2, <2>4, <2>5, <2>6, <2>9 DEF Environment, LoginSaveFails, Abort,
           ExpireRefreshToken, OperatorMint, OperatorSetStatus, OperatorSetTenant, vars
    <2> QED
        BY <1>3, <2>2, <2>4, <2>7, <2>8, <2>9 DEF Next
<1> QED
    BY <1>1, <1>2, <1>3, ApplyFrame

\* The initial states satisfy the inductive invariant.
LEMMA InitInv == Init => IInv
<1> SUFFICES ASSUME Init
             PROVE  IInv
    OBVIOUS
<1>1. NoRequest \in Request
    BY DEF NoRequest, Request, Op, Pc
<1>2. \A p \in Proc : req[p] = NoRequest /\ req[p].pc = "idle" /\ req[p].op = "none"
    BY DEF Init, NoRequest
<1>3. TypeOK
    BY <1>1, SessionsAssumption DEF Init, TypeOK, UserRow, TenantStatuses, Statuses
<1>4. ReqInv
    BY <1>2 DEF ReqInv, NoRequest
<1>5. LockInv /\ LockProtects /\ ClaimInv
    BY <1>2, SessionsAssumption DEF Init, LockInv, LockProtects, ClaimInv, HoldsAccount, At
<1>6. FamilyInv /\ FamilyLinear
    BY DEF Init, FamilyInv, FamilyLinear, Tip, Stored
<1> QED
    BY <1>3, <1>4, <1>5, <1>6 DEF IInv

\* Every step preserves it.
LEMMA StepInv == IInv /\ [Next]_vars => IInv'
    BY TypeStep, RequestStep, FamilyStep, ClaimStep, ProtectStep DEF IInv

\* IInv holds in every reachable state.
THEOREM Invariance == Spec => []IInv
    BY InitInv, StepInv, PTL DEF Spec

\* Every state of the account, its tokens and its requests is well-typed: no
\* step of any handler stores a value of another shape (OAuth login writing
\* back an account row it never read, say).
THEOREM TypeCorrect == Spec => []TypeOK
<1>1. IInv => TypeOK
    BY DEF IInv
<1> QED
    BY <1>1, Invariance, PTL

\* RotateRefreshToken's promise that concurrent uses of one token create at
\* most one descendant, for any number of requests and tokens.
THEOREM FamilyLinearity == Spec => []FamilyLinear
<1>1. IInv => FamilyLinear
    BY DEF IInv
<1> QED
    BY <1>1, Invariance, PTL

\* activeCredentialUserTx's check, and the rows picked by a revocation made
\* under its lock, are still right when the transaction commits.
THEOREM AccountLockProtects == Spec => []LockProtects
<1>1. IInv => LockProtects
    BY DEF IInv
<1> QED
    BY <1>1, Invariance, PTL

\* A replacement is committed for an active account of an active tenant only,
\* although the refresh checked both long before its commit.
THEOREM RotationIsAuthorised == Spec => RotationNeedsActiveAccount
<1>1. ASSUME IInv, [Next]_vars, NEW t \in Token, replacedBy'[t] # replacedBy[t]
      PROVE  CredentialActive
    <2>1. PICK p \in Proc : RotateRefreshToken(p)
        BY <1>1, FamilyFrame DEF IssueTokenPair
    <2>2. userLock = p
        BY <1>1, <2>1 DEF IInv, LockInv, HoldsAccount, RotateRefreshToken, At
    <2> QED
        BY <1>1, <2>2 DEF IInv, LockProtects
<1>2. IInv /\ [Next]_vars =>
        [(\E t \in Token : replacedBy'[t] # replacedBy[t]) => CredentialActive]_vars
    BY <1>1
<1> QED
    BY <1>2, Invariance, PTL DEF Spec, RotationNeedsActiveAccount

\* A password reset, and the reuse of a spent token, leave no live token in
\* their scope, whatever rotations and logins were in flight.
THEOREM LockedEndsAreTotal == Spec => LockedEndIsTotal
<1>1. ASSUME IInv, NEW p \in Proc,
             ConsumePasswordReset(p) \/ (req[p].op = "refresh" /\ RevokeCommit(p))
      PROVE  EndIsTotal(p)
    <2>1. At(p, "apply") /\ req[p].op \in {"refresh", "reset"} /\ RevokeRows(p)
        BY <1>1 DEF ConsumePasswordReset, RevokeCommit
    <2>2. userLock = p
        BY <1>1, <2>1 DEF IInv, LockInv, HoldsAccount, At
    <2>3. RowsToRevoke(p) \subseteq req[p].rows
        BY <1>1, <2>1, <2>2 DEF IInv, LockProtects
    <2>4. ASSUME NEW t \in Token, InScope(p, t), Live(t)'
          PROVE  FALSE
        <3>1. revoked'[t] = (revoked[t] \/ t \in req[p].rows) /\ family'[t] = family[t]
            BY <2>1 DEF RevokeRows
        <3>2. t \in RowsToRevoke(p)
            BY <2>4, <3>1 DEF RowsToRevoke, Live, Stored
        <3> QED
            BY <2>3, <2>4, <3>1, <3>2 DEF Live
    <2> QED
        BY <2>4 DEF EndIsTotal
<1>2. IInv /\ [Next]_vars =>
        [\A p \in Proc :
            (ConsumePasswordReset(p) \/ (req[p].op = "refresh" /\ RevokeCommit(p))) =>
                EndIsTotal(p)]_vars
    BY <1>1
<1> QED
    BY <1>2, Invariance, PTL DEF Spec, LockedEndIsTotal

\* A verification token is spent at most once, by whichever of its claimers
\* got the account lock first.
THEOREM ClaimedOnce == Spec => ClaimOnce
<1>1. ASSUME IInv, [Next]_vars, NEW p \in Proc,
             req[p].vtok # None, user' # user, req'[p] # req[p]
      PROVE  vt[req[p].vtok] \in {"unused", "expired"} /\ vt'[req[p].vtok] = "used"
    <2>1. req[p].op \in {"reset", "verify"}
        BY <1>1 DEF IInv, ReqInv
    <2>2. ~Arrive(p)
        BY <1>1 DEF Arrive, Login, OAuthLogin, Refresh, Logout, ChangePassword,
           ResetPassword, VerifyEmail, RequestPasswordReset, RequestEmailVerification
    <2>3. ~(LoginSaveFails(p) \/ Abort(p))
        BY <1>1 DEF LoginSaveFails, Abort
    <2>4. ~(LoginSave(p) \/ UpdatePassword(p))
        BY <1>1, <2>1 DEF LoginSave, UpdatePassword, IInv, ReqInv, At
    <2>5. ConsumePasswordReset(p) \/ ConsumeEmailVerification(p)
        BY <1>1, <2>2, <2>3, <2>4, RequestFrame DEF IInv, Step, LoginTenant,
           IssueTokenPair, ActiveCredentialUserTx, LockRefreshToken,
           RotateRefreshToken, Replace, RotateExpired, RotateReused, RevokeStart,
           RevokeCommit, ClaimRefused, ClaimVerificationTokenTx, CreateVerificationToken
    <2>6. vt[req[p].vtok] \in {"unused", "expired"} /\ req[p].vtok \in VToken
        BY <1>1, <2>5 DEF IInv, ClaimInv, ReqInv, ConsumePasswordReset,
           ConsumeEmailVerification, At
    <2>7. vt' = [vt EXCEPT ![req[p].vtok] = "used"]
        BY <2>5 DEF ConsumePasswordReset, ConsumeEmailVerification
    <2> QED
        BY <1>1, <2>6, <2>7 DEF IInv, TypeOK
<1>2. IInv /\ [Next]_vars =>
        [\A p \in Proc :
            (req[p].vtok # None /\ user' # user /\ req'[p] # req[p]) =>
                vt[req[p].vtok] \in {"unused", "expired"} /\ vt'[req[p].vtok] = "used"]_vars
    BY <1>1
<1> QED
    BY <1>2, Invariance, PTL DEF Spec, ClaimOnce

-----------------------------------------------------------------------------
\* The sessions implement SessionBook.

\* What UsableToken is: the one live token of a family, or None.
UsableIs ==
    \A f \in Token :
        /\ \A t \in Token : Live(t) /\ family[t] = f => UsableToken(f) = t
        /\ (\A t \in Token : ~(Live(t) /\ family[t] = f)) => UsableToken(f) = None

LEMMA UsableUnique == IInv => UsableIs
<1> SUFFICES ASSUME IInv, NEW f \in Token
             PROVE  /\ \A t \in Token : Live(t) /\ family[t] = f => UsableToken(f) = t
                    /\ (\A t \in Token : ~(Live(t) /\ family[t] = f)) => UsableToken(f) = None
    BY DEF UsableIs
<1>1. \A s, t \in Token : Live(s) /\ Live(t) /\ family[s] = f /\ family[t] = f => s = t
    BY DEF IInv, FamilyInv, FamilyLinear, Tip, Live
<1>2. ASSUME NEW t \in Token, Live(t), family[t] = f
      PROVE  UsableToken(f) = t
    <2>1. UsableToken(f) = CHOOSE s \in Token : Live(s) /\ family[s] = f
        BY <1>2 DEF UsableToken
    <2>2. UsableToken(f) \in Token /\ Live(UsableToken(f)) /\ family[UsableToken(f)] = f
        BY <1>2, <2>1
    <2> QED
        BY <1>1, <1>2, <2>2
<1>3. (\A t \in Token : ~(Live(t) /\ family[t] = f)) => UsableToken(f) = None
    BY DEF UsableToken
<1> QED
    BY <1>2, <1>3

THEOREM SessionsImplementBook == Spec => ImplementsSessionBook
<1>1. Init => Book!Init
    <2> SUFFICES ASSUME Init
                 PROVE  Book!Init
        OBVIOUS
    <2>1. \A t \in Token : ~Stored(t) /\ ~Live(t)
        BY DEF Init, Stored, Live
    <2>2. \A f \in Token : UsableToken(f) = None
        BY <2>1 DEF UsableToken
    <2> QED
        BY <2>1, <2>2 DEF Book!Init, StoredTokens, UsableTokens
<1>2. ASSUME IInv, UsableIs, IInv', UsableIs', [Next]_vars
      PROVE  [Book!Next]_<<StoredTokens, UsableTokens>>
    <2> USE <1>2
    <2>1. CASE UNCHANGED <<family, revoked>>
        BY <2>1 DEF StoredTokens, UsableTokens, UsableToken, Stored, Live
    <2>2. ASSUME NEW p \in Proc, IssueTokenPair(p)
          PROVE  Book!Next
        <3>1. PICK t \in Token : ~Stored(t) /\ family' = [family EXCEPT ![t] = t]
            BY <2>2 DEF IssueTokenPair
        <3>2. UNCHANGED revoked
            BY <2>2 DEF IssueTokenPair
        <3>3. \A s \in Token : family'[s] = IF s = t THEN t ELSE family[s]
            BY <3>1 DEF IInv, TypeOK
        <3>4. t # None /\ ~revoked[t]
            BY <3>1, SessionsAssumption DEF IInv, FamilyInv
        <3>5. \A s \in Token : Stored(s)' <=> s = t \/ Stored(s)
            BY <3>3, <3>4 DEF Stored
        <3>6. \A s \in Token : Live(s)' <=> s = t \/ Live(s)
            BY <3>1, <3>2, <3>4, <3>5 DEF Live
        <3>7. \A s \in Token : Live(s) => family[s] # t
            BY <3>1 DEF IInv, FamilyInv, TypeOK, Live
        <3>8. ASSUME NEW f \in Token
              PROVE  UsableToken(f)' = IF f = t THEN t ELSE UsableToken(f)
            <4>1. CASE f = t
                BY <3>3, <3>6, <4>1 DEF UsableIs
            <4>2. CASE f # t
                <5>1. \A s \in Token : (Live(s) /\ family[s] = f)' <=> Live(s) /\ family[s] = f
                    BY <3>1, <3>3, <3>6, <4>2 DEF Live
                <5>2. CASE \E s \in Token : Live(s) /\ family[s] = f
                    BY <4>2, <5>1, <5>2 DEF UsableIs
                <5>3. CASE \A s \in Token : ~(Live(s) /\ family[s] = f)
                    BY <4>2, <5>1, <5>3 DEF UsableIs
                <5> QED
                    BY <5>2, <5>3
            <4> QED
                BY <4>1, <4>2
        <3>9. UsableTokens' = [UsableTokens EXCEPT ![t] = t]
            BY <3>8 DEF UsableTokens
        <3>10. StoredTokens' = StoredTokens \cup {t} /\ t \notin StoredTokens
            BY <3>1, <3>5 DEF StoredTokens
        <3>11. Book!Open(t)
            BY <3>9, <3>10 DEF Book!Open, Book!Free
        <3> QED
            BY <3>11 DEF Book!Next
    <2>3. ASSUME NEW p \in Proc, RotateRefreshToken(p)
          PROVE  Book!Next
        <3>1. req[p].tok \in Token /\ Stored(req[p].tok)
            BY <2>3 DEF RotateRefreshToken, IInv, ReqInv, At
        <3>2. PICK t \in Token : t = req[p].tok /\ Stored(t) /\ ~revoked[t]
            BY <2>3, <3>1 DEF RotateRefreshToken
        <3>3. PICK f \in Token : f = family[t]
            BY <3>2 DEF IInv, TypeOK, Stored
        <3>4. PICK n \in Token : ~Stored(n) /\ family' = [family EXCEPT ![n] = f]
            BY <2>3, <3>2, <3>3 DEF RotateRefreshToken, Replace
        <3>5. revoked' = [revoked EXCEPT ![t] = TRUE]
            BY <2>3, <3>2 DEF RotateRefreshToken, Replace
        <3>6. /\ Live(t)
              /\ \A s \in Token : family'[s] = IF s = n THEN f ELSE family[s]
              /\ \A s \in Token : revoked'[s] <=> s = t \/ revoked[s]
            BY <3>2, <3>4, <3>5 DEF IInv, TypeOK, Stored, Live
        <3>7. \A s \in Token : Stored(s)' <=> s = n \/ Stored(s)
            BY <3>2, <3>6, <3>3 DEF Stored
        <3>8. ~revoked[n] /\ n # t
            BY <3>2, <3>4 DEF IInv, FamilyInv
        <3>9. \A s \in Token : Live(s)' <=> s = n \/ (Live(s) /\ s # t)
            BY <3>2, <3>4, <3>6, <3>7, <3>8 DEF Live
        <3>10. UsableToken(f) = t
            BY <3>2, <3>6, <3>3 DEF UsableIs
        <3>11. UsableToken(f)' = n
            BY <3>6, <3>9 DEF UsableIs
        <3>12. \A g \in Token : g # f => UsableToken(g)' = UsableToken(g)
            <4> SUFFICES ASSUME NEW g \in Token, g # f
                         PROVE  UsableToken(g)' = UsableToken(g)
                OBVIOUS
            <4>1. \A s \in Token : (Live(s) /\ family[s] = g)' <=> Live(s) /\ family[s] = g
                BY <3>4, <3>6, <3>3, <3>9 DEF Live
            <4>2. CASE \E s \in Token : Live(s) /\ family[s] = g
                BY <4>1, <4>2 DEF UsableIs
            <4>3. CASE \A s \in Token : ~(Live(s) /\ family[s] = g)
                BY <4>1, <4>3 DEF UsableIs
            <4> QED
                BY <4>2, <4>3
        <3>13. UsableTokens' = [UsableTokens EXCEPT ![f] = n]
            BY <3>11, <3>12 DEF UsableTokens
        <3>14. StoredTokens' = StoredTokens \cup {n} /\ n \notin StoredTokens
            BY <3>4, <3>7 DEF StoredTokens
        <3>15. UsableTokens[f] # None
            BY <3>2, <3>6, <3>10, SessionsAssumption DEF UsableTokens
        <3>16. Book!Exchange(f, n)
            BY <3>13, <3>14, <3>15 DEF Book!Exchange, Book!Free
        <3> QED
            BY <3>6, <3>16 DEF Book!Next
    <2>4. ASSUME NEW p \in Proc, RevokeRows(p)
          PROVE  Book!Next
        <3> DEFINE F == {f \in Token : UsableToken(f) \in req[p].rows}
        <3>1. /\ UNCHANGED family
              /\ \A s \in Token : revoked'[s] <=> revoked[s] \/ s \in req[p].rows
            BY <2>4 DEF RevokeRows
        <3>2. \A s \in Token : Live(s)' <=> Live(s) /\ s \notin req[p].rows
            BY <3>1 DEF Live, Stored
        <3>3. ASSUME NEW f \in Token
              PROVE  UsableToken(f)' = IF f \in F THEN None ELSE UsableToken(f)
            <4>1. CASE \E t \in Token : Live(t) /\ family[t] = f
                <5>1. PICK t \in Token : Live(t) /\ family[t] = f
                    BY <4>1
                <5>2. UsableToken(f) = t
                    BY <5>1 DEF UsableIs
                <5>3. CASE t \in req[p].rows
                    BY <3>1, <3>2, <5>1, <5>2, <5>3 DEF UsableIs
                <5>4. CASE t \notin req[p].rows
                    BY <3>1, <3>2, <5>1, <5>2, <5>4 DEF UsableIs
                <5> QED
                    BY <5>3, <5>4
            <4>2. CASE \A t \in Token : ~(Live(t) /\ family[t] = f)
                BY <3>1, <3>2, <4>2 DEF UsableIs
            <4> QED
                BY <4>1, <4>2
        <3>4. UNCHANGED StoredTokens
            BY <3>1 DEF StoredTokens, Stored
        <3>5. UsableTokens' = [f \in Token |-> IF f \in F THEN None ELSE UsableTokens[f]]
            BY <3>3 DEF UsableTokens
        <3>6. F \in SUBSET Token /\ Book!End(F)
            BY <3>4, <3>5 DEF Book!End
        <3> QED
            BY <3>6 DEF Book!Next
    <2> QED
        BY <2>1, <2>2, <2>3, <2>4, FamilyFrame, RevokedFrame DEF IInv
<1> QED
    BY <1>1, <1>2, Invariance, UsableUnique, PTL DEF Spec, ImplementsSessionBook, Book!Spec
=============================================================================
