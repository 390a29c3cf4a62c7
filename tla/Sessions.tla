------------------------------ MODULE Sessions ------------------------------
(***************************************************************************)
(* The refresh-token sessions of one account: internal/identity (login,    *)
(* OAuth login, refresh, logout, password reset, e-mail verification) and  *)
(* the change-password path of internal/preferences, over the users,       *)
(* tenants, refresh_tokens and verification_tokens tables.                 *)
(*                                                                         *)
(* A request is a process that runs several transactions.  Every           *)
(* transaction is READ COMMITTED, so a step of this module is one statement*)
(* or one commit, and the row locks the code takes are state:              *)
(*   - SELECT ... FOR UPDATE on the account row, with the tenant row       *)
(*     FOR SHARE (activeCredentialUserTx), is userLock.  While it is held  *)
(*     an UPDATE of the account or the tenant waits, and so does an INSERT *)
(*     of a refresh_tokens row, whose foreign key needs FOR KEY SHARE on   *)
(*     the account row;                                                    *)
(*   - SELECT ... FOR UPDATE on a refresh token is tokenLock;              *)
(*   - an UPDATE ... WHERE revoked_at IS NULL picks its rows from the      *)
(*     snapshot of its start (req[p].rows) and writes them once their locks*)
(*     are free: a row committed in between is not seen.                   *)
(* A family id is a fresh UUID; here it is the first token of the family.  *)
(***************************************************************************)
EXTENDS Naturals, FiniteSets

CONSTANTS
    Proc,           \* requests that may run at the same time
    Token,          \* ids of refresh_tokens rows (bounds how many are made)
    ResetToken,     \* ids of verification_tokens rows, purpose password_reset
    VerifyToken,    \* the same, purpose email_verification
    Password,       \* password hashes
    Status,         \* account states an operator may set
    TenantStatus,   \* tenant states an operator may set
    None            \* NULL, or an absent row

Statuses == {"active", "disabled", "deleted"}
TenantStatuses == {"active", "suspended"}

ASSUME SessionsAssumption ==
    /\ None \notin Token /\ None \notin Password /\ None \notin Proc
    /\ None \notin ResetToken /\ None \notin VerifyToken
    /\ None \notin [pw : Password \cup {None}, status : Statuses,
                    verified : BOOLEAN]
    /\ ResetToken \cap VerifyToken = {}
    /\ Status \subseteq Statuses /\ "active" \in Status
    /\ TenantStatus \subseteq TenantStatuses /\ "active" \in TenantStatus

VARIABLES
    tenant,      \* tenants.status of the account's organization
    user,        \* the account row: password_hash, status, email_verified_at
    family,      \* [Token -> family id, None when the row is absent]
    revoked,     \* revoked_at is set
    replacedBy,  \* replaced_by
    expired,     \* tokens whose expires_at has passed
    vt,          \* state of every verification token
    userLock,    \* request holding the account row FOR UPDATE
    tokenLock,   \* request holding each token row FOR UPDATE
    req          \* the requests in progress

tokens == <<family, revoked, replacedBy>>
locks == <<userLock, tokenLock>>
vars == <<tenant, user, family, revoked, replacedBy, expired, vt, userLock,
          tokenLock, req>>

UserRow == [pw : Password \cup {None}, status : Statuses, verified : BOOLEAN]

VToken == ResetToken \cup VerifyToken

\* What a request is doing, and where it is in it.
Op == {"none", "login", "oauth", "refresh", "logout", "change", "reset",
       "verify", "forgot"}
Pc == {"idle", "tenant", "save", "issue", "lock", "token", "rotate", "claim",
       "write", "start", "apply", "mint"}

Request == [op : Op, pc : Pc, tok : Token \cup {None},
            vtok : VToken \cup {None}, pw : Password \cup {None},
            row : UserRow \cup {None}, rows : SUBSET Token]

NoRequest == [op |-> "none", pc |-> "idle", tok |-> None, vtok |-> None,
              pw |-> None, row |-> None, rows |-> {}]

TypeOK ==
    /\ tenant \in TenantStatuses
    /\ user \in UserRow
    /\ family \in [Token -> Token \cup {None}]
    /\ revoked \in [Token -> BOOLEAN]
    /\ replacedBy \in [Token -> Token \cup {None}]
    /\ expired \in SUBSET Token
    /\ vt \in [VToken -> {"absent", "unused", "used", "expired"}]
    /\ userLock \in Proc \cup {None}
    /\ tokenLock \in [Token -> Proc \cup {None}]
    /\ req \in [Proc -> Request]

-----------------------------------------------------------------------------
\* Helpers

Stored(t) == family[t] # None
Live(t) == Stored(t) /\ ~revoked[t]

At(p, l) == req[p].pc = l

\* Begin a request: r holds what its first transaction has read.
Begin(p, r) ==
    /\ At(p, "idle")
    /\ req' = [req EXCEPT ![p] = r]

Goto(p, l) == req' = [req EXCEPT ![p].pc = l]
Answer(p) == req' = [req EXCEPT ![p] = NoRequest]

\* Commit or rollback of p's transaction gives up every row lock it holds.
Unlock(p) ==
    /\ userLock' = IF userLock = p THEN None ELSE userLock
    /\ tokenLock' = [t \in Token |-> IF tokenLock[t] = p THEN None
                                     ELSE tokenLock[t]]

\* Requests that still have to insert a refresh token, and the bound that
\* keeps one row id for each of them.
Inserting == {p \in Proc : req[p].op \in {"login", "oauth", "refresh"}}
Room == Cardinality(Inserting) < Cardinality({t \in Token : ~Stored(t)})

\* The account and its organization, as every credential check reads them.
CredentialActive == tenant = "active" /\ user.status = "active"

\* Rows that the WHERE clause of p's revocation names, live in its snapshot.
InScope(p, t) ==
    \/ req[p].op \in {"change", "reset"}
    \/ req[p].op \in {"refresh", "logout"} /\ family[t] = family[req[p].tok]
RowsToRevoke(p) == {t \in Token : Live(t) /\ InScope(p, t)}
StartUpdate(p) ==
    req' = [req EXCEPT ![p] = [@ EXCEPT !.pc = "apply", !.rows = RowsToRevoke(p)]]

-----------------------------------------------------------------------------
\* Login and OAuth login

\* The account row is read and its password verified: one SELECT.
Login(p) ==
    /\ Room
    /\ user.pw # None
    /\ user.status = "active"
    /\ Begin(p, [NoRequest EXCEPT !.op = "login", !.pc = "tenant", !.row = user])
    /\ UNCHANGED <<tenant, user, tokens, expired, vt, locks>>

LoginTenant(p) ==
    /\ At(p, "tenant")
    /\ IF tenant = "active" THEN Goto(p, "save") ELSE Answer(p)
    /\ UNCHANGED <<tenant, user, tokens, expired, vt, locks>>

\* last_login_at is stored by tx.Save(candidate): every column of the row
\* read at the start is written back.
LoginSave(p) ==
    /\ At(p, "save")
    /\ userLock = None
    /\ user' = req[p].row
    /\ Goto(p, "issue")
    /\ UNCHANGED <<tenant, tokens, expired, vt, locks>>

\* The error of that Save is dropped, and the login goes on.
LoginSaveFails(p) ==
    /\ At(p, "save")
    /\ Goto(p, "issue")
    /\ UNCHANGED <<tenant, user, tokens, expired, vt, locks>>

\* Fault: the OAuth login stores last_login_at too, with no row loaded.
OAuthLoginSaves(p) ==
    /\ Room
    /\ CredentialActive
    /\ Begin(p, [NoRequest EXCEPT !.op = "oauth", !.pc = "save"])
    /\ UNCHANGED <<tenant, user, tokens, expired, vt, locks>>

\* A linked GitHub identity: ValidateCredentialState, then issueTokenPair.
OAuthLogin(p) ==
    /\ Room
    /\ CredentialActive
    /\ Begin(p, [NoRequest EXCEPT !.op = "oauth", !.pc = "issue"])
    /\ UNCHANGED <<tenant, user, tokens, expired, vt, locks>>

\* CreateRefreshToken: the first token of a new family.
IssueTokenPair(p) ==
    /\ At(p, "issue")
    /\ userLock = None
    /\ \E t \in Token :
        /\ ~Stored(t)
        /\ family' = [family EXCEPT ![t] = t]
    /\ Answer(p)
    /\ UNCHANGED <<tenant, user, revoked, replacedBy, expired, vt, locks>>

-----------------------------------------------------------------------------
\* Locking the account, and refresh with rotation

\* Fault: the rotation skips the check of tenant and account.
RefreshUnchecked(p, t) ==
    /\ Room
    /\ Stored(t)
    /\ Begin(p, [NoRequest EXCEPT !.op = "refresh", !.pc = "token", !.tok = t])
    /\ UNCHANGED <<tenant, user, tokens, expired, vt, locks>>

\* FindRefreshTokenByHash: any stored token may be presented, at any time.
Refresh(p, t) ==
    /\ Room
    /\ Stored(t)
    /\ Begin(p, [NoRequest EXCEPT !.op = "refresh", !.pc = "lock", !.tok = t])
    /\ UNCHANGED <<tenant, user, tokens, expired, vt, locks>>

\* Fault: the re-check reads the rows without locking them (lock = false).
ActiveCredentialUserUnlocked(p) ==
    /\ At(p, "lock")
    /\ IF CredentialActive
       THEN Goto(p, IF req[p].op = "refresh" THEN "token" ELSE "claim")
       ELSE Answer(p)
    /\ UNCHANGED <<tenant, user, tokens, expired, vt, locks>>

\* Fault: the rows are locked and their state is not looked at.
LockWithoutCheck(p) ==
    /\ At(p, "lock")
    /\ userLock = None
    /\ userLock' = p
    /\ Goto(p, IF req[p].op = "refresh" THEN "token" ELSE "claim")
    /\ UNCHANGED <<tenant, user, tokens, expired, vt, tokenLock>>

\* The locked re-check of tenant and account that opens every transaction
\* that consumes a token.
ActiveCredentialUserTx(p) ==
    /\ At(p, "lock")
    /\ userLock = None
    /\ IF CredentialActive
       THEN /\ userLock' = p
            /\ Goto(p, IF req[p].op = "refresh" THEN "token" ELSE "claim")
       ELSE /\ Answer(p)
            /\ UNCHANGED userLock
    /\ UNCHANGED <<tenant, user, tokens, expired, vt, tokenLock>>

LockRefreshToken(p) ==
    /\ At(p, "token")
    /\ tokenLock[req[p].tok] = None
    /\ tokenLock' = [tokenLock EXCEPT ![req[p].tok] = p]
    /\ Goto(p, "rotate")
    /\ UNCHANGED <<tenant, user, tokens, expired, vt, userLock>>

\* What the commit of a rotation shows at once: the replacement inserted and
\* the old token consumed.
Replace(p, consumed) ==
    LET t == req[p].tok IN
    /\ \E n \in Token :
        /\ ~Stored(n)
        /\ family' = [family EXCEPT ![n] = family[t]]
        /\ replacedBy' = [replacedBy EXCEPT ![t] = n]
    /\ revoked' = [revoked EXCEPT ![t] = consumed]
    /\ Unlock(p)
    /\ Answer(p)
    /\ UNCHANGED <<tenant, user, expired, vt>>

\* Fault: replaced_by and revoked_at of the presented token are not looked at.
RotateAnyway(p) ==
    /\ At(p, "rotate")
    /\ req[p].tok \notin expired
    /\ Replace(p, TRUE)

\* Fault: the old token keeps its revoked_at empty.
RotateWithoutRevoking(p) ==
    /\ At(p, "rotate")
    /\ ~revoked[req[p].tok] /\ replacedBy[req[p].tok] = None
    /\ req[p].tok \notin expired
    /\ Replace(p, FALSE)

RotateRefreshToken(p) ==
    /\ At(p, "rotate")
    /\ ~revoked[req[p].tok] /\ replacedBy[req[p].tok] = None
    /\ req[p].tok \notin expired
    /\ Replace(p, TRUE)

\* Fault: the transaction of an expired token is left open.
RotateExpiredLeaks(p) ==
    /\ At(p, "rotate")
    /\ ~revoked[req[p].tok] /\ replacedBy[req[p].tok] = None
    /\ req[p].tok \in expired
    /\ Answer(p)
    /\ UNCHANGED <<tenant, user, tokens, expired, vt, locks>>

RotateExpired(p) ==
    /\ At(p, "rotate")
    /\ ~revoked[req[p].tok] /\ replacedBy[req[p].tok] = None
    /\ req[p].tok \in expired
    /\ Unlock(p)
    /\ Answer(p)
    /\ UNCHANGED <<tenant, user, tokens, expired, vt>>

\* Reuse of a consumed token: the UPDATE over its family starts.
RotateReused(p) ==
    /\ At(p, "rotate")
    /\ revoked[req[p].tok] \/ replacedBy[req[p].tok] # None
    /\ StartUpdate(p)
    /\ UNCHANGED <<tenant, user, tokens, expired, vt, locks>>

-----------------------------------------------------------------------------
\* Revocations

\* FindRefreshTokenByHash, then RevokeRefreshTokenFamily.
Logout(p, t) ==
    /\ Stored(t)
    /\ Begin(p, [NoRequest EXCEPT !.op = "logout", !.pc = "start", !.tok = t])
    /\ UNCHANGED <<tenant, user, tokens, expired, vt, locks>>

\* The UPDATE of Logout and of ChangePassword takes its snapshot.  Neither
\* transaction locks the account row.
RevokeStart(p) ==
    /\ At(p, "start")
    /\ StartUpdate(p)
    /\ UNCHANGED <<tenant, user, tokens, expired, vt, locks>>

\* Rows of the statement's snapshot that are still live get revoked_at.
RevokeRows(p) ==
    /\ \A t \in req[p].rows : tokenLock[t] \in {None, p}
    /\ revoked' = [t \in Token |-> revoked[t] \/ t \in req[p].rows]
    /\ UNCHANGED <<family, replacedBy>>

RevokeCommit(p) ==
    /\ At(p, "apply")
    /\ req[p].op # "reset"
    /\ RevokeRows(p)
    /\ Unlock(p)
    /\ Answer(p)
    /\ UNCHANGED <<tenant, user, expired, vt>>

\* ChangePassword reads the account and verifies the current password ...
ChangePassword(p, q) ==
    /\ user.status # "deleted"
    /\ user.pw \notin {None, q}
    /\ Begin(p, [NoRequest EXCEPT !.op = "change", !.pc = "write", !.pw = q])
    /\ UNCHANGED <<tenant, user, tokens, expired, vt, locks>>

\* ... UpdatePassword is a second transaction, RevokeAllRefreshTokens a third.
UpdatePassword(p) ==
    /\ At(p, "write")
    /\ userLock = None
    /\ IF user.status = "deleted"
       THEN Answer(p) /\ UNCHANGED user
       ELSE Goto(p, "start") /\ user' = [user EXCEPT !.pw = req[p].pw]
    /\ UNCHANGED <<tenant, tokens, expired, vt, locks>>

-----------------------------------------------------------------------------
\* Verification tokens: password reset and e-mail verification

\* FindVerificationTokenByHash finds the row whatever its state.
ResetPassword(p, v, q) ==
    /\ vt[v] # "absent"
    /\ Begin(p, [NoRequest EXCEPT !.op = "reset", !.pc = "lock", !.vtok = v, !.pw = q])
    /\ UNCHANGED <<tenant, user, tokens, expired, vt, locks>>

VerifyEmail(p, v) ==
    /\ vt[v] # "absent"
    /\ Begin(p, [NoRequest EXCEPT !.op = "verify", !.pc = "lock", !.vtok = v])
    /\ UNCHANGED <<tenant, user, tokens, expired, vt, locks>>

\* claimVerificationTokenTx refuses a used or expired token: rollback.
ClaimRefused(p) ==
    /\ At(p, "claim")
    /\ vt[req[p].vtok] # "unused"
    /\ Unlock(p)
    /\ Answer(p)
    /\ UNCHANGED <<tenant, user, tokens, expired, vt>>

\* Fault: used_at is not looked at.
ClaimUsedToken(p) ==
    /\ At(p, "claim")
    /\ req[p].op = "reset"
    /\ StartUpdate(p)
    /\ UNCHANGED <<tenant, user, tokens, expired, vt, locks>>

\* The token is claimed (the effect shows at commit) and the UPDATE over
\* the account's refresh tokens starts.
ClaimVerificationTokenTx(p) ==
    /\ At(p, "claim")
    /\ req[p].op = "reset"
    /\ vt[req[p].vtok] = "unused"
    /\ StartUpdate(p)
    /\ UNCHANGED <<tenant, user, tokens, expired, vt, locks>>

ConsumePasswordReset(p) ==
    /\ At(p, "apply")
    /\ req[p].op = "reset"
    /\ RevokeRows(p)
    /\ vt' = [vt EXCEPT ![req[p].vtok] = "used"]
    /\ user' = [user EXCEPT !.pw = req[p].pw]
    /\ Unlock(p)
    /\ Answer(p)
    /\ UNCHANGED <<tenant, expired>>

ConsumeEmailVerification(p) ==
    /\ At(p, "claim")
    /\ req[p].op = "verify"
    /\ vt[req[p].vtok] = "unused"
    /\ vt' = [vt EXCEPT ![req[p].vtok] = "used"]
    /\ user' = [user EXCEPT !.verified = TRUE]
    /\ Unlock(p)
    /\ Answer(p)
    /\ UNCHANGED <<tenant, tokens, expired>>

\* RequestPasswordReset and RequestEmailVerification look the account up.
RequestPasswordReset(p) ==
    /\ CredentialActive
    /\ Begin(p, [NoRequest EXCEPT !.op = "forgot", !.pc = "mint"])
    /\ UNCHANGED <<tenant, user, tokens, expired, vt, locks>>

RequestEmailVerification(p) ==
    /\ user.status # "deleted"
    /\ ~user.verified
    /\ Begin(p, [NoRequest EXCEPT !.op = "verify", !.pc = "mint"])
    /\ UNCHANGED <<tenant, user, tokens, expired, vt, locks>>

\* Both build the VerificationToken without its TenantID, so the row carries
\* the zero UUID; the WITH CHECK clause of the table's policy, and the foreign
\* key to tenants behind it, accept only the tenant of the transaction.
MintedTenant == None
ScopeTenant == "tenant"

CreateVerificationToken(p) ==
    /\ At(p, "mint")
    /\ userLock = None
    /\ LET S == IF req[p].op = "forgot" THEN ResetToken ELSE VerifyToken
       IN  IF MintedTenant = ScopeTenant
           THEN \E v \in S : vt[v] = "absent" /\ vt' = [vt EXCEPT ![v] = "unused"]
           ELSE UNCHANGED vt
    /\ Answer(p)
    /\ UNCHANGED <<tenant, user, tokens, expired, locks>>

-----------------------------------------------------------------------------
\* The environment: time, failures, operators

ExpireRefreshToken(t) ==
    /\ Live(t) /\ t \notin expired
    /\ expired' = expired \cup {t}
    /\ UNCHANGED <<tenant, user, tokens, vt, locks, req>>

ExpireVerificationToken(v) ==
    /\ vt[v] = "unused"
    /\ vt' = [vt EXCEPT ![v] = "expired"]
    /\ UNCHANGED <<tenant, user, tokens, expired, locks, req>>

\* A failed statement, a lost connection, a cancelled request or a crash: the
\* open transaction rolls back and what was committed before it stays.  (A
\* failed insert of a verification token is answered by its own action.)
Abort(p) ==
    /\ req[p].pc \notin {"idle", "mint"}
    /\ Unlock(p)
    /\ Answer(p)
    /\ UNCHANGED <<tenant, user, tokens, expired, vt>>

\* Operators change the tenant and the account with plain UPDATEs, which wait
\* for the row locks; they insert verification tokens with an admin role.
OperatorSetStatus(s) ==
    /\ userLock = None
    /\ user.status # s
    /\ user' = [user EXCEPT !.status = s]
    /\ UNCHANGED <<tenant, tokens, expired, vt, locks, req>>

OperatorSetTenant(s) ==
    /\ userLock = None
    /\ tenant # s
    /\ tenant' = s
    /\ UNCHANGED <<user, tokens, expired, vt, locks, req>>

OperatorMint(v) ==
    /\ vt[v] = "absent"
    /\ vt' = [vt EXCEPT ![v] = "unused"]
    /\ UNCHANGED <<tenant, user, tokens, expired, locks, req>>

-----------------------------------------------------------------------------
\* Specification

Init ==
    /\ tenant = "active"
    /\ user \in [pw : Password \cup {None}, status : {"active"}, verified : {FALSE}]
    /\ family = [t \in Token |-> None]
    /\ revoked = [t \in Token |-> FALSE]
    /\ replacedBy = [t \in Token |-> None]
    /\ expired = {}
    /\ vt = [v \in VToken |-> "absent"]
    /\ userLock = None
    /\ tokenLock = [t \in Token |-> None]
    /\ req = [p \in Proc |-> NoRequest]

\* A client sends a request.
Arrive(p) ==
    \/ Login(p)
    \/ OAuthLogin(p)
    \/ \E t \in Token : Refresh(p, t) \/ Logout(p, t)
    \/ \E q \in Password : ChangePassword(p, q)
    \/ \E v \in ResetToken, q \in Password : ResetPassword(p, v, q)
    \/ \E v \in VerifyToken : VerifyEmail(p, v)
    \/ RequestPasswordReset(p)
    \/ RequestEmailVerification(p)

\* A request in progress takes its next step.
Step(p) ==
    \/ LoginTenant(p)
    \/ LoginSave(p)
    \/ IssueTokenPair(p)
    \/ ActiveCredentialUserTx(p)
    \/ LockRefreshToken(p)
    \/ RotateRefreshToken(p)
    \/ RotateExpired(p)
    \/ RotateReused(p)
    \/ RevokeStart(p)
    \/ RevokeCommit(p)
    \/ UpdatePassword(p)
    \/ ClaimRefused(p)
    \/ ClaimVerificationTokenTx(p)
    \/ ConsumePasswordReset(p)
    \/ ConsumeEmailVerification(p)
    \/ CreateVerificationToken(p)

Environment ==
    \/ \E p \in Proc : LoginSaveFails(p) \/ Abort(p)
    \/ \E t \in Token : ExpireRefreshToken(t)
    \/ \E v \in VToken : ExpireVerificationToken(v) \/ OperatorMint(v)
    \/ \E s \in Status : OperatorSetStatus(s)
    \/ \E s \in TenantStatus : OperatorSetTenant(s)

Next == (\E p \in Proc : Arrive(p) \/ Step(p)) \/ Environment

Spec == Init /\ [][Next]_vars

\* Postgres serves the waiters of a row lock in the order they arrived, so a
\* request that could go on again and again does go on.
FairSpec == Spec /\ \A p \in Proc : SF_vars(Step(p))

-----------------------------------------------------------------------------
\* Safety

Tip(t) == Stored(t) /\ replacedBy[t] = None

\* A family never forks: of its tokens exactly one was not replaced, whatever
\* refreshes, replays and revocations of it overlap (RotateRefreshToken's
\* "concurrent uses can create at most one descendant").
FamilyLinear ==
    \A s, t \in Token : Tip(s) /\ Tip(t) /\ family[s] = family[t] => s = t

\* What ends sessions under the account lock (a password reset, or the reuse
\* of a spent token) leaves none of them a live token, although rotations and
\* logins of the same account may be in flight.
EndIsTotal(p) == \A t \in Token : InScope(p, t) => ~Live(t)'

LockedEndIsTotal ==
    [][\A p \in Proc :
        (ConsumePasswordReset(p) \/ (req[p].op = "refresh" /\ RevokeCommit(p))) =>
            EndIsTotal(p)]_vars

\* While a request holds the account lock the tenant and the account are
\* active, and the rows its revocation has picked are all the live ones: what
\* the check at its start has established still holds at its commit.
LockProtects ==
    \A p \in Proc : userLock = p =>
        /\ CredentialActive
        /\ At(p, "apply") => RowsToRevoke(p) \subseteq req[p].rows

\* A verification token is spent at most once: a password or the verified
\* flag changed by its claim finds it unused, and leaves it used.
ClaimOnce ==
    [][\A p \in Proc :
        (req[p].vtok # None /\ user' # user /\ req'[p] # req[p]) =>
            vt[req[p].vtok] \in {"unused", "expired"} /\ vt'[req[p].vtok] = "used"]_vars

\* A token is rotated only for an active account of an active tenant, at the
\* commit and not merely when the request came in.
RotationNeedsActiveAccount ==
    [][(\E t \in Token : replacedBy'[t] # replacedBy[t]) => CredentialActive]_vars

\* The sessions refine SessionBook: one usable token per family, exchanged
\* only for itself, never resurrected.
UsableToken(f) ==
    IF \E t \in Token : Live(t) /\ family[t] = f
    THEN CHOOSE t \in Token : Live(t) /\ family[t] = f
    ELSE None

StoredTokens == {t \in Token : Stored(t)}
UsableTokens == [f \in Token |-> UsableToken(f)]

Book == INSTANCE SessionBook WITH issued <- StoredTokens, usable <- UsableTokens

ImplementsSessionBook == Book!Spec

\* Every request is answered: the account lock, the token locks and the
\* statements waiting for them never end in a circle.
EveryRequestAnswered ==
    \A p \in Proc : ~At(p, "idle") ~> At(p, "idle")

-----------------------------------------------------------------------------
\* What comments of the source say and the code does not do

\* "so a stolen refresh token cannot be used again after the legitimate user
\* logs out": when Logout answers, its family has no live token.
LogoutEndsSession ==
    [][\A p \in Proc : (req[p].op = "logout" /\ RevokeCommit(p)) => EndIsTotal(p)]_vars
=============================================================================
