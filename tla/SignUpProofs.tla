---------------------------- MODULE SignUpProofs ----------------------------
(***************************************************************************)
(* Proofs about SignUp for every number of requests, tenants, accounts,    *)
(* identities, failures and deletions.                                     *)
(*                                                                         *)
(* What holds the properties up is what a request knows of the account it  *)
(* has found or made (Carried), that an identity is given tokens for the   *)
(* account of its link only (TokensFollowLink), and that whoever was not   *)
(* asked for a password had an account then, which only the operator can   *)
(* have taken away since (Excused).                                        *)
(***************************************************************************)
EXTENDS SignUp, FiniteSetTheorems, TLAPS

\* What a request carries, and what is true of it still.
Carried(p) ==
    /\ ~At(p, "idle") => req[p].tenant \in registered
    /\ req[p].pc \in {"account", "match", "create", "role", "link", "validate", "issue"} =>
         req[p].identity \in Identity
    /\ req[p].pc \in {"role", "link", "validate", "issue"} =>
         req[p].account \in Account /\ account[req[p].account].state # "none"
    /\ req[p].pc \in {"validate", "issue"} => link[req[p].identity] = req[p].account

\* Who accepts without a password had an account when asked.
Excused(p) ==
    At(p, "accept") /\ ~req[p].password =>
      deletions > 0 \/ \E u \in Account : Undeleted(u) /\ account[u].tenant = req[p].tenant

ReqInv == \A p \in Proc : Carried(p) /\ Excused(p)

\* Accounts are of tenants that exist, links to accounts that exist.
ForeignKeys ==
    /\ \A u \in Account : account[u].state # "none" => account[u].tenant \in registered
    /\ \A i \in Identity : link[i] # None => account[link[i]].state # "none"

TokensFollowLink == \A i \in Identity : \A u \in signedIn[i] : u = link[i]

IInv ==
    /\ TypeOK /\ ReqInv /\ ForeignKeys /\ TokensFollowLink
    /\ RolelessOnlyWhenCut /\ ReachableUnlessCut

-----------------------------------------------------------------------------
\* Rows and requests

LEMMA NewRowFields ==
    ASSUME NEW t \in Tenant, NEW b \in BOOLEAN, NEW r \in BOOLEAN
    PROVE  /\ NewRow(t, b, r) \in Row
           /\ NewRow(t, b, r).tenant = t /\ NewRow(t, b, r).state = "live"
           /\ NewRow(t, b, r).password = b /\ NewRow(t, b, r).role = r
    BY DEF NewRow, Row

LEMMA RowBecomes ==
    ASSUME TypeOK, NEW u \in Account, NEW r \in Row, account' = [account EXCEPT ![u] = r]
    PROVE  /\ account' \in [Account -> Row] /\ account'[u] = r
           /\ \A v \in Account \ {u} : account'[v] = account[v]
    BY DEF TypeOK

Alone(p) == req' \in [Proc -> Request] /\ \A q \in Proc \ {p} : req'[q] = req[q]

LEMMA NoRequestFields == NoRequest \in Request /\ NoRequest.pc = "idle"
    BY DEF NoRequest, Request

LEMMA Becomes ==
    ASSUME TypeOK, NEW p \in Proc, NEW r \in Request, req' = [req EXCEPT ![p] = r]
    PROVE  Alone(p) /\ req'[p] = r
    BY DEF TypeOK, Alone

LEMMA AnswerFields ==
    ASSUME TypeOK, NEW p \in Proc, Answer(p)
    PROVE  Alone(p) /\ Carried(p)' /\ Excused(p)' /\ At(p, "idle")'
    BY NoRequestFields, Becomes DEF Answer, Carried, Excused, At

LEMMA GotoFields ==
    ASSUME TypeOK, NEW p \in Proc,
           NEW l \in {"match", "create", "link", "validate", "issue"}, Goto(p, l)
    PROVE  /\ Alone(p) /\ At(p, l)'
           /\ req'[p].tenant = req[p].tenant /\ req'[p].identity = req[p].identity
           /\ req'[p].account = req[p].account
<1> DEFINE r == [req[p] EXCEPT !.pc = l]
<1>1. /\ r \in Request /\ r.pc = l /\ r.tenant = req[p].tenant
      /\ r.identity = req[p].identity /\ r.account = req[p].account
    BY DEF TypeOK, Request
<1>2. req' = [req EXCEPT ![p] = r]
    BY DEF Goto, TypeOK
<1> HIDE DEF r
<1> QED
    BY <1>1, <1>2, Becomes DEF At

\* What every step leaves of what the requests rely on.
Grows ==
    /\ registered \subseteq registered'
    /\ \A u \in Account : account[u].state # "none" => account'[u].state # "none"
    /\ \A i \in Identity : link[i] # None => link'[i] = link[i]
    /\ deletions > 0 => deletions' > 0
    /\ \/ deletions' > 0
       \/ \A u \in Account : Undeleted(u) => Undeleted(u)' /\ account'[u].tenant = account[u].tenant

LEMMA KeepsOne ==
    ASSUME Grows, NEW q, req'[q] = req[q], Carried(q), Excused(q)
    PROVE  Carried(q)' /\ Excused(q)'
<1>1. Carried(q)'
    BY SignUpAssumption DEF Grows, Carried, At
<1>2. Excused(q)'
    BY DEF Grows, Excused, At
<1> QED
    BY <1>1, <1>2

LEMMA OthersKeep ==
    ASSUME ReqInv, Grows, NEW p \in Proc, Alone(p), Carried(p)', Excused(p)'
    PROVE  ReqInv'
    BY KeepsOne DEF ReqInv, Alone

\* A step that writes no table, of a request with no account in the making.
LEMMA QuietInv ==
    ASSUME IInv, UNCHANGED <<tables, signedIn, cut, deletions>>, failures' \in 0..MaxFailures,
           NEW p \in Proc, Alone(p), Carried(p)', Excused(p)', ~At(p, "role"),
           At(p, "link") => At(p, "link")' /\ req'[p].account = req[p].account
    PROVE  IInv'
<1>1. UNCHANGED <<registered, account, link, invited, signedIn, cut, deletions>>
    BY DEF tables
<1>2. ReqInv'
    <2>1. Grows
        BY <1>1 DEF Grows, Undeleted
    <2> QED
        BY <2>1, OthersKeep DEF IInv
<1>3. TypeOK'
    BY <1>1 DEF IInv, TypeOK, Alone, Undeleted
<1>4. ForeignKeys' /\ TokensFollowLink'
    BY <1>1 DEF IInv, ForeignKeys, TokensFollowLink
<1>5. RolelessOnlyWhenCut'
    BY <1>1 DEF IInv, RolelessOnlyWhenCut, Alone, At
<1>6. ReachableUnlessCut'
    BY <1>1 DEF IInv, ReachableUnlessCut, Alone, At
<1> QED
    BY <1>2, <1>3, <1>4, <1>5, <1>6 DEF IInv

-----------------------------------------------------------------------------
\* OAuthCallback

LEMMA CallbackInv ==
    ASSUME IInv, NEW p \in Proc, NEW i \in Identity, NEW t \in Tenant, OAuthCallback(p, i, t)
    PROVE  IInv'
<1> DEFINE r == [NoRequest EXCEPT !.pc = "account", !.tenant = t, !.identity = i]
<1>1. r \in Request /\ r.pc = "account" /\ r.tenant = t /\ r.identity = i
    BY DEF NoRequest, Request
<1>2. /\ req' = [req EXCEPT ![p] = r] /\ At(p, "idle") /\ t \in registered
      /\ UNCHANGED <<tables, signedIn, cut, bounds>>
    BY DEF OAuthCallback
<1> HIDE DEF r
<1>3. Alone(p) /\ Carried(p)' /\ Excused(p)'
    <2>1. Alone(p) /\ req'[p] = r /\ registered' = registered
        BY <1>1, <1>2, Becomes DEF IInv, tables
    <2> QED
        BY <1>1, <1>2, <2>1 DEF Carried, Excused, At
<1>4. UNCHANGED <<tables, signedIn, cut, deletions>> /\ failures' \in 0..MaxFailures
    BY <1>2 DEF IInv, TypeOK, bounds
<1> QED
    BY <1>2, <1>3, <1>4, QuietInv DEF At

\* A request that looks something up: it goes on, or it is answered.
LEMMA LooksUp ==
    ASSUME IInv, NEW p \in Proc, UNCHANGED <<tables, signedIn, cut, deletions>>,
           failures' \in 0..MaxFailures,
           At(p, "account") \/ At(p, "match"),
           Answer(p) \/ Goto(p, "match") \/ Goto(p, "create")
    PROVE  IInv'
<1>1. UNCHANGED <<registered, account, link>>
    BY DEF tables
<1>2. CASE Answer(p)
    BY <1>2, AnswerFields, QuietInv DEF IInv, At
<1>3. CASE Goto(p, "match") \/ Goto(p, "create")
    <2>1. /\ Alone(p) /\ (At(p, "match") \/ At(p, "create"))'
          /\ req'[p].tenant = req[p].tenant /\ req'[p].identity = req[p].identity
        BY <1>3, GotoFields DEF IInv
    <2>2. Carried(p)' /\ Excused(p)'
        BY <1>1, <2>1 DEF IInv, ReqInv, Carried, Excused, At
    <2> QED
        BY <2>1, <2>2, QuietInv DEF At
<1> QED
    BY <1>2, <1>3

\* A request that has found its account.
LEMMA Finds ==
    ASSUME IInv, NEW p \in Proc, UNCHANGED <<tables, signedIn, cut, bounds>>,
           NEW l \in {"link", "validate"}, NEW u \in Account, account[u].state # "none",
           l = "validate" => link[req[p].identity] = u,
           At(p, "account") \/ At(p, "match"),
           req' = [req EXCEPT ![p].pc = l, ![p].account = u]
    PROVE  IInv'
<1> DEFINE r == [req[p] EXCEPT !.pc = l, !.account = u]
<1>1. /\ r \in Request /\ r.pc = l /\ r.account = u
      /\ r.tenant = req[p].tenant /\ r.identity = req[p].identity
    BY DEF IInv, TypeOK, Request
<1>2. req' = [req EXCEPT ![p] = r]
    BY DEF IInv, TypeOK
<1> HIDE DEF r
<1>3. /\ UNCHANGED <<registered, account, link, deletions>>
      /\ UNCHANGED <<tables, signedIn, cut, deletions>> /\ failures' \in 0..MaxFailures
    BY DEF IInv, TypeOK, tables, bounds
<1>4. Alone(p) /\ Carried(p)' /\ Excused(p)'
    BY <1>1, <1>2, <1>3, Becomes DEF IInv, ReqInv, Carried, Excused, At
<1> QED
    BY <1>3, <1>4, QuietInv DEF At

LEMMA FindOAuthAccountInv ==
    ASSUME IInv, NEW p \in Proc, FindOAuthAccount(p)
    PROVE  IInv'
<1>1. /\ UNCHANGED <<tables, signedIn, cut, bounds>> /\ At(p, "account")
      /\ UNCHANGED <<tables, signedIn, cut, deletions>> /\ failures' \in 0..MaxFailures
    BY DEF FindOAuthAccount, IInv, TypeOK, bounds
<1>2. CASE Answer(p) \/ Goto(p, "match")
    BY <1>1, <1>2, LooksUp
<1>3. CASE /\ link[req[p].identity] # None
           /\ account[link[req[p].identity]].tenant = req[p].tenant
           /\ req' = [req EXCEPT ![p].pc = "validate", ![p].account = link[req[p].identity]]
    <2>1. req[p].identity \in Identity /\ req[p].tenant \in Tenant
        BY <1>1 DEF IInv, ReqInv, Carried, At, TypeOK
    <2>2. PICK u \in Account : u = link[req[p].identity]
        BY <1>3, <2>1 DEF IInv, TypeOK
    <2>3. account[u].state # "none"
        BY <1>3, <2>1, <2>2 DEF IInv, TypeOK, ForeignKeys
    <2> QED
        BY <1>1, <1>3, <2>2, <2>3, Finds
<1> QED
    BY <1>2, <1>3 DEF FindOAuthAccount

LEMMA FindByEmailInv ==
    ASSUME IInv, NEW p \in Proc, FindByEmailInTenant(p)
    PROVE  IInv'
<1>1. /\ UNCHANGED <<tables, signedIn, cut, bounds>> /\ At(p, "match")
      /\ UNCHANGED <<tables, signedIn, cut, deletions>> /\ failures' \in 0..MaxFailures
    BY DEF FindByEmailInTenant, IInv, TypeOK, bounds
<1>2. CASE Answer(p) \/ Goto(p, "create")
    BY <1>1, <1>2, LooksUp
<1>3. ASSUME NEW u \in ByEmail(req[p].tenant),
             req' = [req EXCEPT ![p].pc = "link", ![p].account = u]
      PROVE  IInv'
    BY <1>1, <1>3, Finds DEF ByEmail, Undeleted
<1> QED
    BY <1>2, <1>3 DEF FindByEmailInTenant

LEMMA LookupFailsInv ==
    ASSUME IInv, NEW p \in Proc, FindOAuthAccountFails(p) \/ FindByEmailInTenantFails(p)
    PROVE  IInv'
<1>1. failures' \in 0..MaxFailures
    BY SignUpAssumption DEF IInv, TypeOK, FindOAuthAccountFails, FindByEmailInTenantFails, Failing
<1> QED
    BY <1>1, LooksUp DEF FindOAuthAccountFails, FindByEmailInTenantFails

\* The row a creation begins: its account is new, and nobody has its address.
LEMMA CreateInv ==
    ASSUME IInv, NEW p \in Proc, Create(p)
    PROVE  IInv'
<1> USE DEF IInv
<1>1. /\ UNCHANGED <<registered, link, invited, signedIn, cut, failures, deletions>>
      /\ At(p, "create") /\ req[p] \in Request
      /\ req[p].tenant \in registered /\ req[p].tenant \in Tenant /\ req[p].identity \in Identity
    BY DEF Create, bounds, TypeOK, ReqInv, Carried, At
<1>2. CASE Answer(p) /\ account' = account
    BY <1>1, <1>2, AnswerFields, QuietInv DEF At, tables, TypeOK
<1>3. ASSUME ByEmail(req[p].tenant) = {}, NEW u \in Account, Unused(u),
             account' = [account EXCEPT ![u] = NewRow(req[p].tenant, FALSE, FALSE)],
             req' = [req EXCEPT ![p].pc = "role", ![p].account = u]
      PROVE  IInv'
    <2> DEFINE r == [req[p] EXCEPT !.pc = "role", !.account = u]
    <2>1. /\ r \in Request /\ r.pc = "role" /\ r.account = u
          /\ r.tenant = req[p].tenant /\ r.identity = req[p].identity
        BY <1>1 DEF Request
    <2>2. req' = [req EXCEPT ![p] = r]
        BY <1>3 DEF TypeOK
    <2> HIDE DEF r
    <2>3. /\ account' \in [Account -> Row] /\ account'[u].tenant = req[p].tenant
          /\ account'[u].state = "live" /\ account'[u].password = FALSE
          /\ account'[u].role = FALSE /\ \A v \in Account \ {u} : account'[v] = account[v]
          /\ account[u].state = "none"
        BY <1>1, <1>3, NewRowFields, RowBecomes DEF Unused
    <2>4. Alone(p) /\ req'[p] = r
        BY <2>1, <2>2, Becomes
    <2>5. Carried(p)' /\ Excused(p)'
        BY <1>1, <2>1, <2>3, <2>4 DEF Carried, Excused, At
    <2>6. Grows
        BY <1>1, <2>3 DEF Grows, Undeleted
    <2>7. ReqInv'
        BY <2>4, <2>5, <2>6, OthersKeep
    <2>8. TypeOK'
        <3>1. \A v \in Account \ {u} : ~(Undeleted(v) /\ account[v].tenant = req[p].tenant)
            BY <1>3 DEF ByEmail
        <3>2. \A v, w \in Account :
                 Undeleted(v)' /\ Undeleted(w)' /\ account'[v].tenant = account'[w].tenant => v = w
            BY <2>3, <3>1 DEF TypeOK, Undeleted
        <3> QED
            BY <1>1, <2>3, <2>4, <3>2 DEF TypeOK, Alone
    <2>9. ForeignKeys' /\ TokensFollowLink'
        BY <1>1, <2>3 DEF ForeignKeys, TokensFollowLink, TypeOK
    <2>10. RolelessOnlyWhenCut'
        BY <1>1, <2>1, <2>3, <2>4 DEF RolelessOnlyWhenCut, At, Alone
    <2>11. ReachableUnlessCut'
        BY <1>1, <2>1, <2>3, <2>4 DEF ReachableUnlessCut, At, Alone
    <2> QED
        BY <2>7, <2>8, <2>9, <2>10, <2>11
<1> QED
    BY <1>2, <1>3 DEF Create

LEMMA AssignSystemRoleInv ==
    ASSUME IInv, NEW p \in Proc, AssignSystemRole(p)
    PROVE  IInv'
<1> USE DEF IInv
<1>1. /\ UNCHANGED <<registered, link, invited, signedIn, cut, failures, deletions>>
      /\ At(p, "role") /\ Carried(p) /\ Goto(p, "link")
      /\ req[p].tenant \in registered /\ req[p].identity \in Identity
    BY DEF AssignSystemRole, bounds, ReqInv, Carried, At
<1>2. PICK u \in Account : u = req[p].account /\ account[u].state # "none"
    BY <1>1 DEF Carried, At
<1>3. /\ Alone(p) /\ At(p, "link")' /\ req'[p].tenant = req[p].tenant
      /\ req'[p].identity = req[p].identity /\ req'[p].account = u
    BY <1>1, <1>2, GotoFields
<1>4. /\ account' \in [Account -> Row] /\ account'[u].role = TRUE
      /\ account'[u].tenant = account[u].tenant /\ account'[u].state = account[u].state
      /\ account'[u].password = account[u].password
      /\ \A v \in Account \ {u} : account'[v] = account[v]
    <2> DEFINE x == [account[u] EXCEPT !.role = TRUE]
    <2>1. /\ x \in Row /\ x.role = TRUE /\ x.tenant = account[u].tenant
          /\ x.state = account[u].state /\ x.password = account[u].password
        BY DEF Row, TypeOK
    <2>2. account' = [account EXCEPT ![u] = x]
        BY <1>2 DEF AssignSystemRole, TypeOK
    <2> HIDE DEF x
    <2> QED
        BY <2>1, <2>2, RowBecomes
<1>5. Grows
    BY <1>1, <1>4 DEF Grows, Undeleted
<1>6. Carried(p)' /\ Excused(p)'
    BY <1>1, <1>2, <1>3, <1>4 DEF Carried, Excused, At
<1>7. ReqInv'
    BY <1>3, <1>5, <1>6, OthersKeep
<1>8. TypeOK'
    <2>1. \A v \in Account : /\ Undeleted(v)' <=> Undeleted(v)
                             /\ account'[v].tenant = account[v].tenant
        BY <1>4 DEF Undeleted
    <2> QED
        BY <1>1, <1>3, <1>4, <2>1 DEF TypeOK, Alone
<1>9. ForeignKeys' /\ TokensFollowLink'
    BY <1>1, <1>4 DEF ForeignKeys, TokensFollowLink, TypeOK
<1>10. RolelessOnlyWhenCut'
    BY <1>1, <1>2, <1>3, <1>4 DEF RolelessOnlyWhenCut, At, Alone
<1>11. ReachableUnlessCut'
    BY <1>1, <1>2, <1>3, <1>4 DEF ReachableUnlessCut, At, Alone
<1> QED
    BY <1>7, <1>8, <1>9, <1>10, <1>11

LEMMA CreateOAuthAccountInv ==
    ASSUME IInv, NEW p \in Proc, CreateOAuthAccount(p)
    PROVE  IInv'
<1> USE DEF IInv
<1>1. /\ UNCHANGED <<registered, account, invited, signedIn, failures, deletions>>
      /\ At(p, "link") /\ Carried(p) /\ req[p].tenant \in registered
    BY DEF CreateOAuthAccount, bounds, ReqInv, Carried, At
<1>2. PICK u \in Account : u = req[p].account /\ account[u].state # "none"
    BY <1>1 DEF Carried, At
<1>3. PICK i \in Identity : i = req[p].identity
    BY <1>1 DEF Carried, At
<1>4. Alone(p) /\ ~At(p, "link")' /\ ~At(p, "role")'
    BY AnswerFields, GotoFields DEF CreateOAuthAccount, At
<1>5. CASE link[i] = None
    <2>1. link' = [link EXCEPT ![i] = u] /\ Goto(p, "validate") /\ cut' = cut
        BY <1>2, <1>3, <1>5 DEF CreateOAuthAccount
    <2>2. /\ At(p, "validate")' /\ req'[p].tenant = req[p].tenant
          /\ req'[p].identity = i /\ req'[p].account = u
        BY <1>2, <1>3, <2>1, GotoFields
    <2>3. /\ link' \in [Identity -> Account \cup {None}] /\ link'[i] = u
          /\ \A j \in Identity \ {i} : link'[j] = link[j]
        BY <2>1 DEF TypeOK
    <2>4. Grows
        BY <1>1, <1>5, <2>3 DEF Grows, Undeleted
    <2>5. Carried(p)' /\ Excused(p)'
        BY <1>1, <1>2, <2>2, <2>3 DEF Carried, Excused, At
    <2>6. ReqInv'
        BY <1>4, <2>4, <2>5, OthersKeep
    <2>7. TypeOK'
        BY <1>1, <1>4, <2>1, <2>3 DEF TypeOK, Alone, Undeleted
    <2>8. ForeignKeys'
        BY <1>1, <1>2, <2>3 DEF ForeignKeys
    <2>9. TokensFollowLink'
        BY <1>1, <1>5, <2>3, SignUpAssumption DEF TokensFollowLink, TypeOK
    <2>10. RolelessOnlyWhenCut'
        BY <1>1, <1>4, <2>1 DEF RolelessOnlyWhenCut, At, Alone
    <2>11. ReachableUnlessCut'
        <3> SUFFICES ASSUME NEW v \in Account, account[v].state = "live", ~account[v].password
                     PROVE  \/ \E j \in Identity : link'[j] = v
                            \/ v \in cut'.link
                            \/ \E q \in Proc : req'[q].account = v /\ req'[q].pc \in {"role", "link"}
            BY <1>1 DEF ReachableUnlessCut
        <3>1. CASE \E j \in Identity : link[j] = v
            BY <1>5, <2>3, <3>1, SignUpAssumption
        <3>2. CASE v \in cut.link
            BY <2>1, <3>2
        <3>3. ASSUME NEW q \in Proc, req[q].account = v, req[q].pc \in {"role", "link"}
              PROVE  \/ \E j \in Identity : link'[j] = v
                     \/ \E w \in Proc : req'[w].account = v /\ req'[w].pc \in {"role", "link"}
            BY <1>2, <1>4, <2>3, <3>3 DEF Alone
        <3> QED
            BY <3>1, <3>2, <3>3 DEF ReachableUnlessCut
    <2> QED
        BY <2>6, <2>7, <2>8, <2>9, <2>10, <2>11
<1>6. CASE link[i] # None
    <2>1. link' = link /\ cut' = [cut EXCEPT !.link = @ \cup {u}] /\ Answer(p)
        BY <1>2, <1>3, <1>6 DEF CreateOAuthAccount
    <2>2. /\ cut' \in [role : SUBSET Account, link : SUBSET Account]
          /\ cut'.role = cut.role /\ cut'.link = cut.link \cup {u}
        BY <2>1 DEF TypeOK
    <2>3. ReqInv'
        BY <1>1, <2>1, AnswerFields, OthersKeep DEF Grows, Undeleted
    <2>4. TypeOK'
        BY <1>1, <1>4, <2>1, <2>2 DEF TypeOK, Alone, Undeleted
    <2>5. ForeignKeys' /\ TokensFollowLink'
        BY <1>1, <2>1 DEF ForeignKeys, TokensFollowLink
    <2>6. RolelessOnlyWhenCut'
        BY <1>1, <1>4, <2>2 DEF RolelessOnlyWhenCut, At, Alone
    <2>7. ReachableUnlessCut'
        BY <1>1, <1>2, <1>4, <2>1, <2>2 DEF ReachableUnlessCut, At, Alone
    <2> QED
        BY <2>3, <2>4, <2>5, <2>6, <2>7
<1> QED
    BY <1>5, <1>6

LEMMA ValidateInv ==
    ASSUME IInv, NEW p \in Proc, ValidateCredentialState(p)
    PROVE  IInv'
<1> USE DEF IInv
<1>1. /\ UNCHANGED <<tables, signedIn, cut, deletions>> /\ failures' \in 0..MaxFailures
      /\ UNCHANGED <<registered, account, link, deletions>>
      /\ At(p, "validate") /\ Carried(p)
    BY DEF ValidateCredentialState, bounds, tables, ReqInv, TypeOK
<1>2. CASE Answer(p)
    BY <1>1, <1>2, AnswerFields, QuietInv DEF At
<1>3. CASE Goto(p, "issue")
    <2>1. /\ Alone(p) /\ At(p, "issue")' /\ req'[p].tenant = req[p].tenant
          /\ req'[p].identity = req[p].identity /\ req'[p].account = req[p].account
        BY <1>3, GotoFields
    <2>2. Carried(p)' /\ Excused(p)'
        BY <1>1, <2>1 DEF Carried, Excused, At
    <2> QED
        BY <1>1, <2>1, <2>2, QuietInv DEF At
<1> QED
    BY <1>2, <1>3 DEF ValidateCredentialState

\* Tokens are given for the account of the identity's link.
LEMMA IssueInv ==
    ASSUME IInv, NEW p \in Proc, IssueTokenPair(p)
    PROVE  IInv'
<1> USE DEF IInv
<1>1. /\ UNCHANGED <<registered, account, link, invited, cut, failures, deletions>>
      /\ At(p, "issue") /\ Carried(p) /\ Answer(p)
    BY DEF IssueTokenPair, bounds, tables, ReqInv
<1>2. PICK u \in Account, i \in Identity : u = req[p].account /\ i = req[p].identity /\ link[i] = u
    BY <1>1 DEF Carried, At
<1>3. signedIn' = signedIn \/ signedIn' = [signedIn EXCEPT ![i] = @ \cup {u}]
    BY <1>2 DEF IssueTokenPair
<1>4. Alone(p) /\ At(p, "idle")'
    BY <1>1, AnswerFields
<1>5. ReqInv'
    BY <1>1, AnswerFields, OthersKeep DEF Grows, Undeleted
<1>6. TypeOK'
    BY <1>1, <1>3, <1>4 DEF TypeOK, Alone, Undeleted
<1>7. TokensFollowLink'
    BY <1>1, <1>2, <1>3 DEF TokensFollowLink, TypeOK
<1>8. ForeignKeys'
    BY <1>1 DEF ForeignKeys
<1>9. RolelessOnlyWhenCut' /\ ReachableUnlessCut'
    BY <1>1, <1>4 DEF RolelessOnlyWhenCut, ReachableUnlessCut, At, Alone
<1> QED
    BY <1>5, <1>6, <1>7, <1>8, <1>9

-----------------------------------------------------------------------------
\* Invitations

LEMMA AcceptInv ==
    ASSUME IInv, NEW p \in Proc, NEW t \in Tenant, Accept(p, t)
    PROVE  IInv'
<1> DEFINE r == [NoRequest EXCEPT !.pc = "exists", !.tenant = t]
<1>1. r \in Request /\ r.pc = "exists" /\ r.tenant = t
    BY DEF NoRequest, Request
<1>2. /\ req' = [req EXCEPT ![p] = r] /\ At(p, "idle") /\ t \in invited
      /\ UNCHANGED <<tables, signedIn, cut, bounds>>
    BY DEF Accept
<1> HIDE DEF r
<1>3. Alone(p) /\ Carried(p)' /\ Excused(p)'
    <2>1. Alone(p) /\ req'[p] = r /\ registered' = registered /\ t \in registered
        BY <1>1, <1>2, Becomes DEF IInv, TypeOK, tables
    <2> QED
        BY <1>1, <1>2, <2>1 DEF Carried, Excused, At
<1>4. UNCHANGED <<tables, signedIn, cut, deletions>> /\ failures' \in 0..MaxFailures
    BY <1>2 DEF IInv, TypeOK, bounds
<1> QED
    BY <1>2, <1>3, <1>4, QuietInv DEF At

LEMMA UserExistsInv ==
    ASSUME IInv, NEW p \in Proc, UserExistsInTenant(p)
    PROVE  IInv'
<1> DEFINE b == ByEmail(req[p].tenant) = {}
           r == [req[p] EXCEPT !.pc = "accept", !.password = b]
<1>1. r \in Request /\ r.pc = "accept" /\ r.tenant = req[p].tenant /\ r.password = b
    BY DEF IInv, TypeOK, Request
<1>2. /\ req' = [req EXCEPT ![p] = r] /\ At(p, "exists")
      /\ UNCHANGED <<tables, signedIn, cut, bounds>>
    BY DEF UserExistsInTenant, IInv, TypeOK
<1>3. ~b => \E u \in Account : Undeleted(u) /\ account[u].tenant = req[p].tenant
    BY DEF ByEmail
<1> HIDE DEF r, b
<1>4. Alone(p) /\ Carried(p)' /\ Excused(p)'
    <2>1. /\ Alone(p) /\ req'[p] = r /\ registered' = registered /\ account' = account
          /\ req[p].tenant \in registered
        BY <1>1, <1>2, Becomes DEF IInv, ReqInv, Carried, At, tables
    <2> QED
        BY <1>1, <1>2, <1>3, <2>1 DEF Carried, Excused, At, Undeleted
<1>5. UNCHANGED <<tables, signedIn, cut, deletions>> /\ failures' \in 0..MaxFailures
    BY <1>2 DEF IInv, TypeOK, bounds
<1> QED
    BY <1>2, <1>4, <1>5, QuietInv DEF At

\* The account there is keeps its password and gets a role; the one there was
\* not gets both, but for a password nobody was asked for.
LEMMA AcceptInvitationInv ==
    ASSUME IInv, NEW p \in Proc, AcceptInvitation(p)
    PROVE  IInv'
<1> USE DEF IInv
<1>1. /\ UNCHANGED <<registered, link, signedIn, failures, deletions>>
      /\ At(p, "accept") /\ Answer(p) /\ Excused(p) /\ req[p] \in Request
    BY DEF AcceptInvitation, bounds, ReqInv, TypeOK
<1>2. PICK t \in Tenant : t = req[p].tenant /\ t \in registered
    BY <1>1 DEF ReqInv, Carried, At, TypeOK
<1>3. Alone(p) /\ At(p, "idle")' /\ Carried(p)' /\ Excused(p)'
    BY <1>1, AnswerFields
<1>4. CASE UNCHANGED <<account, invited, cut>>
    BY <1>1, <1>3, <1>4, QuietInv DEF At, tables, TypeOK
<1>5. ASSUME invited' = invited \ {t}, NEW u \in Account,
             IF ByEmail(t) = {} THEN Unused(u) ELSE u \in ByEmail(t),
             account' = [account EXCEPT ![u] =
                 IF Unused(u) THEN NewRow(t, req[p].password, TRUE)
                 ELSE [@ EXCEPT !.role = TRUE]],
             cut' = IF Unused(u) /\ ~req[p].password /\ deletions > 0
                    THEN [cut EXCEPT !.link = @ \cup {u}] ELSE cut
      PROVE  IInv'
    <2>1. /\ account' \in [Account -> Row] /\ account'[u].role = TRUE
          /\ account'[u].tenant = t /\ Undeleted(u)'
          /\ \A v \in Account \ {u} : account'[v] = account[v]
          /\ \/ /\ account[u].state = account'[u].state
                /\ account'[u].password = account[u].password /\ Undeleted(u)
                /\ account[u].tenant = t
             \/ /\ account[u].state = "none" /\ ByEmail(t) = {} /\ Unused(u)
                /\ account'[u].password = req[p].password
        <3>1. CASE ByEmail(t) = {} /\ Unused(u)
            <4>1. req[p].password \in BOOLEAN
                BY <1>1 DEF Request
            <4>2. PICK x \in Row : /\ x = NewRow(t, req[p].password, TRUE) /\ x.tenant = t
                                  /\ x.state = "live" /\ x.role = TRUE
                                  /\ x.password = req[p].password
                BY <4>1, NewRowFields
            <4>3. account' = [account EXCEPT ![u] = x]
                BY <1>5, <3>1, <4>2
            <4> QED
                BY <3>1, <4>2, <4>3, RowBecomes DEF Unused, Undeleted
        <3>2. CASE u \in ByEmail(t)
            <4> DEFINE x == [account[u] EXCEPT !.role = TRUE]
            <4>1. /\ x \in Row /\ x.role = TRUE /\ x.tenant = account[u].tenant
                  /\ x.state = account[u].state /\ x.password = account[u].password
                BY DEF Row, TypeOK
            <4>2. Undeleted(u) /\ account[u].tenant = t /\ ~Unused(u)
                BY <3>2 DEF ByEmail, Undeleted, Unused
            <4>3. account' = [account EXCEPT ![u] = x]
                BY <1>5, <4>2
            <4> HIDE DEF x
            <4> QED
                BY <4>1, <4>2, <4>3, RowBecomes DEF Undeleted
        <3> QED
            BY <1>5, <3>1, <3>2
    <2>2. /\ cut' \in [role : SUBSET Account, link : SUBSET Account]
          /\ cut'.role = cut.role /\ cut.link \subseteq cut'.link
        BY <1>5 DEF TypeOK
    <2>3. Grows
        BY <1>1, <2>1 DEF Grows, Undeleted
    <2>4. ReqInv'
        BY <1>3, <2>3, OthersKeep
    <2>5. TypeOK'
        <3>1. \A v \in Account \ {u} : ~(Undeleted(v) /\ account[v].tenant = t)
            BY <2>1 DEF ByEmail, TypeOK
        <3>2. \A v, w \in Account :
                 Undeleted(v)' /\ Undeleted(w)' /\ account'[v].tenant = account'[w].tenant => v = w
            BY <2>1, <3>1 DEF TypeOK, Undeleted
        <3> QED
            BY <1>1, <1>3, <1>5, <2>1, <2>2, <3>2 DEF TypeOK, Alone
    <2>6. ForeignKeys' /\ TokensFollowLink'
        <3>1. Undeleted(u)' => account'[u].state # "none"
            BY DEF Undeleted
        <3> QED
            BY <1>1, <1>2, <2>1, <3>1 DEF ForeignKeys, TokensFollowLink, TypeOK
    <2>7. RolelessOnlyWhenCut'
        BY <1>1, <1>3, <2>1, <2>2 DEF RolelessOnlyWhenCut, At, Alone
    <2>8. ReachableUnlessCut'
        <3>1. CASE account[u].state = account'[u].state /\ account'[u].password = account[u].password
            BY <1>1, <1>3, <2>1, <2>2, <3>1 DEF ReachableUnlessCut, At, Alone
        <3>2. CASE /\ ByEmail(t) = {} /\ Unused(u)
                   /\ account'[u].password = req[p].password
            <4>1. req[p].password \/ deletions > 0
                BY <1>1, <1>2, <3>2 DEF Excused, ByEmail
            <4>2. account'[u].password \/ u \in cut'.link
                BY <1>5, <3>2, <4>1 DEF TypeOK
            <4> QED
                BY <1>1, <1>3, <2>1, <2>2, <4>2 DEF ReachableUnlessCut, At, Alone
        <3> QED
            BY <2>1, <3>1, <3>2
    <2> QED
        BY <2>4, <2>5, <2>6, <2>7, <2>8
<1> QED
    BY <1>2, <1>4, <1>5 DEF AcceptInvitation

-----------------------------------------------------------------------------
\* Failures, tenants and the operator

LEMMA FailInv ==
    ASSUME IInv, NEW p \in Proc, Fail(p)
    PROVE  IInv'
<1> USE DEF IInv
<1>1. /\ UNCHANGED <<registered, account, link, invited, signedIn, deletions>>
      /\ failures' \in 0..MaxFailures /\ Carried(p)
      /\ Alone(p) /\ At(p, "idle")' /\ Carried(p)' /\ Excused(p)'
    BY AnswerFields, SignUpAssumption DEF Fail, Failing, tables, TypeOK, ReqInv
<1>2. /\ cut'.role = cut.role \cup (IF At(p, "role") THEN {req[p].account} ELSE {})
      /\ cut'.link = cut.link \cup (IF At(p, "role") \/ At(p, "link")
                                    THEN {req[p].account} ELSE {})
      /\ cut' = [role |-> cut'.role, link |-> cut'.link]
    BY DEF Fail
<1>3. cut' \in [role : SUBSET Account, link : SUBSET Account]
    <2>1. At(p, "role") \/ At(p, "link") => req[p].account \in Account
        BY <1>1 DEF Carried, At
    <2>2. cut'.role \subseteq Account /\ cut'.link \subseteq Account
        BY <1>2, <2>1 DEF TypeOK
    <2> QED
        BY <1>2, <2>2
<1>4. ReqInv'
    BY <1>1, OthersKeep DEF Grows, Undeleted
<1>5. TypeOK'
    BY <1>1, <1>3 DEF TypeOK, Alone, Undeleted
<1>6. ForeignKeys' /\ TokensFollowLink'
    BY <1>1 DEF ForeignKeys, TokensFollowLink
<1>7. RolelessOnlyWhenCut'
    BY <1>1, <1>2 DEF RolelessOnlyWhenCut, At, Alone
<1>8. ReachableUnlessCut'
    BY <1>1, <1>2 DEF ReachableUnlessCut, At, Alone
<1> QED
    BY <1>4, <1>5, <1>6, <1>7, <1>8

LEMMA RegisterInv ==
    ASSUME IInv, NEW t \in Tenant, Register(t)
    PROVE  IInv'
<1> USE DEF IInv
<1>1. /\ t \notin registered /\ registered' = registered \cup {t}
      /\ UNCHANGED <<link, invited, signedIn, cut, failures, deletions, req>>
    BY DEF Register, bounds
<1>2. PICK u \in Account : Unused(u) /\ account' = [account EXCEPT ![u] = NewRow(t, TRUE, TRUE)]
    BY DEF Register
<1>3. /\ account' \in [Account -> Row] /\ account'[u].tenant = t /\ account'[u].state = "live"
      /\ account'[u].password = TRUE /\ account'[u].role = TRUE
      /\ \A v \in Account \ {u} : account'[v] = account[v]
      /\ account[u].state = "none"
    BY <1>2, NewRowFields, RowBecomes DEF Unused
<1>4. ReqInv'
    <2>1. Grows
        BY <1>1, <1>3 DEF Grows, Undeleted
    <2> QED
        BY <1>1, <2>1, KeepsOne DEF ReqInv
<1>5. TypeOK'
    <2>1. \A v \in Account : Undeleted(v) => account[v].tenant # t
        BY <1>1 DEF ForeignKeys, Undeleted
    <2>2. \A v, w \in Account :
             Undeleted(v)' /\ Undeleted(w)' /\ account'[v].tenant = account'[w].tenant => v = w
        BY <1>3, <2>1 DEF TypeOK, Undeleted
    <2> QED
        BY <1>1, <1>3, <2>2 DEF TypeOK
<1>6. ForeignKeys' /\ TokensFollowLink'
    BY <1>1, <1>3 DEF ForeignKeys, TokensFollowLink, TypeOK
<1>7. RolelessOnlyWhenCut' /\ ReachableUnlessCut'
    BY <1>1, <1>3 DEF RolelessOnlyWhenCut, ReachableUnlessCut, At
<1> QED
    BY <1>4, <1>5, <1>6, <1>7

LEMMA InviteInv ==
    ASSUME IInv, NEW t \in Tenant, Invite(t)
    PROVE  IInv'
<1> USE DEF IInv
<1>1. /\ invited' \in SUBSET registered
      /\ UNCHANGED <<registered, account, link, signedIn, cut, failures, deletions, req>>
    BY DEF Invite, bounds, TypeOK
<1>2. ReqInv'
    BY <1>1, KeepsOne DEF ReqInv, Grows, Undeleted
<1>3. TypeOK' /\ ForeignKeys' /\ TokensFollowLink'
    BY <1>1 DEF TypeOK, ForeignKeys, TokensFollowLink, Undeleted
<1>4. RolelessOnlyWhenCut' /\ ReachableUnlessCut'
    BY <1>1 DEF RolelessOnlyWhenCut, ReachableUnlessCut, At
<1> QED
    BY <1>2, <1>3, <1>4

LEMMA OperatorInv ==
    ASSUME IInv, NEW u \in Account, NEW s \in {"disabled", "deleted"}, OperatorEnds(u, s)
    PROVE  IInv'
<1> USE DEF IInv
<1>1. /\ account[u].state = "live" /\ deletions' \in 0..MaxDeletions /\ deletions' > 0
      /\ UNCHANGED <<registered, link, invited, signedIn, cut, failures, req>>
    BY SignUpAssumption DEF OperatorEnds, TypeOK
<1>2. /\ account' \in [Account -> Row] /\ account'[u].state = s
      /\ account'[u].tenant = account[u].tenant /\ account'[u].role = account[u].role
      /\ \A v \in Account \ {u} : account'[v] = account[v]
    <2> DEFINE x == [account[u] EXCEPT !.state = s]
    <2>1. /\ x \in Row /\ x.state = s /\ x.tenant = account[u].tenant
          /\ x.role = account[u].role
        BY DEF Row, TypeOK
    <2>2. account' = [account EXCEPT ![u] = x]
        BY DEF OperatorEnds, TypeOK
    <2> HIDE DEF x
    <2> QED
        BY <2>1, <2>2, RowBecomes
<1>3. ReqInv'
    <2>1. Grows
        BY <1>1, <1>2 DEF Grows
    <2> QED
        BY <1>1, <2>1, KeepsOne DEF ReqInv
<1>4. TypeOK'
    <2>1. \A v \in Account : (Undeleted(v)' => Undeleted(v)) /\ account'[v].tenant = account[v].tenant
        BY <1>1, <1>2 DEF Undeleted
    <2> QED
        BY <1>1, <1>2, <2>1 DEF TypeOK
<1>5. ForeignKeys' /\ TokensFollowLink'
    BY <1>1, <1>2 DEF ForeignKeys, TokensFollowLink, TypeOK
<1>6. RolelessOnlyWhenCut' /\ ReachableUnlessCut'
    BY <1>1, <1>2 DEF RolelessOnlyWhenCut, ReachableUnlessCut, At
<1> QED
    BY <1>3, <1>4, <1>5, <1>6

-----------------------------------------------------------------------------
\* The inductive invariant

LEMMA InitInv == Init => IInv
<1> SUFFICES ASSUME Init PROVE IInv
    OBVIOUS
<1>1. TypeOK
    <2>1. NoRow \in Row /\ NoRow.state = "none"
        BY DEF NoRow, Row
    <2> QED
        BY <2>1, SignUpAssumption, NoRequestFields DEF Init, TypeOK, Undeleted
<1>2. ReqInv
    BY NoRequestFields DEF Init, ReqInv, Carried, Excused, At
<1>3. ForeignKeys /\ TokensFollowLink
    BY DEF Init, ForeignKeys, TokensFollowLink, NoRow
<1>4. RolelessOnlyWhenCut /\ ReachableUnlessCut
    BY DEF Init, RolelessOnlyWhenCut, ReachableUnlessCut, NoRow
<1> QED
    BY <1>1, <1>2, <1>3, <1>4 DEF IInv

LEMMA StepInv == IInv /\ [Next]_vars => IInv'
<1> SUFFICES ASSUME IInv, [Next]_vars PROVE IInv'
    OBVIOUS
<1>1. ASSUME NEW t \in Tenant, Register(t) \/ Invite(t)
      PROVE  IInv'
    BY <1>1, RegisterInv, InviteInv
<1>2. ASSUME NEW p \in Proc, NEW i \in Identity, NEW t \in Tenant, OAuthCallback(p, i, t)
      PROVE  IInv'
    BY <1>2, CallbackInv
<1>3. ASSUME NEW p \in Proc, NEW t \in Tenant, Accept(p, t)
      PROVE  IInv'
    BY <1>3, AcceptInv
<1>4. ASSUME NEW p \in Proc, Step(p)
      PROVE  IInv'
    BY <1>4, FindOAuthAccountInv, FindByEmailInv, CreateInv, AssignSystemRoleInv,
       CreateOAuthAccountInv, ValidateInv, IssueInv, UserExistsInv, AcceptInvitationInv DEF Step
<1>5. ASSUME NEW p \in Proc,
             FindOAuthAccountFails(p) \/ FindByEmailInTenantFails(p) \/ Fail(p)
      PROVE  IInv'
    BY <1>5, LookupFailsInv, FailInv
<1>6. ASSUME NEW u \in Account, NEW s \in {"disabled", "deleted"}, OperatorEnds(u, s)
      PROVE  IInv'
    BY <1>6, OperatorInv
<1>7. CASE UNCHANGED vars
    <2>1. UNCHANGED <<registered, account, link, invited, signedIn, cut, failures, deletions, req>>
        BY <1>7 DEF vars, tables, bounds
    <2>2. ReqInv'
        BY <2>1 DEF IInv, ReqInv, Carried, Excused, At, Undeleted
    <2>3. TypeOK' /\ ForeignKeys' /\ TokensFollowLink'
        BY <2>1 DEF IInv, TypeOK, ForeignKeys, TokensFollowLink, Undeleted
    <2>4. RolelessOnlyWhenCut' /\ ReachableUnlessCut'
        BY <2>1 DEF IInv, RolelessOnlyWhenCut, ReachableUnlessCut, At
    <2> QED
        BY <2>2, <2>3, <2>4 DEF IInv
<1> QED
    BY <1>1, <1>2, <1>3, <1>4, <1>5, <1>6, <1>7 DEF Next

\* Whatever callbacks, acceptances, failures and deletions come between its
\* transactions, a request acts on an account that exists, for an organization
\* that exists, and an identity gets tokens for the account of its link.
THEOREM Invariance == Spec => []IInv
    BY InitInv, StepInv, PTL DEF Spec

\* Every variable keeps its type; in particular no organization ever has two
\* accounts of the person that are not deleted.
THEOREM TypeCorrect == Spec => []TypeOK
<1>1. IInv => TypeOK
    BY DEF IInv
<1> QED
    BY <1>1, Invariance, PTL

\* An account without a role is one whose sign-up by OAuth stopped between
\* Create and AssignSystemRole, or is between them now.
THEOREM RolelessWereCut == Spec => []RolelessOnlyWhenCut
<1>1. IInv => RolelessOnlyWhenCut
    BY DEF IInv
<1> QED
    BY <1>1, Invariance, PTL

\* An account nobody can sign in to is one whose sign-up stopped before
\* CreateOAuthAccount or lost the link there, or one that accept_invitation
\* made without a password after the operator had taken the earlier account.
THEOREM UnreachableWereCut == Spec => []ReachableUnlessCut
<1>1. IInv => ReachableUnlessCut
    BY DEF IInv
<1> QED
    BY <1>1, Invariance, PTL

\* However many callbacks overlap, in however many organizations, OAuthCallback
\* issues an identity tokens for one account only.
THEOREM OneAccountPerIdentity == Spec => []SameAccountEachTime
<1>1. IInv => SameAccountEachTime
    <2> SUFFICES ASSUME IInv, NEW i \in Identity PROVE Cardinality(signedIn[i]) <= 1
        BY DEF SameAccountEachTime
    <2>1. signedIn[i] = {} \/ signedIn[i] = {link[i]}
        BY DEF IInv, TokensFollowLink
    <2>2. Cardinality({}) = 0 /\ Cardinality({link[i]}) = 1
        BY FS_EmptySet, FS_Singleton
    <2> QED
        BY <2>1, <2>2
<1> QED
    BY <1>1, Invariance, PTL
=============================================================================
