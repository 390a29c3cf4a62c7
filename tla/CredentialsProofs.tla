-------------------------- MODULE CredentialsProofs --------------------------
(***************************************************************************)
(* Proofs about Credentials for every number of requests, tenants, slugs,  *)
(* users and keys, and every bound on what the operator does.              *)
(*                                                                         *)
(* The checks of the middleware chain are transactions of their own, so    *)
(* none of them still holds when the next one runs.  IInv says what does:  *)
(* what was found good was good at a moment of the request (Witnessed),    *)
(* the tenant a request acts in is the one of its credential from the      *)
(* check on that compares the two (Tied), and a key that was ever minted   *)
(* keeps its tenant and its owner, so neither can change in between.       *)
(***************************************************************************)
EXTENDS Credentials, FiniteSetTheorems, TLAPS

\* A credential that was handed out.
Known(c) == c \in Credential /\ OwnerOf(c, key) # None

\* Past the comparison of the two tenants.
Bound(p) == req[p].pc \in {"session", "gate", "call", "mint", "withdraw"}

\* Past every check of the credential.
Passed(p) == req[p].pc \in {"gate", "call", "mint", "withdraw"}

\* A revocation in progress has the key to revoke where its credential was.
Revoking(p) == req[p].pc \in {"revoke", "record"}

\* What each step is about.
Presented(p) ==
    /\ ~At(p, "idle") => Known(req[p].cred)
    /\ req[p].pc \in {"resolve", "find", "store"} => req[p].slug \in Slug
    /\ req[p].pc \in {"tenant", "owner", "revoke", "record"} => IsKey(req[p].cred)
    /\ req[p].pc \in {"session", "mint", "withdraw"} => ~IsKey(req[p].cred)

Tied(p) == Bound(p) => req[p].within = Home(req[p].cred)

\* What is in good standing now has been noted, and so has what was checked.
Witnessed(p) ==
    /\ (~At(p, "idle") /\ ~Revoking(p)) =>
         Standing(req[p].cred, tenant, user, key) \subseteq req[p].stood
    /\ req[p].pc \in {"tenant", "owner"} => "key" \in req[p].stood
    /\ At(p, "owner") => "tenant" \in req[p].stood
    /\ Passed(p) => Needed(req[p].cred) \subseteq req[p].stood

Sound(p) == Presented(p) /\ Tied(p) /\ Witnessed(p)

ReqInv == \A p \in Proc : Sound(p)

\* A row of api_keys has an owner.
KeyRows == \A k \in Key : key[k].state = "none" <=> key[k].owner = None

\* Requests that have revoked k, their record written or still to write.
Claims(k) == trail[k] \cup {p \in Proc : At(p, "record") /\ req[p].cred = k}

\* RevokedOnce, without counting.
OneClaim ==
    \A k \in Key :
        /\ \A p, q \in Claims(k) : p = q
        /\ Claims(k) # {} => key[k].state = "revoked"

IInv == TypeOK /\ KeyRows /\ ReqInv /\ OneClaim

-----------------------------------------------------------------------------
\* What a step does to the request it is a step of, and to no other.

Alone(p) == \A q \in Proc \ {p} : req'[q] = req[q]

LEMMA NoRequestTyped ==
    /\ NoRequest \in Request
    /\ NoRequest.pc = "idle" /\ NoRequest.cred = None /\ NoRequest.stood = {}
    BY DEF NoRequest, Request, Entry, Miss, Status

LEMMA GotoFields ==
    ASSUME TypeOK, NEW p \in Proc,
           NEW l \in {"find", "tenant", "owner", "gate", "call", "mint", "withdraw",
                      "record"},
           Goto(p, l)
    PROVE  /\ req' \in [Proc -> Request] /\ Alone(p)
           /\ req'[p].pc = l /\ req'[p].slug = req[p].slug /\ req'[p].cred = req[p].cred
           /\ req'[p].within = req[p].within /\ req'[p].stood = req[p].stood
<1>1. req[p] \in Request /\ req' = [req EXCEPT ![p] = [req[p] EXCEPT !.pc = l]]
    BY DEF TypeOK, Goto
<1>2. [req[p] EXCEPT !.pc = l] \in Request
    BY <1>1 DEF Request
<1> QED
    BY <1>1, <1>2 DEF TypeOK, Alone, Request

LEMMA AnswerFields ==
    ASSUME TypeOK, NEW p \in Proc, Answer(p)
    PROVE  req' \in [Proc -> Request] /\ Alone(p) /\ req'[p] = NoRequest
    BY NoRequestTyped DEF TypeOK, Answer, Alone

LEMMA ResolvedFields ==
    ASSUME TypeOK, NEW p \in Proc, NEW e \in Entry, Resolved(p, e)
    PROVE  /\ req' \in [Proc -> Request] /\ Alone(p)
           /\ \/ req'[p] = NoRequest
              \/ /\ req'[p].pc = "authenticate" /\ req'[p].cred = req[p].cred
                 /\ req'[p].stood = req[p].stood
<1>1. CASE Answer(p)
    BY <1>1, AnswerFields
<1>2. CASE ~Answer(p)
    <2> DEFINE g == [req[p] EXCEPT !.pc = "authenticate", !.slug = None,
                                   !.found = Miss, !.within = e.id]
    <2>1. req[p] \in Request /\ req' = [req EXCEPT ![p] = g]
        BY <1>2 DEF TypeOK, Resolved
    <2>2. Miss \in Entry /\ e.id \in Tenant \cup {None}
        BY DEF Miss, Entry, Status
    <2>3. /\ g \in Request /\ g.pc = "authenticate" /\ g.cred = req[p].cred
          /\ g.stood = req[p].stood
        BY <2>1, <2>2 DEF Request
    <2> HIDE DEF g
    <2> QED
        BY <2>1, <2>3 DEF TypeOK, Alone
<1> QED
    BY <1>1, <1>2

LEMMA OverrideFields ==
    ASSUME TypeOK, NEW p \in Proc, NEW t \in Tenant, NEW l \in {"gate", "session"},
           OverrideFromCredential(p, t, l)
    PROVE  /\ req' \in [Proc -> Request] /\ Alone(p)
           /\ \/ req'[p] = NoRequest
              \/ /\ req'[p].pc = l /\ req'[p].within = t /\ req'[p].cred = req[p].cred
                 /\ req'[p].stood = req[p].stood
<1>1. CASE Answer(p)
    BY <1>1, AnswerFields
<1>2. CASE ~Answer(p)
    <2> DEFINE g == [req[p] EXCEPT !.pc = l, !.within = t]
    <2>1. req[p] \in Request /\ req' = [req EXCEPT ![p] = g]
        BY <1>2 DEF TypeOK, OverrideFromCredential
    <2>2. /\ g \in Request /\ g.pc = l /\ g.within = t /\ g.cred = req[p].cred
          /\ g.stood = req[p].stood
        BY <2>1 DEF Request
    <2> HIDE DEF g
    <2> QED
        BY <2>1, <2>2 DEF TypeOK, Alone
<1> QED
    BY <1>1, <1>2

\* Of which tenant a known credential is.
LEMMA KnownFacts ==
    ASSUME TypeOK, KeyRows, NEW c, Known(c)
    PROVE  /\ OwnerOf(c, key) \in User /\ Home(c) \in Tenant
           /\ Home(c) = TenantOf[OwnerOf(c, key)]
           /\ IsKey(c) => key[c].state # "none"
           /\ c # None /\ c \in Credential
    BY CredentialsAssumption DEF TypeOK, KeyRows, Known, OwnerOf, Home, IsKey, Credential

-----------------------------------------------------------------------------
\* The steps of the middleware chain and of the handlers

Tables == <<tenant, user, key>>

LEMMA QuietTyped ==
    ASSUME TypeOK, UNCHANGED <<tenant, user, key, trail, changes>>,
           cache' \in [Slug -> Entry], req' \in [Proc -> Request]
    PROVE  TypeOK'
    BY DEF TypeOK

LEMMA IdleSound ==
    ASSUME NEW p \in Proc, req'[p] = NoRequest
    PROVE  Sound(p)'
    BY NoRequestTyped DEF Sound, Presented, Tied, Witnessed, At, Bound, Passed, Revoking

\* A step that goes on with the same credential, over the same tables.
LEMMA SameSound ==
    ASSUME TypeOK, NEW p \in Proc, Sound(p), UNCHANGED Tables,
           ~At(p, "idle"), ~Revoking(p),
           req'[p].cred = req[p].cred, req'[p].stood = req[p].stood
    PROVE  /\ Known(req[p].cred)'
           /\ Standing(req[p].cred, tenant, user, key)' \subseteq req'[p].stood
           /\ Home(req[p].cred)' = Home(req[p].cred)
           /\ IsKey(req[p].cred)' = IsKey(req[p].cred)
           /\ Needed(req[p].cred)' = Needed(req[p].cred)
    BY DEF Sound, Presented, Witnessed, Tables, Known, Standing, Home, OwnerOf, IsKey, Needed

LEMMA ResolverSound ==
    ASSUME TypeOK, NEW p \in Proc, Sound(p),
           GetTenantBySlug(p) \/ FindBySlug(p) \/ SetTenantBySlug(p)
    PROVE  TypeOK' /\ Sound(p)' /\ UNCHANGED Tables /\ Alone(p)
<1>1. /\ UNCHANGED <<tenant, user, key, trail, changes>> /\ UNCHANGED Tables
      /\ req[p].pc \in {"resolve", "find", "store"}
    BY DEF GetTenantBySlug, FindBySlug, SetTenantBySlug, Tables, At
<1>2. req[p].slug \in Slug /\ req[p] \in Request /\ req[p].found \in Entry
    BY <1>1 DEF TypeOK, Sound, Presented, Request
<1>3. ~At(p, "idle") /\ ~Revoking(p)
    BY <1>1 DEF At, Revoking
<1>4. ASSUME req'[p].pc \in {"find", "store", "authenticate"},
             req'[p].cred = req[p].cred, req'[p].stood = req[p].stood,
             req'[p].pc # "authenticate" => req'[p].slug = req[p].slug
      PROVE  Sound(p)'
    BY <1>1, <1>2, <1>3, <1>4, SameSound DEF Sound, Presented, Tied, Witnessed, At, Bound,
       Passed, Revoking
<1>5. ASSUME NEW e \in Entry, Resolved(p, e)
      PROVE  req' \in [Proc -> Request] /\ Sound(p)' /\ Alone(p)
    BY <1>4, <1>5, ResolvedFields, IdleSound
<1>6. ASSUME Answer(p)
      PROVE  req' \in [Proc -> Request] /\ Sound(p)' /\ Alone(p)
    BY <1>6, AnswerFields, IdleSound
<1>7. CASE GetTenantBySlug(p)
    <2>1. cache' = cache /\ cache[req[p].slug] \in Entry
        BY <1>2, <1>7 DEF GetTenantBySlug, TypeOK
    <2>2. ASSUME Goto(p, "find")
          PROVE  req' \in [Proc -> Request] /\ Sound(p)' /\ Alone(p)
        BY <1>4, <2>2, GotoFields
    <2>3. req' \in [Proc -> Request] /\ Sound(p)' /\ Alone(p)
        BY <1>5, <1>7, <2>1, <2>2 DEF GetTenantBySlug
    <2> QED
        BY <1>1, <2>1, <2>3, QuietTyped DEF TypeOK
<1>8. CASE FindBySlug(p)
    <2>1. ASSUME NEW t \in Named(req[p].slug),
                 req' = [req EXCEPT ![p].pc = "store",
                           ![p].found = [id |-> t, status |-> tenant[t].status]]
          PROVE  req' \in [Proc -> Request] /\ Sound(p)' /\ Alone(p)
        <3> DEFINE e == [id |-> t, status |-> tenant[t].status]
                   g == [req[p] EXCEPT !.pc = "store", !.found = e]
        <3>1. e \in Entry
            BY DEF TypeOK, Named, Live, Entry, Status
        <3>2. /\ g \in Request /\ g.pc = "store" /\ g.slug = req[p].slug
              /\ g.cred = req[p].cred /\ g.stood = req[p].stood
            BY <1>2, <3>1 DEF Request
        <3>3. req' = [req EXCEPT ![p] = g]
            BY <1>2, <2>1 DEF TypeOK, Request
        <3> HIDE DEF g, e
        <3>4. req' \in [Proc -> Request] /\ Alone(p) /\ req'[p] = g
            BY <3>2, <3>3 DEF TypeOK, Alone
        <3> QED
            BY <1>4, <3>2, <3>4
    <2>2. Miss \in Entry
        BY DEF Miss, Entry, Status
    <2>3. req' \in [Proc -> Request] /\ Sound(p)' /\ Alone(p)
        BY <1>5, <1>6, <1>8, <2>1, <2>2 DEF FindBySlug
    <2>4. cache' \in [Slug -> Entry]
        BY <1>8 DEF FindBySlug, TypeOK
    <2> QED
        BY <1>1, <2>3, <2>4, QuietTyped
<1>9. CASE SetTenantBySlug(p)
    <2>1. cache' \in [Slug -> Entry]
        BY <1>2, <1>9 DEF SetTenantBySlug, TypeOK
    <2> QED
        BY <1>1, <1>2, <1>5, <1>9, <2>1, QuietTyped DEF SetTenantBySlug
<1> QED
    BY <1>7, <1>8, <1>9

LEMMA CheckSound ==
    ASSUME TypeOK, KeyRows, NEW p \in Proc, Sound(p),
           \/ FindByHash(p) \/ ValidateKeyTenant(p) \/ ValidateKeyOwner(p)
           \/ ParseAccessToken(p) \/ ValidateCredentialState(p)
    PROVE  TypeOK' /\ Sound(p)' /\ UNCHANGED Tables /\ Alone(p)
<1> DEFINE c == req[p].cred
           Good == Standing(c, tenant, user, key)
<1>1. /\ UNCHANGED <<tenant, user, key, trail, changes>> /\ UNCHANGED Tables
      /\ cache' \in [Slug -> Entry]
      /\ ~At(p, "idle") /\ ~Revoking(p)
    BY DEF FindByHash, ValidateKeyTenant, ValidateKeyOwner, ParseAccessToken,
       ValidateCredentialState, Tables, At, Revoking, TypeOK
<1>2. Known(c) /\ Good \subseteq req[p].stood
    BY <1>1 DEF Sound, Presented, Witnessed
<1>3. /\ OwnerOf(c, key) # None /\ Home(c) \in Tenant
      /\ Home(c) = TenantOf[OwnerOf(c, key)] /\ c # None
    BY <1>2, KnownFacts DEF Known
<1>4. /\ IsKey(c) /\ key[c].state = "live" => "key" \in req[p].stood
      /\ tenant[Home(c)].status = "active" => "tenant" \in req[p].stood
      /\ OwnerOf(c, key) \in user => "user" \in req[p].stood
    BY <1>2, <1>3 DEF Standing, Needed, Part
<1>5. ASSUME Answer(p)
      PROVE  req' \in [Proc -> Request] /\ Sound(p)' /\ Alone(p)
    BY <1>5, AnswerFields, IdleSound
\* The next check, with what this one has found.
<1>6. ASSUME req'[p].cred = c, req'[p].stood = req[p].stood,
             \/ req'[p].pc = "tenant" /\ IsKey(c) /\ "key" \in req[p].stood
             \/ req'[p].pc = "owner" /\ IsKey(c) /\ {"key", "tenant"} \subseteq req[p].stood
             \/ req'[p].pc = "session" /\ ~IsKey(c) /\ req'[p].within = Home(c)
             \/ /\ req'[p].pc = "gate" /\ req'[p].within = Home(c)
                /\ Needed(c) \subseteq req[p].stood
      PROVE  Sound(p)'
    <2>1. /\ Known(c)' /\ Standing(c, tenant, user, key)' \subseteq req'[p].stood
          /\ Home(c)' = Home(c) /\ IsKey(c)' = IsKey(c) /\ Needed(c)' = Needed(c)
        BY <1>1, <1>6, SameSound
    <2> QED
        BY <1>6, <2>1 DEF Sound, Presented, Tied, Witnessed, At, Bound, Passed, Revoking
<1>7. CASE FindByHash(p)
    <2>1. CASE Goto(p, "tenant") /\ key[c].state = "live" /\ IsKey(c)
        BY <1>1, <1>4, <1>6, <2>1, GotoFields, QuietTyped
    <2> QED
        BY <1>1, <1>5, <1>7, <2>1, QuietTyped DEF FindByHash
<1>8. CASE ValidateKeyTenant(p)
    <2>1. IsKey(c) /\ "key" \in req[p].stood
        BY <1>8 DEF ValidateKeyTenant, At, Sound, Presented, Witnessed
    <2>2. CASE Goto(p, "owner") /\ tenant[Home(c)].status = "active"
        BY <1>1, <1>4, <1>6, <2>1, <2>2, GotoFields, QuietTyped
    <2> QED
        BY <1>1, <1>5, <1>8, <2>2, QuietTyped DEF ValidateKeyTenant
<1>9. CASE ValidateKeyOwner(p)
    <2>1. IsKey(c) /\ {"key", "tenant"} \subseteq req[p].stood
        BY <1>9 DEF ValidateKeyOwner, At, Sound, Presented, Witnessed
    <2>2. CASE OverrideFromCredential(p, Home(c), "gate") /\ key[c].owner \in user
        <3>1. Needed(c) \subseteq req[p].stood
            BY <1>4, <2>1, <2>2 DEF Needed, Part, OwnerOf
        <3>2. req' \in [Proc -> Request] /\ Sound(p)' /\ Alone(p)
            BY <1>3, <1>6, <2>2, <3>1, OverrideFields, IdleSound
        <3> QED
            BY <1>1, <3>2, QuietTyped
    <2> QED
        BY <1>1, <1>5, <1>9, <2>2, QuietTyped DEF ValidateKeyOwner
<1>10. CASE ParseAccessToken(p)
    <2>1. CASE OverrideFromCredential(p, Home(c), "session") /\ ~IsKey(c)
        <3>1. req' \in [Proc -> Request] /\ Sound(p)' /\ Alone(p)
            BY <1>3, <1>6, <2>1, OverrideFields, IdleSound
        <3> QED
            BY <1>1, <3>1, QuietTyped
    <2> QED
        BY <1>1, <1>5, <1>10, <2>1, QuietTyped DEF ParseAccessToken
<1>11. CASE ValidateCredentialState(p)
    <2>1. ~IsKey(c) /\ req[p].within = Home(c)
        BY <1>11 DEF ValidateCredentialState, At, Sound, Presented, Tied, Bound
    <2>2. CASE Goto(p, "gate") /\ c \in user /\ tenant[Home(c)].status = "active"
        <3>1. Needed(c) \subseteq req[p].stood
            BY <1>4, <2>1, <2>2 DEF Needed, OwnerOf
        <3> QED
            BY <1>1, <1>6, <2>1, <2>2, <3>1, GotoFields, QuietTyped
    <2> QED
        BY <1>1, <1>5, <1>11, <2>2, QuietTyped DEF ValidateCredentialState
<1> QED
    BY <1>7, <1>8, <1>9, <1>10, <1>11

LEMMA GateSound ==
    ASSUME TypeOK, KeyRows, NEW p \in Proc, Sound(p), RequirePermission(p)
    PROVE  TypeOK' /\ Sound(p)' /\ UNCHANGED Tables /\ Alone(p)
<1> DEFINE c == req[p].cred
<1>1. /\ UNCHANGED <<tenant, user, key, trail, changes>> /\ UNCHANGED Tables
      /\ cache' \in [Slug -> Entry]
      /\ At(p, "gate") /\ ~At(p, "idle") /\ ~Revoking(p)
    BY DEF RequirePermission, Tables, At, Revoking, TypeOK
<1>2. CASE Answer(p)
    BY <1>1, <1>2, AnswerFields, IdleSound, QuietTyped
<1>3. ASSUME NEW l \in {"call", "mint", "withdraw"}, Goto(p, l), l # "call" => ~IsKey(c)
      PROVE  TypeOK' /\ Sound(p)' /\ UNCHANGED Tables /\ Alone(p)
    <2>1. /\ req' \in [Proc -> Request] /\ Alone(p) /\ req'[p].pc = l
          /\ req'[p].cred = c /\ req'[p].within = req[p].within
          /\ req'[p].stood = req[p].stood
        BY <1>3, GotoFields
    <2>2. req[p].within = Home(c) /\ Needed(c) \subseteq req[p].stood
        BY <1>1 DEF At, Sound, Tied, Bound, Witnessed, Passed
    <2>3. /\ Known(c)' /\ Standing(c, tenant, user, key)' \subseteq req'[p].stood
          /\ Home(c)' = Home(c) /\ IsKey(c)' = IsKey(c) /\ Needed(c)' = Needed(c)
        BY <1>1, <2>1, SameSound
    <2>4. Sound(p)'
        BY <1>3, <2>1, <2>2, <2>3 DEF Sound, Presented, Tied, Witnessed, At, Bound, Passed,
           Revoking
    <2> QED
        BY <1>1, <2>1, <2>4, QuietTyped
<1> QED
    BY <1>2, <1>3 DEF RequirePermission

LEMMA AnswerSound ==
    ASSUME TypeOK, NEW p \in Proc, Call(p) \/ Fail(p)
    PROVE  TypeOK' /\ Sound(p)' /\ UNCHANGED Tables /\ Alone(p)
    BY AnswerFields, IdleSound, QuietTyped DEF Call, Fail, Tables, TypeOK

LEMMA ArriveSound ==
    ASSUME TypeOK, KeyRows, NEW p \in Proc, NEW c \in Credential,
           NEW s \in Hint \cup {None}, Arrive(p, c, s)
    PROVE  TypeOK' /\ Sound(p)' /\ UNCHANGED Tables /\ Alone(p)
<1> DEFINE l == IF s = None THEN "authenticate" ELSE "resolve"
           S == Standing(c, tenant, user, key)
           g == [NoRequest EXCEPT !.pc = l, !.slug = s, !.cred = c, !.stood = S]
<1>1. /\ UNCHANGED <<tenant, user, key, cache, trail, changes>> /\ UNCHANGED Tables
      /\ req' = [req EXCEPT ![p] = g] /\ Known(c)
    BY DEF Arrive, Tables, Known
<1>2. S \subseteq Part /\ s \in Slug \cup {None}
    BY CredentialsAssumption DEF Standing, Needed, Part
<1>3. /\ g \in Request /\ g.pc = l /\ g.slug = s /\ g.cred = c /\ g.stood = S
    BY <1>2 DEF NoRequest, Request, Entry, Miss, Status
<1> HIDE DEF g
<1>4. req' \in [Proc -> Request] /\ Alone(p) /\ req'[p] = g
    BY <1>1, <1>3 DEF TypeOK, Alone
<1>5. /\ Known(c)' /\ Standing(c, tenant, user, key)' = S
    BY <1>1 DEF Known, OwnerOf, IsKey, Standing, Needed
<1>6. Sound(p)'
    BY <1>2, <1>3, <1>4, <1>5 DEF Sound, Presented, Tied, Witnessed, At, Bound, Passed,
       Revoking
<1> QED
    BY <1>1, <1>4, <1>6, QuietTyped DEF TypeOK

-----------------------------------------------------------------------------
\* The life of the keys

LEMMA CreateSound ==
    ASSUME TypeOK, KeyRows, NEW p \in Proc, NEW k \in Key, Sound(p), Create(p, k)
    PROVE  TypeOK' /\ KeyRows' /\ Sound(p)' /\ Alone(p)
<1> DEFINE n == [tenant |-> req[p].within, owner |-> req[p].cred, state |-> "live"]
<1>1. /\ req[p].cred \in User /\ req[p].cred # None
      /\ req[p].within = TenantOf[req[p].cred]
    BY CredentialsAssumption DEF Create, At, Sound, Presented, Tied, Bound, Known, IsKey,
       Credential, Home
<1>2. req[p].within \in Tenant
    BY <1>1, CredentialsAssumption
<1>3. req' \in [Proc -> Request] /\ Alone(p) /\ Sound(p)'
    BY AnswerFields, IdleSound DEF Create
<1>4. key' = [key EXCEPT ![k] = n]
    BY DEF Create
<1>5. KeyRows'
    BY <1>1, <1>4 DEF KeyRows, TypeOK
<1>6. TypeOK'
    BY <1>1, <1>2, <1>3, <1>4 DEF TypeOK, Create
<1> QED
    BY <1>3, <1>5, <1>6

LEMMA FindByIDSound ==
    ASSUME TypeOK, KeyRows, NEW p \in Proc, NEW k \in Key, FindByID(p, k)
    PROVE  TypeOK' /\ Sound(p)' /\ UNCHANGED Tables /\ Alone(p)
<1> DEFINE g == [req[p] EXCEPT !.pc = "revoke", !.cred = k, !.stood = {}]
<1>1. req[p] \in Request /\ req' = [req EXCEPT ![p] = g]
    BY DEF FindByID, TypeOK, Request
<1>2. g \in Request /\ g.pc = "revoke" /\ g.cred = k
    BY <1>1 DEF Request, Credential
<1> HIDE DEF g
<1>3. req' \in [Proc -> Request] /\ Alone(p) /\ req'[p] = g
    BY <1>1, <1>2 DEF TypeOK, Alone
<1>4. UNCHANGED Tables /\ UNCHANGED <<tenant, user, key, cache, trail, changes>>
    BY DEF FindByID, Tables
<1>5. Known(k)'
    BY <1>4 DEF FindByID, KeyRows, Known, OwnerOf, IsKey, Credential
<1>6. Sound(p)'
    BY <1>2, <1>3, <1>5 DEF Sound, Presented, Tied, Witnessed, At, Bound, Passed, Revoking,
       IsKey
<1> QED
    BY <1>3, <1>4, <1>6, QuietTyped DEF TypeOK

LEMMA RevokeSound ==
    ASSUME TypeOK, KeyRows, NEW p \in Proc, Sound(p), Revoke(p)
    PROVE  TypeOK' /\ KeyRows' /\ Sound(p)' /\ Alone(p)
<1> DEFINE k == req[p].cred
<1>1. k \in Key /\ key[k].owner # None
    BY DEF Revoke, At, Sound, Presented, IsKey, Known, OwnerOf
<1>2. CASE Answer(p) /\ key' = key
    <2>1. req' \in [Proc -> Request] /\ Alone(p) /\ Sound(p)'
        BY <1>2, AnswerFields, IdleSound
    <2> QED
        BY <1>2, <2>1, QuietTyped DEF Revoke, TypeOK, KeyRows
<1>3. CASE Goto(p, "record") /\ key' = [key EXCEPT ![k].state = "revoked"]
    <2>1. req' \in [Proc -> Request] /\ Alone(p) /\ req'[p].pc = "record" /\ req'[p].cred = k
        BY <1>3, GotoFields
    <2>2. \A j \in Key : /\ key'[j].owner = key[j].owner /\ key'[j].tenant = key[j].tenant
                         /\ key'[j].state = IF j = k THEN "revoked" ELSE key[j].state
        BY <1>3 DEF TypeOK
    <2>3. key' \in [Key -> [tenant : Tenant \cup {None}, owner : User \cup {None},
                            state : {"none", "live", "expired", "revoked"}]]
        BY <1>3 DEF TypeOK
    <2>4. KeyRows'
        BY <1>1, <2>2 DEF KeyRows
    <2>5. Known(k)'
        BY <1>1, <2>1, <2>2 DEF Known, OwnerOf, IsKey, Credential
    <2>6. Sound(p)'
        BY <1>1, <2>1, <2>5 DEF Sound, Presented, Tied, Witnessed, At, Bound, Passed, Revoking,
           IsKey
    <2>7. \A j \in Key : key'[j].state # "none" => key'[j].tenant = TenantOf[key'[j].owner]
        BY <1>1, <2>2 DEF TypeOK, KeyRows
    <2>8. TypeOK'
        BY <2>1, <2>3, <2>7 DEF TypeOK, Revoke
    <2> QED
        BY <2>1, <2>4, <2>6, <2>8
<1> QED
    BY <1>2, <1>3 DEF Revoke

LEMMA RecordSound ==
    ASSUME TypeOK, NEW p \in Proc, Sound(p), Record(p)
    PROVE  TypeOK' /\ Sound(p)' /\ UNCHANGED Tables /\ Alone(p)
<1>1. req' \in [Proc -> Request] /\ Alone(p) /\ Sound(p)'
    BY AnswerFields, IdleSound DEF Record
<1>2. trail' \in [Key -> SUBSET Proc]
    BY DEF Record, TypeOK
<1> QED
    BY <1>1, <1>2 DEF TypeOK, Record, Tables

-----------------------------------------------------------------------------
\* What a step leaves to another request: its fields, but that more may have
\* been noted; every row of api_keys its owner and tenant; and nothing comes to
\* be in good standing that has not been noted.
Frame(q) ==
    /\ req'[q].pc = req[q].pc /\ req'[q].slug = req[q].slug /\ req'[q].cred = req[q].cred
    /\ req'[q].within = req[q].within /\ req[q].stood \subseteq req'[q].stood
    /\ \A k \in Key : key[k].state # "none" =>
         key'[k].owner = key[k].owner /\ key'[k].tenant = key[k].tenant
    /\ (Known(req[q].cred) /\ ~At(q, "idle") /\ ~Revoking(q)) =>
         Standing(req[q].cred, tenant', user', key') \subseteq
             Standing(req[q].cred, tenant, user, key) \cup req'[q].stood

LEMMA FrameKeeps ==
    ASSUME TypeOK, KeyRows, NEW q \in Proc, Sound(q), Frame(q)
    PROVE  Sound(q)'
<1> DEFINE c == req[q].cred
<1>1. CASE At(q, "idle")
    BY <1>1 DEF Frame, Sound, Presented, Tied, Witnessed, At, Bound, Passed, Revoking
<1>2. CASE ~At(q, "idle")
    <2>1. Known(c) /\ (IsKey(c) => key[c].state # "none" /\ c \in Key)
        BY <1>2, KnownFacts DEF Sound, Presented, IsKey
    <2>2. IsKey(c) => key'[c].owner = key[c].owner /\ key'[c].tenant = key[c].tenant
        BY <2>1 DEF Frame
    <2>3. /\ req'[q].cred = c /\ req'[q].pc = req[q].pc /\ req'[q].slug = req[q].slug
          /\ req'[q].within = req[q].within /\ req[q].stood \subseteq req'[q].stood
        BY DEF Frame
    <2>4. Presented(q)'
        BY <1>2, <2>1, <2>2, <2>3 DEF Sound, Presented, Known, OwnerOf, IsKey, At
    <2>5. Tied(q)'
        BY <2>2, <2>3 DEF Sound, Tied, Bound, Home, IsKey
    <2>6. Witnessed(q)'
        <3>1. ~Revoking(q) =>
                Standing(req'[q].cred, tenant', user', key') \subseteq req'[q].stood
            BY <1>2, <2>1, <2>3 DEF Frame, Sound, Witnessed
        <3>2. Passed(q) => Needed(req'[q].cred) \subseteq req'[q].stood
            BY <2>3 DEF Sound, Witnessed
        <3> QED
            BY <2>3, <3>1, <3>2 DEF Sound, Witnessed, At, Passed, Revoking
    <2> QED
        BY <2>4, <2>5, <2>6 DEF Sound
<1> QED
    BY <1>1, <1>2

\* Steps that change no table but api_keys.
LEMMA KeysFrame ==
    ASSUME TypeOK, KeyRows, NEW q \in Proc, Sound(q), req'[q] = req[q],
           tenant' = tenant, user' = user,
           \A k \in Key : key[k].state # "none" =>
             /\ key'[k].owner = key[k].owner /\ key'[k].tenant = key[k].tenant
             /\ key'[k].state = "live" => key[k].state = "live"
    PROVE  Frame(q)
<1> DEFINE c == req[q].cred
<1> SUFFICES ASSUME Known(c)
             PROVE  Standing(c, tenant', user', key') \subseteq Standing(c, tenant, user, key)
    BY DEF Frame
<1>1. IsKey(c) => c \in Key /\ key[c].state # "none"
    BY KnownFacts DEF IsKey
<1>2. OwnerOf(c, key') = OwnerOf(c, key)
    BY <1>1 DEF OwnerOf
<1>3. c \in Key => (key'[c].state = "live" => key[c].state = "live")
    BY <1>1 DEF IsKey
<1>4. "key" \in Needed(c) => c \in Key
    BY DEF Needed, IsKey
<1>5. c # None
    BY KnownFacts
<1> HIDE DEF c
<1> QED
    BY <1>2, <1>3, <1>4, <1>5 DEF Standing

LEMMA ChangeTyped ==
    ASSUME TypeOK, Change, UNCHANGED <<key, cache, trail>>
    PROVE  req' \in [Proc -> Request] /\ changes' \in 0..MaxChanges
<1>1. ASSUME NEW p \in Proc
      PROVE  [req[p] EXCEPT !.stood = @ \cup Standing(req[p].cred, tenant', user', key')]
               \in Request
    <2>1. Standing(req[p].cred, tenant', user', key') \subseteq Part
        BY DEF Standing, Needed, Part
    <2>2. req[p] \in Request
        BY DEF TypeOK
    <2> HIDE DEF Standing
    <2> QED
        BY <2>1, <2>2 DEF Request
<1>2. changes' \in 0..MaxChanges
    BY CredentialsAssumption DEF Change, TypeOK
<1> QED
    BY <1>1, <1>2 DEF Change

\* The operator: whatever is in good standing after a change is noted with it.
LEMMA ChangeFrame ==
    ASSUME TypeOK, NEW q \in Proc, Change, key' = key
    PROVE  Frame(q)
<1> DEFINE S == Standing(req[q].cred, tenant', user', key')
<1>1. req'[q] = [req[q] EXCEPT !.stood = @ \cup S]
    BY DEF Change
<1>2. req[q] \in Request
    BY DEF TypeOK
<1>3. Standing(req[q].cred, tenant', user', key') = S
    OBVIOUS
<1> HIDE DEF S
<1>4. /\ req'[q].pc = req[q].pc /\ req'[q].slug = req[q].slug
      /\ req'[q].cred = req[q].cred /\ req'[q].within = req[q].within
      /\ req'[q].stood = req[q].stood \cup S
    BY <1>1, <1>2 DEF Request
<1> QED
    BY <1>3, <1>4 DEF Frame

\* A slug is of one live tenant: what a change of tenant t has to leave so.
LEMMA SlugsStayApart ==
    ASSUME TypeOK, NEW t \in Tenant,
           \A v \in Tenant \ {t} :
             /\ tenant'[v] = tenant[v]
             /\ tenant[v].slug = tenant'[t].slug => tenant[v].status \in {"none", "deleted"}
    PROVE  \A u, v \in Tenant :
             u # v /\ tenant'[u].slug = tenant'[v].slug =>
                 {tenant'[u].status, tenant'[v].status} \cap {"none", "deleted"} # {}
<1> SUFFICES ASSUME NEW u \in Tenant, NEW v \in Tenant, u # v,
                    tenant'[u].slug = tenant'[v].slug
             PROVE  tenant'[u].status \in {"none", "deleted"}
                      \/ tenant'[v].status \in {"none", "deleted"}
    OBVIOUS
<1>1. CASE u = t \/ v = t
    BY <1>1
<1>2. CASE u # t /\ v # t
    <2>1. tenant'[u] = tenant[u] /\ tenant'[v] = tenant[v]
        BY <1>2
    <2>2. {tenant[u].status, tenant[v].status} \cap {"none", "deleted"} # {}
        BY <2>1 DEF TypeOK
    <2> QED
        BY <2>1, <2>2
<1> QED
    BY <1>1, <1>2

LEMMA OperatorTyped ==
    ASSUME TypeOK, KeyRows, Operator
    PROVE  TypeOK' /\ KeyRows'
<1>1. ASSUME NEW t \in Tenant, NEW s \in Slug, RegisterTenant(t, s)
      PROVE  TypeOK' /\ KeyRows'
    <2>1. \A v \in Tenant \ {t} :
            /\ tenant'[v] = tenant[v]
            /\ tenant[v].slug = tenant'[t].slug => tenant[v].status \in {"none", "deleted"}
        BY <1>1 DEF RegisterTenant, TypeOK, Free, Live
    <2>2. tenant' \in [Tenant -> [slug : Slug \cup {None}, status : Status]]
        BY <1>1 DEF RegisterTenant, TypeOK, Status
    <2> QED
        BY <1>1, <2>1, <2>2, SlugsStayApart, ChangeTyped DEF RegisterTenant, TypeOK, KeyRows
<1>2. ASSUME NEW t \in Tenant, NEW s \in Slug, Rename(t, s)
      PROVE  TypeOK' /\ KeyRows'
    <2>1. \A v \in Tenant \ {t} :
            /\ tenant'[v] = tenant[v]
            /\ tenant[v].slug = tenant'[t].slug => tenant[v].status \in {"none", "deleted"}
        BY <1>2 DEF Rename, TypeOK, Free, Live
    <2>2. tenant' \in [Tenant -> [slug : Slug \cup {None}, status : Status]]
        BY <1>2 DEF Rename, TypeOK
    <2> QED
        BY <1>2, <2>1, <2>2, SlugsStayApart, ChangeTyped DEF Rename, TypeOK, KeyRows
<1>3. ASSUME NEW t \in Tenant, NEW st \in Status \ {"none"}, SetStatus(t, st)
      PROVE  TypeOK' /\ KeyRows'
    <2>1. \A v \in Tenant \ {t} :
            /\ tenant'[v] = tenant[v]
            /\ tenant[v].slug = tenant'[t].slug => tenant[v].status \in {"none", "deleted"}
        <3>1. /\ tenant'[t].slug = tenant[t].slug /\ tenant[t].status \notin {"none", "deleted"}
              /\ \A v \in Tenant \ {t} : tenant'[v] = tenant[v]
            BY <1>3 DEF SetStatus, Live, TypeOK
        <3>2. \A v \in Tenant \ {t} : tenant[v].slug = tenant[t].slug =>
                {tenant[v].status, tenant[t].status} \cap {"none", "deleted"} # {}
            BY DEF TypeOK
        <3> QED
            BY <3>1, <3>2
    <2>2. tenant' \in [Tenant -> [slug : Slug \cup {None}, status : Status]]
        BY <1>3 DEF SetStatus, TypeOK
    <2> QED
        BY <1>3, <2>1, <2>2, SlugsStayApart, ChangeTyped DEF SetStatus, TypeOK, KeyRows
<1>4. ASSUME NEW u \in User, SwitchUser(u)
      PROVE  TypeOK' /\ KeyRows'
    BY <1>4, ChangeTyped DEF SwitchUser, TypeOK, KeyRows
<1>5. ASSUME NEW k \in Key, KeyExpires(k)
      PROVE  TypeOK' /\ KeyRows'
    <2>1. \A j \in Key : /\ key'[j].owner = key[j].owner /\ key'[j].tenant = key[j].tenant
                         /\ key'[j].state = IF j = k THEN "expired" ELSE key[j].state
        BY <1>5 DEF KeyExpires, TypeOK
    <2>2. key' \in [Key -> [tenant : Tenant \cup {None}, owner : User \cup {None},
                            state : {"none", "live", "expired", "revoked"}]]
        BY <1>5 DEF KeyExpires, TypeOK
    <2>3. KeyRows'
        BY <1>5, <2>1 DEF KeyExpires, KeyRows
    <2>4. \A j \in Key : key'[j].state # "none" => key'[j].tenant = TenantOf[key'[j].owner]
        BY <1>5, <2>1 DEF KeyExpires, TypeOK
    <2> QED
        BY <1>5, <2>2, <2>3, <2>4 DEF KeyExpires, TypeOK
<1> QED
    BY <1>1, <1>2, <1>3, <1>4, <1>5 DEF Operator

LEMMA OperatorFrame ==
    ASSUME TypeOK, KeyRows, NEW q \in Proc, Sound(q), Operator
    PROVE  Frame(q)
<1>1. ASSUME NEW k \in Key, KeyExpires(k)
      PROVE  Frame(q)
    BY <1>1, KeysFrame DEF KeyExpires, TypeOK
<1>2. CASE \A k \in Key : ~KeyExpires(k)
    BY <1>2, ChangeFrame DEF Operator, RegisterTenant, Rename, SetStatus, SwitchUser
<1> QED
    BY <1>1, <1>2

-----------------------------------------------------------------------------
\* Revocations

LEMMA ClaimsOnly ==
    ASSUME OneClaim,
           \A k \in Key : /\ \A q \in Proc :
                               At(q, "record")' /\ req'[q].cred = k => q \in Claims(k)
                          /\ trail'[k] \subseteq Claims(k)
                          /\ key[k].state = "revoked" => key'[k].state = "revoked"
    PROVE  OneClaim'
<1>1. \A k \in Key : Claims(k)' \subseteq Claims(k)
    BY DEF Claims
<1> QED
    BY <1>1 DEF OneClaim

\* A step that makes no claim and writes no record.
LEMMA NoNewClaim ==
    ASSUME OneClaim, trail' = trail,
           \A q \in Proc : req'[q].pc # "record" \/
                             (req'[q].pc = req[q].pc /\ req'[q].cred = req[q].cred),
           \A k \in Key : key[k].state = "revoked" => key'[k].state = "revoked"
    PROVE  OneClaim'
<1>1. \A k \in Key : /\ \A q \in Proc :
                          At(q, "record")' /\ req'[q].cred = k => q \in Claims(k)
                     /\ trail'[k] \subseteq Claims(k)
                     /\ key[k].state = "revoked" => key'[k].state = "revoked"
    BY DEF Claims, At
<1> QED
    BY <1>1, ClaimsOnly

LEMMA RevokeClaims ==
    ASSUME TypeOK, OneClaim, NEW p \in Proc, Sound(p), Revoke(p)
    PROVE  OneClaim'
<1>1. CASE Answer(p) /\ key' = key
    <2>1. \A q \in Proc : req'[q].pc # "record" \/ req'[q] = req[q]
        BY <1>1, AnswerFields, NoRequestTyped DEF Alone
    <2> QED
        BY <1>1, <2>1, NoNewClaim DEF Revoke
<1>2. CASE /\ key[req[p].cred].state # "revoked"
           /\ key' = [key EXCEPT ![req[p].cred].state = "revoked"]
           /\ Goto(p, "record")
    <2>1. req[p].cred \in Key
        BY DEF Revoke, At, Sound, Presented, IsKey
    <2>2. PICK j \in Key : j = req[p].cred
        BY <2>1
    <2>3. Claims(j) = {}
        BY <1>2, <2>2 DEF OneClaim
    <2>4. /\ req'[p].cred = j /\ \A q \in Proc \ {p} : req'[q] = req[q]
          /\ trail' = trail /\ key'[j].state = "revoked"
          /\ \A k \in Key \ {j} : key'[k] = key[k]
        BY <1>2, <2>2, GotoFields DEF Revoke, Alone, TypeOK
    <2>5. Claims(j)' \subseteq {p}
        BY <2>3, <2>4 DEF Claims, At
    <2>6. \A k \in Key \ {j} : Claims(k)' \subseteq Claims(k)
        BY <2>4 DEF Claims, At
    <2> QED
        BY <2>4, <2>5, <2>6 DEF OneClaim
<1> QED
    BY <1>1, <1>2 DEF Revoke

LEMMA RecordClaims ==
    ASSUME TypeOK, OneClaim, NEW p \in Proc, Sound(p), Record(p)
    PROVE  OneClaim'
<1>1. req[p].cred \in Key /\ At(p, "record") /\ key' = key
    BY DEF Record, At, Sound, Presented, IsKey
<1>2. \A q \in Proc : req'[q].pc # "record" \/ req'[q] = req[q]
    BY AnswerFields, NoRequestTyped DEF Record, Alone
<1>3. \A k \in Key : trail'[k] \subseteq Claims(k)
    BY <1>1 DEF Record, TypeOK, Claims
<1>4. \A k \in Key : /\ \A q \in Proc :
                          At(q, "record")' /\ req'[q].cred = k => q \in Claims(k)
                     /\ trail'[k] \subseteq Claims(k)
                     /\ key[k].state = "revoked" => key'[k].state = "revoked"
    BY <1>1, <1>2, <1>3 DEF Claims, At
<1> QED
    BY <1>4, ClaimsOnly

-----------------------------------------------------------------------------
\* The inductive invariant

LEMMA InitInv == Init => IInv
<1> SUFFICES ASSUME Init PROVE IInv
    OBVIOUS
<1>1. TypeOK
    <2>1. tenant \in [Tenant -> [slug : Slug \cup {None}, status : Status]]
        BY CredentialsAssumption DEF Init, Status
    <2>2. key \in [Key -> [tenant : Tenant \cup {None}, owner : User \cup {None},
                           state : {"none", "live", "expired", "revoked"}]]
        BY CredentialsAssumption DEF Init
    <2>3. cache \in [Slug -> Entry]
        BY DEF Init, Entry, Miss, Status
    <2>4. \A t, v \in Tenant :
            t # v /\ tenant[t].slug = tenant[v].slug =>
              {tenant[t].status, tenant[v].status} \cap {"none", "deleted"} # {}
        <3> SUFFICES ASSUME NEW t \in Tenant, NEW v \in Tenant, t # v,
                            tenant[t].slug = tenant[v].slug
                     PROVE  tenant[t].status = "none"
            OBVIOUS
        <3>1. FirstSlug[t] = FirstSlug[v]
            BY DEF Init
        <3>2. FirstSlug[t] = None
            BY <3>1, CredentialsAssumption
        <3> QED
            BY <3>2 DEF Init
    <2>5. \A k \in Key : key[k].state # "none" => key[k].tenant = TenantOf[key[k].owner]
        BY DEF Init
    <2> QED
        BY <2>1, <2>2, <2>3, <2>4, <2>5, NoRequestTyped, CredentialsAssumption DEF TypeOK, Init
<1>2. KeyRows
    BY DEF Init, KeyRows
<1>3. ReqInv
    BY NoRequestTyped DEF Init, ReqInv, Sound, Presented, Tied, Witnessed, At, Bound, Passed,
       Revoking
<1>4. OneClaim
    BY NoRequestTyped DEF Init, OneClaim, Claims, At
<1> QED
    BY <1>1, <1>2, <1>3, <1>4 DEF IInv

LEMMA RequestStep ==
    ASSUME IInv, NEW p \in Proc,
           Step(p) \/ \E c \in Credential, s \in Hint \cup {None} : Arrive(p, c, s)
    PROVE  IInv'
<1> USE DEF IInv
<1>1. Sound(p)
    BY DEF ReqInv
\* The others' rows of api_keys.
<1>2. ASSUME TypeOK', KeyRows', Sound(p)', Alone(p), tenant' = tenant, user' = user,
             \A k \in Key : key[k].state # "none" =>
               /\ key'[k].owner = key[k].owner /\ key'[k].tenant = key[k].tenant
               /\ key'[k].state = "live" => key[k].state = "live"
      PROVE  ReqInv'
    <2> SUFFICES ASSUME NEW q \in Proc \ {p} PROVE Sound(q)'
        BY <1>2 DEF ReqInv
    <2>1. Sound(q) /\ req'[q] = req[q]
        BY <1>2 DEF ReqInv, Alone
    <2>2. Frame(q)
        BY <1>2, <2>1, KeysFrame
    <2> QED
        BY <2>1, <2>2, FrameKeeps
<1>3. ASSUME TypeOK', Sound(p)', UNCHANGED Tables, Alone(p), trail' = trail,
             req'[p].pc # "record"
      PROVE  IInv'
    <2>1. KeyRows' /\ ReqInv'
        BY <1>2, <1>3 DEF Tables, KeyRows
    <2>2. OneClaim'
        BY <1>3, NoNewClaim DEF Alone, Tables
    <2> QED
        BY <1>3, <2>1, <2>2
<1>4. CASE GetTenantBySlug(p) \/ FindBySlug(p) \/ SetTenantBySlug(p)
    <2>1. /\ trail' = trail /\ req[p].found \in Entry /\ Miss \in Entry
          /\ \A s \in Slug : cache[s] \in Entry
        BY <1>4 DEF GetTenantBySlug, FindBySlug, SetTenantBySlug, TypeOK, Request, Miss, Entry,
           Status
    <2>2. req'[p].pc # "record"
        <3>1. req[p].slug \in Slug
            BY <1>1, <1>4 DEF GetTenantBySlug, FindBySlug, SetTenantBySlug, Sound, Presented, At
        <3>2. \A e \in Entry : Resolved(p, e) => req'[p].pc # "record"
            BY ResolvedFields, NoRequestTyped
        <3>3. (Answer(p) \/ Goto(p, "find")) => req'[p].pc # "record"
            BY AnswerFields, GotoFields, NoRequestTyped
        <3>4. CASE GetTenantBySlug(p)
            BY <2>1, <3>1, <3>2, <3>3, <3>4 DEF GetTenantBySlug
        <3>5. CASE FindBySlug(p)
            <4>1. ASSUME NEW t, req' = [req EXCEPT ![p].pc = "store",
                          ![p].found = [id |-> t, status |-> tenant[t].status]]
                  PROVE  req'[p].pc # "record"
                BY <4>1 DEF TypeOK, Request
            <4> QED
                BY <2>1, <3>2, <3>3, <3>5, <4>1 DEF FindBySlug
        <3>6. CASE SetTenantBySlug(p)
            BY <2>1, <3>2, <3>6 DEF SetTenantBySlug
        <3> QED
            BY <1>4, <3>4, <3>5, <3>6
    <2> QED
        BY <1>1, <1>3, <1>4, <2>1, <2>2, ResolverSound
<1>5. CASE \/ FindByHash(p) \/ ValidateKeyTenant(p) \/ ValidateKeyOwner(p)
           \/ ParseAccessToken(p) \/ ValidateCredentialState(p)
    <2>1. trail' = trail /\ (~IsKey(req[p].cred) \/ Home(req[p].cred) \in Tenant)
        BY <1>1, <1>5, KnownFacts DEF FindByHash, ValidateKeyTenant, ValidateKeyOwner,
           ParseAccessToken, ValidateCredentialState, Sound, Presented, At
    <2>2. Home(req[p].cred) \in Tenant
        BY <1>1, <1>5, KnownFacts DEF FindByHash, ValidateKeyTenant, ValidateKeyOwner,
           ParseAccessToken, ValidateCredentialState, Sound, Presented, At
    <2>3. \A l \in {"tenant", "owner", "gate"} : Goto(p, l) => req'[p].pc # "record"
        BY GotoFields
    <2>4. \A l \in {"gate", "session"} :
            OverrideFromCredential(p, Home(req[p].cred), l) => req'[p].pc # "record"
        BY <2>2, OverrideFields, NoRequestTyped
    <2>5. Answer(p) => req'[p].pc # "record"
        BY AnswerFields, NoRequestTyped
    <2>6. req'[p].pc # "record"
        BY <1>5, <2>3, <2>4, <2>5 DEF FindByHash, ValidateKeyTenant, ValidateKeyOwner,
           ParseAccessToken, ValidateCredentialState
    <2> QED
        BY <1>1, <1>3, <1>5, <2>1, <2>6, CheckSound
<1>6. CASE RequirePermission(p)
    <2>1. req'[p].pc # "record" /\ trail' = trail
        BY <1>6, GotoFields, AnswerFields, NoRequestTyped DEF RequirePermission
    <2> QED
        BY <1>1, <1>3, <1>6, <2>1, GateSound
<1>7. CASE Call(p) \/ Fail(p)
    <2>1. req'[p].pc # "record" /\ trail' = trail
        BY <1>7, AnswerFields, NoRequestTyped DEF Call, Fail
    <2> QED
        BY <1>3, <1>7, <2>1, AnswerSound
<1>8. ASSUME NEW k \in Key, Create(p, k)
      PROVE  IInv'
    <2>1. TypeOK' /\ KeyRows' /\ Sound(p)' /\ Alone(p)
        BY <1>1, <1>8, CreateSound
    <2>2. \A j \in Key : key[j].state # "none" => key'[j] = key[j]
        BY <1>8 DEF Create, TypeOK
    <2>3. ReqInv'
        BY <1>2, <1>8, <2>1, <2>2 DEF Create
    <2>4. req'[p].pc # "record" /\ trail' = trail
        BY <1>8, AnswerFields, NoRequestTyped DEF Create
    <2>5. OneClaim'
        BY <2>1, <2>2, <2>4, NoNewClaim DEF Alone
    <2> QED
        BY <2>1, <2>3, <2>5
<1>9. ASSUME NEW k \in Key, FindByID(p, k)
      PROVE  IInv'
    <2>1. req'[p].pc # "record" /\ trail' = trail
        BY <1>9 DEF FindByID, TypeOK, Request
    <2> QED
        BY <1>3, <1>9, <2>1, FindByIDSound
<1>10. CASE Revoke(p)
    <2>1. TypeOK' /\ KeyRows' /\ Sound(p)' /\ Alone(p)
        BY <1>1, <1>10, RevokeSound
    <2>2. \A j \in Key : /\ key'[j].owner = key[j].owner /\ key'[j].tenant = key[j].tenant
                         /\ key'[j].state = "live" => key[j].state = "live"
        BY <1>10 DEF Revoke, TypeOK
    <2>3. ReqInv'
        BY <1>2, <1>10, <2>1, <2>2 DEF Revoke
    <2> QED
        BY <1>1, <1>10, <2>1, <2>3, RevokeClaims
<1>11. CASE Record(p)
    <2>1. TypeOK' /\ Sound(p)' /\ UNCHANGED Tables /\ Alone(p)
        BY <1>1, <1>11, RecordSound
    <2> QED
        BY <1>1, <1>2, <1>11, <2>1, RecordClaims DEF Tables, KeyRows
<1>12. ASSUME NEW c \in Credential, NEW s \in Hint \cup {None}, Arrive(p, c, s)
       PROVE  IInv'
    <2>1. req'[p].pc # "record" /\ trail' = trail
        BY <1>12 DEF Arrive, TypeOK, NoRequest
    <2> QED
        BY <1>3, <1>12, <2>1, ArriveSound
<1> QED
    BY <1>4, <1>5, <1>6, <1>7, <1>8, <1>9, <1>10, <1>11, <1>12 DEF Step

LEMMA StepInv ==
    ASSUME IInv, [Next]_vars
    PROVE  IInv'
<1> USE DEF IInv
<1>1. ASSUME NEW s \in Slug, EntryExpires(s)
      PROVE  IInv'
    <2>1. TypeOK' /\ KeyRows'
        BY <1>1 DEF EntryExpires, TypeOK, Miss, Entry, Status, KeyRows
    <2>2. ReqInv'
        BY <1>1 DEF EntryExpires, ReqInv, Sound, Presented, Tied, Witnessed, At, Bound, Passed,
           Revoking, Known, OwnerOf, IsKey, Home, Standing, Needed
    <2>3. OneClaim'
        BY <1>1, NoNewClaim DEF EntryExpires
    <2> QED
        BY <2>1, <2>2, <2>3
<1>2. CASE Operator
    <2>1. TypeOK' /\ KeyRows'
        BY <1>2, OperatorTyped
    <2>2. \A q \in Proc : Frame(q)
        BY <1>2, OperatorFrame DEF ReqInv
    <2>3. ReqInv'
        BY <2>2, FrameKeeps DEF ReqInv
    <2>4. trail' = trail /\ \A k \in Key : key[k].state = "revoked" => key'[k].state = "revoked"
        BY <1>2 DEF Operator, RegisterTenant, Rename, SetStatus, SwitchUser, KeyExpires, TypeOK
    <2>5. OneClaim'
        BY <2>2, <2>4, NoNewClaim DEF Frame
    <2> QED
        BY <2>1, <2>3, <2>5
<1>3. CASE UNCHANGED vars
    <2>1. TypeOK' /\ KeyRows' /\ OneClaim'
        BY <1>3, NoNewClaim DEF vars, TypeOK, KeyRows
    <2>2. ReqInv'
        BY <1>3 DEF vars, ReqInv, Sound, Presented, Tied, Witnessed, At, Bound, Passed,
           Revoking, Known, OwnerOf, IsKey, Home, Standing, Needed
    <2> QED
        BY <2>1, <2>2
<1> QED
    BY <1>1, <1>2, <1>3, RequestStep DEF Next

\* What the middleware chain has found of a request stays found, while the
\* operator renames, suspends and disables, and keys expire and are revoked.
THEOREM Invariance == Spec => []IInv
<1>1. Init => IInv
    BY InitInv
<1>2. IInv /\ [Next]_vars => IInv'
    BY StepInv
<1> QED
    BY <1>1, <1>2, PTL DEF Spec

\* Every variable of the credential checks stays in its type; in particular no
\* two live tenants have one slug, and a key is of its owner's tenant.
THEOREM TypeCorrect == Spec => []TypeOK
<1>1. IInv => TypeOK
    BY DEF IInv
<1> QED
    BY <1>1, Invariance, PTL

\* A request that reaches a handler presented a credential each part of which
\* was in good standing at a moment of that request (FindByHash and the two
\* ValidateCredentialState).
THEOREM ServedWhenGood == Spec => []ServedInGoodStanding
<1>1. IInv => ServedInGoodStanding
    BY DEF IInv, ReqInv, Sound, Witnessed, Passed, ServedInGoodStanding, Served
<1> QED
    BY <1>1, Invariance, PTL

\* A request that reaches a handler acts in the tenant of its credential
\* (OverrideFromCredential), whatever the resolver's cache says of the slug.
THEOREM ServedAtHome == Spec => []ServedInOwnTenant
<1>1. IInv => ServedInOwnTenant
    BY DEF IInv, ReqInv, Sound, Tied, Bound, ServedInOwnTenant, Served
<1> QED
    BY <1>1, Invariance, PTL

\* However many requests revoke a key at once, one of them does, and at most one
\* record of it is written (Revoke: the update asks for revoked_at IS NULL).
THEOREM RevocationIsOne == Spec => []RevokedOnce
<1>1. ASSUME IInv
      PROVE  RevokedOnce
    <2> SUFFICES ASSUME NEW k \in Key
                 PROVE  /\ Cardinality(Claims(k)) <= 1
                        /\ Claims(k) # {} => key[k].state = "revoked"
        BY DEF RevokedOnce, Claims
    <2>1. (\A p, q \in Claims(k) : p = q) /\ (Claims(k) # {} => key[k].state = "revoked")
        BY <1>1 DEF IInv, OneClaim
    <2>2. CASE Claims(k) = {}
        BY <2>1, <2>2, FS_EmptySet
    <2>3. CASE Claims(k) # {}
        <3>1. PICK p : Claims(k) = {p}
            BY <2>1, <2>3
        <3> QED
            BY <2>1, <3>1, FS_Singleton
    <2> QED
        BY <2>2, <2>3
<1> QED
    BY <1>1, Invariance, PTL
=============================================================================
