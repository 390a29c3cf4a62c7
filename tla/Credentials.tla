----------------------------- MODULE Credentials -----------------------------
(***************************************************************************)
(* What a request passes before a handler of the protected routes runs:    *)
(* the tenant resolver of internal/tenancy with its cache, the API keys of *)
(* internal/apikeys or the access token of internal/identity, and the gate *)
(* of internal/authz; and the life of the API keys themselves.             *)
(*                                                                         *)
(* Every check is a transaction of its own, and the resolver believes a    *)
(* cache that no change of a tenant invalidates.                           *)
(***************************************************************************)
EXTENDS Naturals, FiniteSets

CONSTANTS
    Proc,       \* requests that may run at the same time
    Tenant, Slug, User, Key,
    TenantOf,   \* [User -> Tenant]
    FirstSlug,  \* [Tenant -> Slug \cup {None}]; None: not registered yet
    FirstOwner, \* [Key -> User \cup {None}]; None: not minted yet
    Hint,       \* the slugs requests name
    MaxChanges, \* bound on what the operator does
    None

ASSUME CredentialsAssumption ==
    /\ TenantOf \in [User -> Tenant]
    /\ FirstSlug \in [Tenant -> Slug \cup {None}]
    /\ \A t, u \in Tenant : t # u /\ FirstSlug[t] # None => FirstSlug[t] # FirstSlug[u]
    /\ FirstOwner \in [Key -> User \cup {None}]
    /\ Hint \subseteq Slug
    /\ MaxChanges \in Nat
    /\ None \notin Tenant \cup Slug \cup User \cup Key

VARIABLES
    tenant,   \* the tenants table: slug and status
    user,     \* users in good standing
    key,      \* the api_keys table: tenant, owner and state
    cache,    \* [Slug -> what GetTenantBySlug finds: a tenant and its status]
    trail,    \* the audit records of revocations: a key and who made them
    changes,  \* what the operator did so far
    req       \* the requests in progress

vars == <<tenant, user, key, cache, trail, changes, req>>

\* What the middleware chain knows of a request. "stood" is history: the parts
\* of the credential that were in good standing at a moment of the request.
Part == {"key", "tenant", "user"}
Miss == [id |-> None, status |-> "none"]
Status == {"none", "active", "suspended", "pending_deletion", "deleted"}
Entry == [id : Tenant \cup {None}, status : Status \ {"deleted"}]
Credential == Key \cup User

Request == [pc : {"idle", "resolve", "find", "store", "authenticate", "tenant",
                  "owner", "session", "gate", "call", "mint", "withdraw", "revoke",
                  "record"},
            slug : Slug \cup {None},
            cred : Credential \cup {None},
            found : Entry,
            within : Tenant \cup {None},
            stood : SUBSET Part]

NoRequest == [pc |-> "idle", slug |-> None, cred |-> None, found |-> Miss,
              within |-> None, stood |-> {}]

TypeOK ==
    /\ tenant \in [Tenant -> [slug : Slug \cup {None}, status : Status]]
    /\ user \in SUBSET User
    /\ key \in [Key -> [tenant : Tenant \cup {None}, owner : User \cup {None},
                        state : {"none", "live", "expired", "revoked"}]]
    /\ cache \in [Slug -> Entry]
    /\ trail \in [Key -> SUBSET Proc]
    /\ changes \in 0..MaxChanges
    /\ req \in [Proc -> Request]
    /\ \A t, v \in Tenant :
         t # v /\ tenant[t].slug = tenant[v].slug =>
           {tenant[t].status, tenant[v].status} \cap {"none", "deleted"} # {}
    /\ \A k \in Key : key[k].state # "none" => key[k].tenant = TenantOf[key[k].owner]

-----------------------------------------------------------------------------
\* Helpers

At(p, l) == req[p].pc = l
Goto(p, l) == req' = [req EXCEPT ![p].pc = l]
Answer(p) == req' = [req EXCEPT ![p] = NoRequest]

IsKey(c) == c \in Key
OwnerOf(c, k) == IF IsKey(c) THEN k[c].owner ELSE c
Home(c) == IF IsKey(c) THEN key[c].tenant ELSE TenantOf[c]
Needed(c) == IF IsKey(c) THEN Part ELSE {"tenant", "user"}

\* The parts of credential c in good standing by these tables.
Standing(c, ts, us, ks) ==
    IF c = None THEN {} ELSE
    LET u == OwnerOf(c, ks)
    IN  {x \in Needed(c) :
           \/ x = "key" /\ ks[c].state = "live"
           \/ x = "tenant" /\ u # None /\ ts[TenantOf[u]].status = "active"
           \/ x = "user" /\ u \in us}

\* A change the operator makes, which the requests in progress live through.
Change ==
    /\ changes < MaxChanges
    /\ changes' = changes + 1
    /\ req' = [p \in Proc |-> [req[p] EXCEPT
                 !.stood = @ \cup Standing(req[p].cred, tenant', user', key)]]

Live(t) == tenant[t].status \notin {"none", "deleted"}
Free(s) == \A t \in Tenant : Live(t) => tenant[t].slug # s
Named(s) == {t \in Tenant : Live(t) /\ tenant[t].slug = s}

-----------------------------------------------------------------------------
\* The operator: src never changes a tenant after Register, nor disables a
\* user; it reads the columns that say so.

\* identity.Register takes any slug no live tenant has.
RegisterTenant(t, s) ==
    /\ tenant[t].status = "none" /\ Free(s)
    /\ tenant' = [tenant EXCEPT ![t] = [slug |-> s, status |-> "active"]]
    /\ user' = user
    /\ Change
    /\ UNCHANGED <<key, cache, trail>>

Rename(t, s) ==
    /\ Live(t) /\ Free(s)
    /\ tenant' = [tenant EXCEPT ![t].slug = s]
    /\ user' = user
    /\ Change
    /\ UNCHANGED <<key, cache, trail>>

SetStatus(t, st) ==
    /\ Live(t) /\ tenant[t].status # st
    /\ tenant' = [tenant EXCEPT ![t].status = st]
    /\ user' = user
    /\ Change
    /\ UNCHANGED <<key, cache, trail>>

SwitchUser(u) ==
    /\ user' = (user \ {u}) \cup ({u} \ user)
    /\ tenant' = tenant
    /\ Change
    /\ UNCHANGED <<key, cache, trail>>

\* expires_at passes.
KeyExpires(k) ==
    /\ key[k].state = "live"
    /\ key' = [key EXCEPT ![k].state = "expired"]
    /\ UNCHANGED <<tenant, user, cache, trail, changes, req>>

-----------------------------------------------------------------------------
\* Tenant resolution

\* A request names a tenant by X-Tenant-ID, by its host, or not at all. Only a
\* credential that was handed out can be presented.
Arrive(p, c, s) ==
    /\ At(p, "idle")
    /\ OwnerOf(c, key) # None /\ tenant[TenantOf[OwnerOf(c, key)]].status # "none"
    /\ req' = [req EXCEPT ![p] = [NoRequest EXCEPT
                 !.pc = IF s = None THEN "authenticate" ELSE "resolve",
                 !.slug = s, !.cred = c,
                 !.stood = Standing(c, tenant, user, key)]]
    /\ UNCHANGED <<tenant, user, key, cache, trail, changes>>

\* Past the resolver the slug is not looked at again.
Resolved(p, e) ==
    IF e.status = "suspended"
    THEN Answer(p)
    ELSE req' = [req EXCEPT ![p] = [@ EXCEPT !.pc = "authenticate", !.slug = None,
                   !.found = Miss, !.within = e.id]]

\* A hit; any error of Redis is a miss.
GetTenantBySlug(p) ==
    /\ At(p, "resolve")
    /\ \/ cache[req[p].slug] # Miss /\ Resolved(p, cache[req[p].slug])
       \/ Goto(p, "find")
    /\ UNCHANGED <<tenant, user, key, cache, trail, changes>>

\* Nothing found: an error to who asserts a tenant, no tenant to who is only
\* at its host name.
FindBySlug(p) ==
    /\ At(p, "find")
    /\ IF Named(req[p].slug) = {}
       THEN Answer(p) \/ Resolved(p, Miss)
       ELSE \E t \in Named(req[p].slug) :
              req' = [req EXCEPT ![p].pc = "store",
                                 ![p].found = [id |-> t, status |-> tenant[t].status]]
    /\ UNCHANGED <<tenant, user, key, cache, trail, changes>>

\* An error of Redis is dropped.
SetTenantBySlug(p) ==
    /\ At(p, "store")
    /\ cache' \in {cache, [cache EXCEPT ![req[p].slug] = req[p].found]}
    /\ Resolved(p, req[p].found)
    /\ UNCHANGED <<tenant, user, key, trail, changes>>

\* Fault: entries are set without a TTL.
EntryNeverExpires(s) == FALSE /\ UNCHANGED vars

\* The TTL runs out.
EntryExpires(s) ==
    /\ cache[s] # Miss
    /\ cache' = [cache EXCEPT ![s] = Miss]
    /\ UNCHANGED <<tenant, user, key, trail, changes, req>>

-----------------------------------------------------------------------------
\* Authentication

\* Fault: the tenant the resolver found is kept.
OverrideUnlessResolved(p, t, l) ==
    req' = [req EXCEPT ![p].pc = l, ![p].within = IF @ = None THEN t ELSE @]

\* A tenant the resolver found must be the one of the credential.
OverrideFromCredential(p, t, l) ==
    IF req[p].within \in {None, t}
    THEN req' = [req EXCEPT ![p].pc = l, ![p].within = t]
    ELSE Answer(p)

\* find_api_key_by_hash, and whether the row is still active.
FindByHash(p) ==
    /\ At(p, "authenticate") /\ IsKey(req[p].cred)
    /\ IF key[req[p].cred].state = "live" THEN Goto(p, "tenant") ELSE Answer(p)
    /\ UNCHANGED <<tenant, user, key, cache, trail, changes>>

\* ValidateCredentialState of apikeys: two statements, the tenant first.
ValidateKeyTenant(p) ==
    /\ At(p, "tenant")
    /\ IF tenant[Home(req[p].cred)].status = "active" THEN Goto(p, "owner") ELSE Answer(p)
    /\ UNCHANGED <<tenant, user, key, cache, trail, changes>>

\* last_used_at is written next; nothing depends on it, nor on its failure.
ValidateKeyOwner(p) ==
    /\ At(p, "owner")
    /\ IF key[req[p].cred].owner \in user
       THEN OverrideFromCredential(p, Home(req[p].cred), "gate")
       ELSE Answer(p)
    /\ UNCHANGED <<tenant, user, key, cache, trail, changes>>

\* The signature and the age of an access token; a request with an API key
\* passes RequireAuth as it is.
ParseAccessToken(p) ==
    /\ At(p, "authenticate") /\ ~IsKey(req[p].cred)
    /\ OverrideFromCredential(p, Home(req[p].cred), "session") \/ Answer(p)
    /\ UNCHANGED <<tenant, user, key, cache, trail, changes>>

\* Fault: only the user is looked at.
ValidateUserOnly(p) ==
    /\ At(p, "session")
    /\ IF req[p].cred \in user THEN Goto(p, "gate") ELSE Answer(p)
    /\ UNCHANGED <<tenant, user, key, cache, trail, changes>>

\* ValidateCredentialState of identity: one statement.
ValidateCredentialState(p) ==
    /\ At(p, "session")
    /\ IF req[p].cred \in user /\ tenant[Home(req[p].cred)].status = "active"
       THEN Goto(p, "gate") ELSE Answer(p)
    /\ UNCHANGED <<tenant, user, key, cache, trail, changes>>

\* Keys may not mint nor revoke. The permission itself, a scope of the key or a
\* permission of the user, belongs to PermissionCache: either answer is possible.
RequirePermission(p) ==
    /\ At(p, "gate")
    /\ \/ Goto(p, "call")
       \/ ~IsKey(req[p].cred) /\ \E l \in {"mint", "withdraw"} : Goto(p, l)
       \/ Answer(p)
    /\ UNCHANGED <<tenant, user, key, cache, trail, changes>>

-----------------------------------------------------------------------------
\* The handlers: any of the protected ones, and those of the API keys

Call(p) ==
    /\ At(p, "call")
    /\ Answer(p)
    /\ UNCHANGED <<tenant, user, key, cache, trail, changes>>

\* Create: refused for its scopes or its expiry, or inserted.
Create(p, k) ==
    /\ At(p, "mint") /\ key[k].state = "none"
    /\ key' = [key EXCEPT ![k] = [tenant |-> req[p].within, owner |-> req[p].cred,
                                  state |-> "live"]]
    /\ Answer(p)
    /\ UNCHANGED <<tenant, user, cache, trail, changes>>

\* Revoke finds the key, by an id within the tenant only ...
FindByID(p, k) ==
    /\ At(p, "withdraw")
    /\ key[k].state # "none" /\ key[k].tenant = req[p].within
    /\ req' = [req EXCEPT ![p].pc = "revoke", ![p].cred = k, ![p].stood = {}]
    /\ UNCHANGED <<tenant, user, key, cache, trail, changes>>

\* Fault: the update does not ask for revoked_at IS NULL.
RevokeAgain(p) ==
    /\ At(p, "revoke")
    /\ key' = [key EXCEPT ![req[p].cred].state = "revoked"]
    /\ Goto(p, "record")
    /\ UNCHANGED <<tenant, user, cache, trail, changes>>

\* ... and revokes it unless another request did.
Revoke(p) ==
    /\ At(p, "revoke")
    /\ IF key[req[p].cred].state = "revoked"
       THEN Answer(p) /\ key' = key
       ELSE /\ key' = [key EXCEPT ![req[p].cred].state = "revoked"]
            /\ Goto(p, "record")
    /\ UNCHANGED <<tenant, user, cache, trail, changes>>

\* The audit record may fail; the revocation stands.
Record(p) ==
    /\ At(p, "record")
    /\ trail' \in {trail, [trail EXCEPT ![req[p].cred] = @ \cup {p}]}
    /\ Answer(p)
    /\ UNCHANGED <<tenant, user, key, cache, changes>>

\* A request may fail at any step: a transaction, a refused scope, the client.
Fail(p) ==
    /\ ~At(p, "idle")
    /\ Answer(p)
    /\ UNCHANGED <<tenant, user, key, cache, trail, changes>>

-----------------------------------------------------------------------------
\* The system

Init ==
    /\ tenant = [t \in Tenant |->
                   [slug |-> FirstSlug[t],
                    status |-> IF FirstSlug[t] = None THEN "none" ELSE "active"]]
    /\ user = User
    /\ key = [k \in Key |->
                IF FirstOwner[k] = None
                THEN [tenant |-> None, owner |-> None, state |-> "none"]
                ELSE [tenant |-> TenantOf[FirstOwner[k]], owner |-> FirstOwner[k],
                      state |-> "live"]]
    /\ cache = [s \in Slug |-> Miss]
    /\ trail = [k \in Key |-> {}]
    /\ changes = 0
    /\ req = [p \in Proc |-> NoRequest]

Step(p) ==
    \/ GetTenantBySlug(p) \/ FindBySlug(p) \/ SetTenantBySlug(p)
    \/ FindByHash(p) \/ ValidateKeyTenant(p) \/ ValidateKeyOwner(p)
    \/ ParseAccessToken(p) \/ ValidateCredentialState(p) \/ RequirePermission(p)
    \/ Call(p) \/ \E k \in Key : Create(p, k) \/ FindByID(p, k)
    \/ Revoke(p) \/ Record(p) \/ Fail(p)

Operator ==
    \/ \E t \in Tenant, s \in Slug : RegisterTenant(t, s) \/ Rename(t, s)
    \/ \E t \in Tenant, st \in Status \ {"none"} : SetStatus(t, st)
    \/ \E u \in User : SwitchUser(u)
    \/ \E k \in Key : KeyExpires(k)

Next ==
    \/ \E p \in Proc :
         \/ \E c \in Credential, s \in Hint \cup {None} : Arrive(p, c, s)
         \/ Step(p)
    \/ \E s \in Slug : EntryExpires(s)
    \/ Operator

Spec == Init /\ [][Next]_vars

\* Redis drops what has lived for its TTL.
FairSpec == Spec /\ \A s \in Slug : WF_vars(EntryExpires(s))

-----------------------------------------------------------------------------
\* Properties

Served(p) == req[p].pc \in {"call", "mint", "withdraw"}

\* Whatever is revoked, suspended or disabled while the checks go one by one,
\* a request that reaches a handler presented a credential each part of which
\* was good at a moment of that request: none is served that began after its
\* key was revoked, its owner disabled or its organization suspended.
ServedInGoodStanding ==
    \A p \in Proc : Served(p) => Needed(req[p].cred) \subseteq req[p].stood

\* A request that reaches a handler acts in the tenant of its credential,
\* whatever the slug it named meant before, means now, or means to the cache.
ServedInOwnTenant ==
    \A p \in Proc : Served(p) => req[p].within = Home(req[p].cred)

\* Of the requests that revoke one key at the same time, one does: the others
\* are told of the conflict, and one revocation never leaves two records.
RevokedOnce ==
    \A k \in Key :
      LET claims == trail[k] \cup {p \in Proc : At(p, "record") /\ req[p].cred = k}
      IN  /\ Cardinality(claims) <= 1
          /\ claims # {} => key[k].state = "revoked"

\* What the cache says of a slug.
Outdated(s) ==
    /\ cache[s] # Miss
    /\ \/ Named(s) # {cache[s].id}
       \/ tenant[cache[s].id].status # cache[s].status

\* Once the tenants change no more, the resolver comes to say what the table
\* says and goes on to: an entry that outlives a rename, a suspension or a
\* deletion goes, and so does one that a request writes late, from what it read
\* before the change.
OutdatedEntriesGo == \A s \in Slug : <>[]~Outdated(s)
=============================================================================
