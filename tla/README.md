# TLA+ specifications of the SaaS backend

The program is a multi-tenant HTTP backend in Go. Its state is in Postgres; a
process holds little more than caches and subscriptions, so what is hard about
it is what overlapping requests do to shared rows. Requests run as several short
transactions, at READ COMMITTED, and between two of them anything may happen.
The modules here model those transactions statement by statement where row locks
matter, and as whole transactions where they do not.

## 1. Inventory

| Component | State | Operations | Hard part | What makes it correct |
|---|---|---|---|---|
| Sessions (`identity`, `preferences` password change) | `users`, `refresh_tokens`, `verification_tokens`, `tenants.status` | login, OAuth login, refresh, logout, password reset, e-mail verification, password change | row locks, snapshots of an UPDATE, rows read before bcrypt and written after it | a session has one usable token; what ends sessions ends them all; a verification token is spent once |
| Roles (`authz` mutations) | `roles`, `role_permissions`, `user_roles` | create, edit (with or without `If-Match`), delete, assign, revoke | authority checked in a transaction that others overlap | no escalation, an Owner remains, no lost edit |
| Permission checks (`authz`, `platform/cache`) | Redis entries with a TTL | read-through, invalidation after each mutation | stale fills, lost invalidations | revocation takes effect, and is late only for known reasons |
| Invitations and billing | `invitations`, `users`, `subscriptions`, `tenants.plan_code` | invite, revoke, accept, change plan, cancel | quota checked in one transaction and used in another | an invitation is resolved once; seats follow the plan |
| Sign-up (`identity`, `invitations` acceptance) | `tenants`, `users`, `user_roles`, `oauth_accounts` | register, OAuth callback, accept | user, role and link in three transactions; two callbacks at once | nobody without a role or a way to sign in; a retry succeeds; one identity, one account |
| Files | object store, `files` | upload, list, open, delete | two stores without a common transaction; storage quota | an acknowledged file stays until its deletion is asked for; nothing is left behind |
| Projects, teams | `projects`, `teams` and members | create, update, soft deletion, membership | rows read in one transaction and saved in another; project quota | deletions are final, references stay in the tenant, overage is bounded |
| Realtime, notifications | subscriber sets and 32-slot channels, Redis Pub/Sub, `notifications` | publish, subscribe, unsubscribe, stream; notify, read | drop on overflow, unsubscription from three places | each event at most once; a connected client learns in the end of every notification |
| API keys, tenant resolution | `api_keys`, cached tenants | authenticate, mint, revoke; resolve, override | the tenant cache is never invalidated; checks in several transactions | a suspended tenant or revoked key is refused, and nobody acts in another tenant |
| Rate limiter | visitors and their buckets | allow, evict | eviction against the rate | the rate holds per IP |
| Server lifecycle, keep-alive, pool, gauges | goroutines, listener, connections, counters | start, serve, drain, close | order of shutdown, streams that never end, panics, the bounded pool | a signal ends the process and severs nobody early; who waits for a connection gets one |
| Audit, mailer, health, admin, configuration, dashboard | append-only rows, none | best-effort or read-only | none that changes a decision | not modelled, but for the record of a revoked key |

How they interact: a request passes tenant resolution, the rate limiter and the
credential check (session or API key), then a permission check, then a handler;
handlers share the database only. Role mutations call the cache to invalidate;
invitations call billing for the quota and `accept_invitation`, a function in
the database, for the grant; services publish notifications to the broker, send
mails and append to the audit trail after their commit, and ignore failures of
all three.

`PROJECT.json` lists each component with its sources, and each hazard at its
line with the properties that cover it.

## 2. Plan

| Modules | Runs | Proofs |
|---|---|---|
| `SessionBook`, `Sessions` | done | done, `SessionsProofs` |
| `Roles` | done | done, `RolesProofs` |
| `PermissionCache` | done | done, `PlatformProofs` |
| `Seats` | done | done, `SeatsProofs` |
| `Shelf`, `Files` | done | done, `FilesProofs` |
| `Workspace` | done | done, `WorkspaceProofs` |
| `Credentials` | done | done, `CredentialsProofs` |
| `SignUp` | done | done, `SignUpProofs` |
| `Realtime` | done | done, `PlatformProofs` |
| `Server` | done | done, `PlatformProofs` |

The modules have no RECURSIVE operators, and constants with named assumptions,
which is what the proofs are about (section 7). How they compose: each module takes what another one owns as either answer (`Files` the
existence of a project, `Credentials` the permission, `SignUp` the invitation),
so what holds in it holds whatever the other does.

## 3. Modules

### Sessions and SessionBook

`Sessions` has one account and its organization. A request (`Proc`) is a record
`req[p]` with the operation, the statement it is at (`pc`) and what it has read.
Every statement and every commit that others can see or wait for is a step.

| Code | Module |
|---|---|
| `Login`: lookup and bcrypt, tenant lookup, `repo.Update`, `issueTokenPair` | `Login`, `LoginTenant`, `LoginSave` (or `LoginSaveFails`), `IssueTokenPair` |
| `OAuthCallback` of an account that is linked | `OAuthLogin`, `IssueTokenPair` |
| `Refresh`, `RotateRefreshToken` | `Refresh`, `ActiveCredentialUserTx`, `LockRefreshToken`, then one of `RotateRefreshToken`, `RotateExpired`, `RotateReused` with `RevokeCommit` |
| `Logout` | `Logout`, `RevokeStart`, `RevokeCommit` |
| `ChangePassword` | `ChangePassword`, `UpdatePassword`, `RevokeStart`, `RevokeCommit` |
| `ResetPassword`, `VerifyEmail` | their starts, `ActiveCredentialUserTx`, `ClaimRefused` or `ClaimVerificationTokenTx`, `ConsumePasswordReset` / `ConsumeEmailVerification` |
| `RequestPasswordReset`, `RequestEmailVerification` | their starts and `CreateVerificationToken` |
| operators, clocks, failures | `OperatorSetStatus`, `OperatorSetTenant`, `OperatorMint`, `Expire...`, `Abort` |

Two facts of Postgres carry the module. `SELECT ... FOR UPDATE` on the account
row excludes updates of it and also inserts of refresh tokens, whose foreign key
needs `FOR KEY SHARE` on it. An `UPDATE ... WHERE revoked_at IS NULL` picks its
rows from the snapshot of its start: rows committed while it waits are not seen.
`userLock`, `tokenLock` and `req[p].rows` are these two facts.

`SessionBook` is what the code promises: sessions open, exchange their usable
token, end, and are never resurrected. `Sessions!Book` maps the stored tokens
and the live token of each family to it, and `ImplementsSessionBook` is its
specification.

Abstractions: a multi-row UPDATE takes its row locks at one step (the deadlock
of two multi-row revocations, which Postgres breaks by aborting one, is the
`Abort` of a request); deletion of an account is the status "deleted"; bcrypt,
hashing and signing of tokens are left out; access tokens are not state;
`OperatorMint` puts the verification tokens into the table that the code fails
to put there (section 6); registration, OAuth sign-up and linking are in `SignUp`.
A family id is a fresh UUID and is represented by the family's first
token.

### Roles

One transaction per mutation, with its locks in the order of the code: the
actor's row and roles (`ActorAccessTx`), the role (`RoleForUpdateTx`), the user
(`UserExistsTx`), then `CommitCreate`, `CommitUpdate`, `CommitDelete`,
`CommitAssign` or `CommitRevoke`. What each statement read is kept in `req[p]`
and the checks use that, not the current tables. `GetRolePermissions` and
`ReadCodes` are the two reads behind the form whose revision
`UpdateIfUnchanged` sends back as `If-Match`; `fresh` stands for the comparison
of `updated_at`. `AcceptInvitation` is the grant that needs no authority.

Abstractions: two of the five seeded roles (owner and admin: the others are
lower-ranked system roles with less); all custom roles have rank 100, as in the
code; the editing form is modelled for the roles in `Edited`; ids of custom
roles run out (`Custom`), after which `CommitCreate` waits, or aborts.

### PermissionCache

The read-through cache around `UserPermissions`, one step for each call of Redis
and each query, and mutations as a commit between the read of the holders and
the invalidations. `excused` is a ghost: the users whose entry may be stale for
a reason the module names. `Faults` lets Redis, `UserIDsWithRole` and the
process fail. Redis is external: an entry with a TTL may expire at any moment.
One check in flight shows every order of one fill with the mutations; a second
would add fills of the same kinds, which the entry, a single value, forgets.
The slot of a deleted role serves for a later one, which nobody holds at first.

### Seats

Invitations, members, the subscription and the copy of the plan in `tenants`.
Each read of a request is a transaction of its own, so a request keeps the plan
and the count it has read. `Invite`, `CheckSeatQuota`, `InsertInvitation` or
`InvitationConflict` are `invitations.Create`; `Accept`, `SelectInvitation` and
`ClaimInvitation` are `Accept` and the body of `accept_invitation`; `ChangePlan`
and `Cancel` go through `UpsertFind` and `UpsertSubscription`. `SignUp` is the
OAuth provisioning, which looks at no quota.

Abstractions: an account is live or not (`CountUsage` does not count disabled
ones, and an operator disabling one is left out); the password of a new account
is in `SignUp`; mails and previews are left out;
`Cancel` writes back the plan it read, as the code does, and no property speaks
of it because no text of the repository does.

### Workspace

Teams and projects of several tenants. `FindByID`, a check and the write are
transactions of their own, so `req[p].new` is the row an update will save, as it
was read with the fields of the patch put in (`Edited`, `Patched`). The saves
are `UPDATE ... WHERE deleted_at IS NULL`, the unique indexes are `UniqueSlugs`,
the foreign keys know no tenants: that a team or a user belongs to the tenant is
only what `TeamExists`, `TeamUserBelongs` and `ProjectUserBelongs` have read.

| Code | Module |
|---|---|
| `teams.Create`, `projects.Create` | `CreateTeam`; `CreateProject`, `TeamExists`, `CountLive`, `InsertProject` |
| `Update` of both | `UpdateTeam` / `UpdateProject`, `SaveTeam` / `SaveProject` |
| `Delete` of both | `DeleteTeam` / `DeleteProject`, `SoftDeleteTeam` / `SoftDeleteProject` |
| `AddMember`, `RemoveMember` of both | `Add...Member`, `...UserBelongs`, `Insert...Member`; `Remove...Member`, `Drop...Member` |

Abstractions: name, description and status are one column (`Text`); the plan is
fixed; users do not leave their tenant; the notice to a new member is `Realtime`'s.

### Shelf and Files

`Shelf` is the promise for each file: put on the shelf once, kept once it is
acknowledged, taken off only when its deletion was asked for or its upload was
never acknowledged, and not seen again. `Files` has the two stores, `object` and
`row`, and the requests between them; `Kept` maps a file that is listed and
whose content is there to "kept". Each call of a store may fail before or after
it has had its effect, and a request may stop between any two (`Stop`).
`PutTemporary` and `Rename` are the local store, `PutObject` the S3 one.

Abstractions: an id never comes twice; what a failed `Put` leaves under a
temporary name is not content; sizes are small numbers, and `Exceeds` keeps the
order of the subtraction in the code; listing, file types and hashes are left out.

### Realtime

A notification is stored (`Notify`, `NotifyMany`), then published: under the
broker's lock to every channel of its user (`PublishLocal`), or to Redis
(`PublishRedis`), from which each stream's goroutine moves it to the channel
(`Forward`). A channel that is full drops (`Offer`). A stream subscribes, writes
"ready", writes events, ends, and unsubscribes once. `Restart` is the process of
the streams, `PublisherStops` one of another instance. `missed` is a ghost: what
Redis has not carried to a stream. The client is external; it refetches at
"ready" and at each event, as `Stream`'s comment and `app.js` have it.

Abstractions: heartbeats are left out, WriteTimeout is a `Leave`; a user stands
for a user within a tenant; message contents are ids.

### Credentials

The chain in front of a protected handler, one step per transaction or call of
Redis: `GetTenantBySlug`, `FindBySlug`, `SetTenantBySlug`; for a key
`FindByHash`, `ValidateKeyTenant`, `ValidateKeyOwner`, for a token
`ParseAccessToken`, `ValidateCredentialState`; `OverrideFromCredential` within
them; `RequirePermission`; then `Call`, or minting (`Create`) or revoking
(`FindByID`, `Revoke`, `Record`) a key. The operator registers, renames,
suspends and deletes tenants and switches users off and on. `req[p].stood` is
history: the parts of the credential that were good at some moment of the
request. `ServedInGoodStanding` is as strong as separate checks allow: the parts
need not have been good at the same moment.

Abstractions: scopes, expiry dates and hashes are left out; a permission may be
granted or not; `last_used_at` is left out; the changes of the operator are bounded.

### SignUp

One person: one e-mail address, the same in every organization, and identities
at the provider. `Register` is one transaction. `OAuthCallback` goes through
`FindOAuthAccount`, `FindByEmailInTenant`, `Create`, `AssignSystemRole`,
`CreateOAuthAccount`, `ValidateCredentialState`, `IssueTokenPair`, each of its
own transaction; the two lookups take any error for "none". `Accept` reads
whether the user exists, then `AcceptInvitation` is the database function. `cut`
is history: accounts whose sign-up stopped before the role or before the link.

Abstractions: account ids are used in order; the provider's answer, the state
cookie, and passwords themselves are left out; tokens are `signedIn`.

### Server

`main`: migrations, serving, and at a signal the keep-alive is told to stop,
`Shutdown` drains, `Close` ends what is left after SHUTDOWN_TIMEOUT, the pool is
closed, the process exits. A connection is idle, in a handler (`run`), waiting
for a transaction, in one, or a stream. `migrator` is the connection the
migrations keep when they use the server's credential (`postgres.WithInstance`
takes one, and nothing gives it back). `Recovery` is a panic anywhere in a
handler: the middleware that counts requests is inside of it and is skipped,
what is deferred (the rollback, the gauge of streams) is done. `forced` and
`hurt` are history.

Abstractions: a request's own work between its transactions belongs to the other
modules; a ping of the keep-alive takes no connection for longer than a step; a
signal that arrives after the listener has begun and before `signal.Notify` is
treated as one during start-up; detached mail goroutines, which the exit of the
process ends, are not state.

### MC modules

Each extends its specification with the values TLC needs (owners, sizes, the
limits of the plans) and the symmetry it may use. `sessions_live`,
`permission_cache`, `files`, `realtime`, `credentials`, `signup` and `server`
use no symmetry: they check liveness.

## 4. Runs

| Run | What it shows | Bounds |
|---|---|---|
| `sessions` | `TypeOK`; `FamilyLinear`: no family forks; `LockProtects`: what is checked under the account lock holds until the commit; `LockedEndIsTotal`: a reset or a detected reuse leaves nothing live; `ClaimOnce`; `RotationNeedsActiveAccount`; `ImplementsSessionBook` | two requests of any kind, three token rows, one reset token, two passwords |
| `sessions_live` | `EveryRequestAnswered`: no circle of locks, no path keeps one | two requests, two token rows, one token of each purpose |
| `sessions_logout` | a disagreement, section 6 | as `sessions` |
| `roles` | `TypeOK`, `OrgManageExclusive`, `OwnerRemains`, `NoEscalation`, `RankRespected`, `NoLostEdit` | two mutations, two users, one custom role, two permissions, forms and invitations for admin |
| `permission_cache` | `StaleOnlyByKnownCause`; `RevocationTakesEffect`, liveness, with Redis failing at will | one check, two mutations, two users, one role, one permission |
| `seats` | `PlanCodeInStep`, `ResolvedOnce`, `ExactWhenNotOvertaken` | two requests, three people, two invitations, plans of two and three seats |
| `workspace` | `OverageBounded`; `ReferencesStayInTenant`; `DeletionIsFinal` | two requests, two tenants with a team each, two projects, a user, two slugs, a plan of one project |
| `files` | `ImplementsShelf`; `NothingLeftBehind`; `OverageBounded`; `DeletionFinishes`, liveness | two requests, three files of one and two units, a plan of two |
| `realtime` | `AtMostOnce`; `ClientsCatchUp`, liveness | two notifications, two streams of two users, channels of one event, either transport |
| `credentials` | `ServedInGoodStanding`; `ServedInOwnTenant`; `RevokedOnce`; `OutdatedEntriesGo`, liveness | two requests, two tenants and slugs, a user each, one key, two changes by the operator |
| `signup` | `RolelessOnlyWhenCut`; `ReachableUnlessCut`; `SameAccountEachTime`; `RetriesSignIn`, liveness | two requests, two organizations, three accounts, one identity, a failure and an ended account |
| `server` | `CutOnlyWhenForced`; `GaugesDriftByPanics`; `SignalEnds` and `TransactionsRun`, liveness | three connections, a pool of two, two panics |

Why the bounds are enough: most properties are about a pair of overlapping
requests (or one and the environment), and two requests may be any pair, one
after the other as often as the rows allow. Three token rows are a session, its
replacement and one more: a rotation against a replay, or two sessions under a
reset. Two users are an actor and a target that may each be the other's actor.
Two seats with three people let a check succeed at the limit, and let somebody
else take the seat before it is used; likewise one project and two creations, a
plan of two units and files of two. A channel of one event drops as soon as two
are published; 32 only make it rarer. Two changes by the operator let a slug be
given up and taken by another organization between two checks of a request.
Three accounts are one that is ended, its successor and one of another
organization. A pool of two, one of them kept by the migrations, leaves one
connection for three clients. Every run that passes fires every action.

`files` and `server` do not check for deadlock: ids of files run out, and a
process that has exited does nothing more. The other models never stop.

Each module has a `TypeOK`; it says more than types where the tables do
(`Roles` has the foreign keys of grants and permissions, `Credentials` and
`SignUp` the unique indexes of slugs and addresses). `sessions` and `roles`
check theirs as listed invariants; those of the modules with proofs are theorems
too (`TypeCorrect`, `CacheTypeCorrect` and so on). Each inductive invariant of section 7 has been checked by TLC with the
constants of the module's run before it was proved.

Every property of a passing run has a mutant in `PROJECT.json`: an operator of
the module (marked `Fault:`) that makes one plausible mistake in one operation,
with which TLC finds the property violated.

## 5. Fairness

`Sessions!FairSpec` has strong fairness of each request's next step. A step that
waits for a row lock is enabled and disabled as others take and release the
lock; Postgres keeps a queue of waiters per row and serves it in order, so a
waiter is not passed over for ever. Handlers have no loops, and nothing is
assumed of clients, operators, expiry or failures.

`PermissionCache!CacheFairSpec` has weak fairness of the steps of a check and of a
mutation (straight-line code in a handler) and of `Expire`, since every entry is
written with a TTL. `RevocationTakesEffect` needs no fairness of mutations to
come.

`Files!FairSpec`: a request ends, one way or another (weak). For the files in
`Retried` only, a client goes on asking for the deletion, and no store fails
every time it is tried (strong fairness of asking, of the removal of the object
and of that of the row): that is the premise of `DeletionFinishes`, which asks
what a retry achieves.

`Realtime!RealtimeFairSpec` has weak fairness of the goroutines (publication, forwarder,
the loop of a stream, unsubscription) and of the client's refetch; nobody has to
connect, stay, or notify, and Redis may lose anything.

`Credentials!FairSpec` has weak fairness of the expiry of entries alone, since
`SetTenantBySlug` always gives a TTL of five minutes. Not even requests go on.

`SignUp!FairSpec` has weak fairness of the steps of a request, and strong
fairness of the callbacks in `Persistent`: the person tries again. Failures are
bounded, so a retry that no failure meets comes.

`Server!ServerFairSpec` has weak fairness of `main`, whose drain has a deadline, and
of the end of a transaction, and strong fairness of a waiting transaction
getting a connection, since database/sql hands freed connections to waiters in
the order they came. Nothing makes a handler, a stream or a client end.

## 6. Where the source and its comments disagree

`sessions_logout` is a run that TLC ends with a counterexample, and the entry of
"findings": a logout that overlaps a refresh of its session leaves the
replacement token live, against the comment of `Logout`
(identity/service.go:270-272).

The others were met while modelling. Each is in the model as the code does it.

1. `Login` writes back the whole row it read before bcrypt ran (`LoginSave`): a
   password reset that overlaps it is undone, against
   identity/repository.go:376-377.
2. Verification tokens are built without a tenant id (`MintedTenant`):
   row-level security and the foreign key refuse every insert, so password
   resets and e-mail verifications requested by users never get a token.
3. A permission check may store its set after the invalidation that was meant
   for it (`ExcuseLateFill`); platform/cache/cache.go:38-41 says there is no
   such window.
4. Two invitations may both pass the seat quota; billing/service.go says a
   tenant cannot exceed its plan in this way. `ExactWhenNotOvertaken` is what
   holds.
5. An expired invitation keeps its place in the unique index (`Taken`), so its
   person cannot be invited again, against the comment above the index
   (migrations/000004, lines 107-108).
6. projects/service.go:74-78 puts the overage of overlapping creations at one;
   `OverageBounded` has it at one less than the number of requests that run.
7. teams/service.go:100-102 says that nil fields of a PATCH spare a client from
   clobbering a concurrent edit; the whole row is saved (`Edited`, `Save`), so
   two patches of different fields undo each other. Projects have the same.
8. routes.go:72 says that every request below the metrics middleware is counted;
   one whose handler panics is not, and stays in the gauge of requests being
   served until the process ends (`Recovery`, `GaugesDriftByPanics`).
9. main.go:78 says that the keep-alive never races the closing of the pool; stop
   does not wait for a tick in progress, and the loop may choose one more
   (`Tick`, `Stopped`). It costs a warning in the log.
10. Two constants meet: the heartbeat of a stream is there to keep it open
    (realtime/sse.go:40-41), and WriteTimeout ends every stream after 60 s.
    Clients reconnect, which is also what makes them refetch.
11. An open stream makes every shutdown run out of its budget (`DrainTimesOut`),
    after which requests still running are severed: `CutOnlyWhenForced` says
    that nothing less severs one.
12. A sign-up by OAuth that stops after the user and before the role leaves an
    account that every retry signs in to and that never gets a role
    (`RolelessOnlyWhenCut`).
13. With the server's credential used for migrations, one connection of the pool
    is never given back: `ServerAssumption` asks for a pool of two, config.go
    for one, with which no request would ever be served.

## 7. What is proved

Every component has proofs. Seven have a module of proofs named after them;
`PlatformProofs` has those of `PermissionCache`, `Realtime` and `Server`, what
lives in a process or in Redis rather than in tables. It extends all three, so
their definitions have names of their own (`CacheInit`, `RealtimeNext`,
`ServerSpec`), and they share no variable and no constant.

The theorems hold for every value of the constants: any number of requests,
users, rows and so on, finite or not where nothing is counted. What is assumed
is the module's own named assumption and nothing else: mostly that `None` is
none of the values and that what is configured has its type. Where a count or a
sum is compared, `Workspace` also assumes finitely many requests and projects,
`Files` finitely many requests and file ids and at least one of each (there is
a largest upload then), and `Server` finitely many connections; `Seats`,
`SignUp` and `Credentials` need no such assumption, since what they count is
finite in every reachable state.

All are built alike. `IInv` is the inductive invariant: the type invariant, the
properties, and `ReqInv`, what a request between two of its steps may rely on.
No property is inductive without `ReqInv`, because a request decides in one
transaction and writes in another. Frame lemmas say what a step leaves alone;
one lemma for each part of `IInv`, or for each group of actions, shows that it
is preserved; `Invariance` is `Spec => []IInv`, `TypeCorrect` is
`Spec => []TypeOK`, and the rest follow from `IInv`, action properties from it
and the step. In `PlatformProofs` the three are `CacheInv`, `RealtimeInv` and
`ServerInv`.

| Module | Theorem | States |
|---|---|---|
| `SessionsProofs` | `FamilyLinearity` | `FamilyLinear` |
| | `AccountLockProtects` | `LockProtects` |
| | `RotationIsAuthorised` | `RotationNeedsActiveAccount`, of steps |
| | `LockedEndsAreTotal` | `LockedEndIsTotal`, of steps |
| | `ClaimedOnce` | `ClaimOnce`, of steps |
| | `SessionsImplementBook` | `ImplementsSessionBook`, refinement |
| `RolesProofs` | `OrgManageIsExclusive` | `OrgManageExclusive` |
| | `OwnerAlwaysRemains` | `OwnerRemains` |
| | `NobodyEscalates` | `NoEscalation`, of steps |
| | `RankIsRespected` | `RankRespected`, of steps |
| | `NoEditIsLost` | `NoLostEdit`, of steps |
| `PlatformProofs` | `StaleHasACause` | `StaleOnlyByKnownCause` |
| | `NoExcuseWithoutEntry` | `ExcusesEnd` |
| | `NoEventTwice` | `AtMostOnce`, of steps |
| | `OnlyForcedCuts` | `CutOnlyWhenForced` |
| | `GaugesDrift` | `GaugesDriftByPanics` |
| `SeatsProofs` | `PlanCodeStaysInStep` | `PlanCodeInStep` |
| | `InvitationsResolvedOnce` | `ResolvedOnce`, of steps |
| | `QuotaIsExact` | `ExactWhenNotOvertaken`, of steps |
| `SignUpProofs` | `RolelessWereCut` | `RolelessOnlyWhenCut` |
| | `UnreachableWereCut` | `ReachableUnlessCut` |
| | `OneAccountPerIdentity` | `SameAccountEachTime` |
| `WorkspaceProofs` | `NoReferenceCrossesTenants` | `ReferencesStayInTenant` |
| | `OverageIsBounded` | `OverageBounded` |
| | `DeletedStaysDeleted` | `DeletionIsFinal`, of steps |
| `FilesProofs` | `NothingIsLeftBehind` | `NothingLeftBehind` |
| | `OverageIsBounded` | `OverageBounded` |
| | `FilesImplementShelf` | `ImplementsShelf`, refinement |
| `CredentialsProofs` | `ServedWhenGood` | `ServedInGoodStanding` |
| | `ServedAtHome` | `ServedInOwnTenant` |
| | `RevocationIsOne` | `RevokedOnce` |

What each `IInv` adds, and what it is needed for:

- `Sessions`. `LockInv`: the account lock is held at exactly the steps
  `HoldsAccount` names, hence by one request. `LockProtects` needs it: nobody
  else inserts or updates while the lock is held. `FamilyInv`: a family is named
  by a stored token that is its own family, a replaced token is revoked and a
  revoked one is stored. `FamilyLinear` needs it: a rotation revokes the only
  unreplaced token. `ClaimInv`: a claim that found its token unused has not been
  overtaken when it commits.
- `Roles`. The authority of a mutation is read several statements before its
  commit. `Carries` says which rows a mutation has locked by each step
  (`ActorHeld`, `RolesHeld`, `ChosenHeld`, `TargetHeld`), that what it read of
  them is what they say still (`ReadRight`), and restates what it was found to be
  allowed (`RoleAllowed`, `CreateAllowed`, `TargetAllowed`) of the tables and not
  of what it read. That nobody else changes a locked row turns the checks into
  facts at the commit, from which the five properties follow. `LocksExist`: an id
  that is not in the table is not locked, so a role that is created meets no lock.
  `ShownIsCurrent`, for `NoLostEdit`: nobody has edited a role whose revision is
  still the editor's.
- `PermissionCache`. `ExcusesEnd`: an excused user has an entry. Without it an
  excuse could outlive the entry it was given for, and cover any later one.
- `Seats`. `Checked`: the verdict of a quota check, for the count and the plan
  the request carries; `ExactWhenNotOvertaken` compares that count with the
  tables. `Finite`: the tables that are counted are finite, so that one row more
  is one more.
- `SignUp`. `Carried`: the account a callback goes on with is there and, once it
  is linked, is the one its identity is linked to. `TokensFollowLink`, from which
  `SameAccountEachTime` follows, since a link never changes. `Excused`: who
  accepts without a password had an account when asked, which only a deletion
  can have taken since. `ForeignKeys`, which keep a fresh account from being
  linked already.
- `Workspace`. `Carried`: the row was found in the request's tenant, rows never
  change their tenant, and the team or user that is about to be written was found
  in it too. `OverageBounded` is inductive with the requests that are about to
  insert counted, as it is stated.
- `Files`. `Underway`: a file whose row is not written is known to its uploader
  only; who opens or deletes it has seen its row; who is about to delete the row
  has removed the content, and nobody puts it again. `NothingLeftBehind` is the
  last of these, and the refinement needs all: that "kept" is left only by a
  deletion somebody asked for. For `OverageBounded` it says that a file under way
  is not listed and belongs to one request (`UploadingOnce`), so that
  `CreateRow` moves its size from one sum to the other.
- `Credentials`. `Witnessed`: what is good now, and what has been checked, has
  been noted in `stood`. `Tied`: from the comparison on, the request acts in the
  tenant of its credential. `KeyRows`: a key that was ever minted keeps an owner,
  and so a tenant. `OneClaim` says `RevokedOnce` without counting, with the
  requests that have still to write their record.

- `Realtime`. `OnePlace`: an event is on the wire of a stream, in its channel or
  written, and once in it; `publishing` has none of those. `OfItsUser` and
  `Stored`: what is on its way has a row, so that no later insert can bring the
  same id, and is its user's. `AtMostOnce` then follows for the one step that
  writes: the head of the channel has not been written before. What
  `Subscribe`, `Unsubscribe` and `Restart` empty is empty for the invariant too.
- `Server`. `ShutdownOrder`: the pool is closed when `main` is about to return,
  `force` is remembered in `forced`, and otherwise no handler is left when `main`
  goes on from the drain. `CutOnlyWhenForced` needs it, since it is the closed
  pool and the exit that cut a request off. The gauges follow by counting: a
  step moves one connection (`Moves`), and `CountMoves` says what that does to
  the number of connections in any set of places.

Sums and counts. The sizes of a set of files are added up by a fold, a function
defined by recursion over sets; `BytesOfChosen`, `BytesWithout`, `BytesMonotone`
and `BytesBounded` in `FilesProofs` say what it computes: taking a file out of a set
takes its size from the sum, a smaller set has a smaller sum, and a sum is at
most the number of files times the largest. Induction over finite sets is used
there as a smallest counterexample (`SmallestSet`): proper inclusion of finite
sets is well founded, so a set of counterexamples has a least one.

Model-checked only:

- Liveness (`EveryRequestAnswered`, `RevocationTakesEffect`, `DeletionFinishes`,
  `ClientsCatchUp`, `OutdatedEntriesGo`, `RetriesSignIn`, `SignalEnds`,
  `TransactionsRun`): reasoning under fairness is outside what the provers do.
- The violation of section 6.

## 8. What is not modelled, and why

- The rate limiter: its promise is a rate over real time, kept by an external
  token bucket; a model without time would assume what it should show.
- The mailer: detached best-effort sends to an external service, with no state
  of the program behind them.
- Row-level security as such: it is the frame of most modules (one tenant), and
  shows where it refuses an insert, or where, as in `Workspace`, a check within
  the tenant is all that keeps references apart.
- The audit trail but for the record of a revoked key, profile and preference
  updates, `last_used_at`, and the scopes of API keys: single writes, or data
  that no modelled decision reads.
- Health, the admin overview, search and lists: read-only queries.
- Configuration, the migration command, the table of routes and the dashboard:
  sequential start-up, wiring, and a user interface.
