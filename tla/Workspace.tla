------------------------------ MODULE Workspace ------------------------------
(***************************************************************************)
(* Teams and projects: internal/teams, internal/projects and the project   *)
(* quota of internal/billing, over the tables teams, projects,             *)
(* team_members and project_members of several tenants.                    *)
(*                                                                         *)
(* Every repository call is a transaction of its own, so a request decides *)
(* on what earlier calls have read.  The plan is fixed here (its changes   *)
(* are in Seats) and the notice a new member gets belongs to Realtime.     *)
(***************************************************************************)
EXTENDS Naturals, FiniteSets

CONSTANTS
    Proc,         \* requests that may run at the same time
    Tenant,
    Team,         \* ids of teams
    Project,      \* ids of projects
    User,
    TenantOf,     \* the tenant a user is in, or a row will be created in
    Slug,
    Text,         \* values of the plain columns: name, description and status
    New,          \* what a creation may carry
    Patch,        \* what an update may carry: functions from some of Field
    MaxProjects,  \* max_projects of the plan
    None

Row == Team \cup Project
Field == {"slug", "text", "team"}

\* The columns of a project; a team has no team.
Content == [slug : Slug, text : Text, team : Team \cup {None}]

ASSUME WorkspaceAssumption ==
    /\ IsFiniteSet(Proc) /\ IsFiniteSet(Project)
    /\ Team \cap Project = {} /\ None \notin Row \cup Content
    /\ TenantOf \in [Row \cup User -> Tenant]
    /\ New \subseteq Content
    /\ \A e \in Patch : /\ DOMAIN e \subseteq Field
                        /\ "slug" \in DOMAIN e => e.slug \in Slug
                        /\ "text" \in DOMAIN e => e.text \in Text
                        /\ "team" \in DOMAIN e => e.team \in Team \cup {None}
    /\ MaxProjects \in Nat \ {0}

VARIABLES
    state,    \* [Row -> "absent", "live", or "deleted" by deleted_at]
    content,  \* [Row -> its columns, None without a row]
    roster,   \* team_members and project_members: pairs of a row and a user
    req       \* the requests in progress

vars == <<state, content, roster, req>>

Request == [pc : {"idle", "team", "count", "insert", "save", "delete",
                  "user", "add", "remove"},
            tenant : Tenant \cup {None}, row : Row \cup {None},
            new : Content \cup {None}, user : User \cup {None}]

NoRequest == [pc |-> "idle", tenant |-> None, row |-> None, new |-> None,
              user |-> None]

Live(r) == state[r] = "live"
SameTable(r, q) == (r \in Team) = (q \in Team)

\* The unique indexes on (tenant_id, slug) WHERE deleted_at IS NULL.
UniqueSlugs ==
    \A r, q \in Row :
        /\ Live(r) /\ Live(q) /\ SameTable(r, q)
        /\ TenantOf[r] = TenantOf[q] /\ content[r].slug = content[q].slug
        => r = q

TypeOK ==
    /\ state \in [Row -> {"absent", "live", "deleted"}]
    /\ content \in [Row -> Content \cup {None}]
    /\ \A r \in Row : content[r] = None <=> state[r] = "absent"
    /\ roster \in SUBSET (Row \X User)
    /\ \A m \in roster : state[m[1]] # "absent"
    /\ req \in [Proc -> Request]
    /\ UniqueSlugs

-----------------------------------------------------------------------------
\* Helpers

At(p, l) == req[p].pc = l
Goto(p, l) == req' = [req EXCEPT ![p].pc = l]
Answer(p) == req' = [req EXCEPT ![p] = NoRequest]

\* A request begins by finding its row: the others are not found.
Find(p, r, q) ==
    /\ At(p, "idle")
    /\ Live(r)
    /\ req' = [req EXCEPT ![p] = [q EXCEPT !.tenant = TenantOf[r], !.row = r]]

\* What an update makes of the row it has read.
Edited(c, e) == [f \in DOMAIN c |-> IF f \in DOMAIN e THEN e[f] ELSE c[f]]

\* Another live row of the table and the tenant of r has slug s.
Taken(r, s) ==
    \E q \in Row \ {r} : /\ Live(q) /\ SameTable(r, q)
                         /\ TenantOf[q] = TenantOf[r] /\ content[q].slug = s

LiveProjects(a) == {x \in Project : Live(x) /\ TenantOf[x] = a}

-----------------------------------------------------------------------------
\* Creation

\* A team is inserted at once; a slug that is taken makes the insert fail.
CreateTeam(t, c) ==
    /\ t \in Team /\ state[t] = "absent" /\ c.team = None
    /\ ~Taken(t, c.slug)
    /\ state' = [state EXCEPT ![t] = "live"]
    /\ content' = [content EXCEPT ![t] = c]
    /\ UNCHANGED <<roster, req>>

CreateProject(p, a, c) ==
    /\ At(p, "idle")
    /\ req' = [req EXCEPT ![p] = [NoRequest EXCEPT
                 !.pc = IF c.team = None THEN "count" ELSE "team",
                 !.tenant = a, !.new = c]]
    /\ UNCHANGED <<state, content, roster>>

\* For a new project and for an update that moves one.  Row-level security
\* hides the teams of other tenants.
TeamExists(p) ==
    LET t == req[p].new.team IN
    /\ At(p, "team")
    /\ IF Live(t) /\ TenantOf[t] = req[p].tenant
       THEN Goto(p, IF req[p].row = None THEN "count" ELSE "save")
       ELSE Answer(p)
    /\ UNCHANGED <<state, content, roster>>

\* CheckProjectQuota, given the number of live projects.
HasRoom(n) == n < MaxProjects

\* Fault: the comparison lets one project too many through.
CountLiveLoose(p) ==
    /\ At(p, "count")
    /\ IF Cardinality(LiveProjects(req[p].tenant)) <= MaxProjects
       THEN Goto(p, "insert") ELSE Answer(p)
    /\ UNCHANGED <<state, content, roster>>

CountLive(p) ==
    /\ At(p, "count")
    /\ IF HasRoom(Cardinality(LiveProjects(req[p].tenant)))
       THEN Goto(p, "insert") ELSE Answer(p)
    /\ UNCHANGED <<state, content, roster>>

InsertProject(p) ==
    /\ At(p, "insert")
    /\ \E x \in Project :
        /\ state[x] = "absent" /\ TenantOf[x] = req[p].tenant
        /\ IF Taken(x, req[p].new.slug)
           THEN UNCHANGED <<state, content>>
           ELSE /\ state' = [state EXCEPT ![x] = "live"]
                /\ content' = [content EXCEPT ![x] = req[p].new]
    /\ Answer(p)
    /\ UNCHANGED roster

-----------------------------------------------------------------------------
\* Update

Patched(r, e) == [NoRequest EXCEPT !.new = Edited(content[r], e)]

UpdateTeam(p, t, e) ==
    /\ t \in Team /\ "team" \notin DOMAIN e
    /\ Find(p, t, [Patched(t, e) EXCEPT !.pc = "save"])
    /\ UNCHANGED <<state, content, roster>>

\* A project that is to move to a team has the team checked; one that is to
\* leave its team, or to stay in it, has not.
UpdateProject(p, x, e) ==
    /\ x \in Project
    /\ Find(p, x, [Patched(x, e) EXCEPT
          !.pc = IF "team" \in DOMAIN e /\ e.team # None THEN "team" ELSE "save"])
    /\ UNCHANGED <<state, content, roster>>

\* Every mutable column is written, the ones the update does not name with what
\* Find has read; unless the row has been deleted or the slug taken since.
Save(p) ==
    LET r == req[p].row IN
    /\ At(p, "save")
    /\ content' = IF Live(r) /\ ~Taken(r, req[p].new.slug)
                  THEN [content EXCEPT ![r] = req[p].new] ELSE content
    /\ Answer(p)
    /\ UNCHANGED <<state, roster>>

SaveTeam(p) == req[p].row \in Team /\ Save(p)

\* Fault: the UPDATE goes by the id alone.
SaveProjectById(p) ==
    LET r == req[p].row IN
    /\ r \in Project
    /\ At(p, "save")
    /\ content' = [content EXCEPT ![r] = req[p].new]
    /\ Answer(p)
    /\ UNCHANGED <<state, roster>>

SaveProject(p) == req[p].row \in Project /\ Save(p)

-----------------------------------------------------------------------------
\* Deletion

DeleteTeam(p, t) ==
    /\ t \in Team /\ Find(p, t, [NoRequest EXCEPT !.pc = "delete"])
    /\ UNCHANGED <<state, content, roster>>

DeleteProject(p, x) ==
    /\ x \in Project /\ Find(p, x, [NoRequest EXCEPT !.pc = "delete"])
    /\ UNCHANGED <<state, content, roster>>

\* The row keeps its columns and its roster, and gives its slug back.  The
\* projects of a deleted team go on naming it: ON DELETE SET NULL does not fire.
SoftDelete(p) ==
    LET r == req[p].row IN
    /\ At(p, "delete")
    /\ state' = IF Live(r) THEN [state EXCEPT ![r] = "deleted"] ELSE state
    /\ Answer(p)
    /\ UNCHANGED <<content, roster>>

SoftDeleteTeam(p) == req[p].row \in Team /\ SoftDelete(p)
SoftDeleteProject(p) == req[p].row \in Project /\ SoftDelete(p)

-----------------------------------------------------------------------------
\* Members

AddTeamMember(p, t, u) ==
    /\ t \in Team /\ Find(p, t, [NoRequest EXCEPT !.pc = "user", !.user = u])
    /\ UNCHANGED <<state, content, roster>>

AddProjectMember(p, x, u) ==
    /\ x \in Project /\ Find(p, x, [NoRequest EXCEPT !.pc = "user", !.user = u])
    /\ UNCHANGED <<state, content, roster>>

BelongsToTenant(p) == TenantOf[req[p].user] = req[p].tenant

CheckUser(p) ==
    /\ At(p, "user")
    /\ IF BelongsToTenant(p) THEN Goto(p, "add") ELSE Answer(p)
    /\ UNCHANGED <<state, content, roster>>

\* Fault: the user is taken as given; the foreign key does not see tenants.
TeamUserTrusted(p) ==
    /\ At(p, "user") /\ req[p].row \in Team
    /\ Goto(p, "add")
    /\ UNCHANGED <<state, content, roster>>

TeamUserBelongs(p) == req[p].row \in Team /\ CheckUser(p)

ProjectUserBelongs(p) == req[p].row \in Project /\ CheckUser(p)

\* ON CONFLICT DO NOTHING; whether the row is live still is not asked.
Add(p) ==
    /\ At(p, "add")
    /\ roster' = roster \cup {<<req[p].row, req[p].user>>}
    /\ Answer(p)
    /\ UNCHANGED <<state, content>>

InsertTeamMember(p) == req[p].row \in Team /\ Add(p)
InsertProjectMember(p) == req[p].row \in Project /\ Add(p)

RemoveTeamMember(p, t, u) ==
    /\ t \in Team /\ Find(p, t, [NoRequest EXCEPT !.pc = "remove", !.user = u])
    /\ UNCHANGED <<state, content, roster>>

RemoveProjectMember(p, x, u) ==
    /\ x \in Project /\ Find(p, x, [NoRequest EXCEPT !.pc = "remove", !.user = u])
    /\ UNCHANGED <<state, content, roster>>

Remove(p) ==
    /\ At(p, "remove")
    /\ roster' = roster \ {<<req[p].row, req[p].user>>}
    /\ Answer(p)
    /\ UNCHANGED <<state, content>>

DropTeamMember(p) == req[p].row \in Team /\ Remove(p)
DropProjectMember(p) == req[p].row \in Project /\ Remove(p)

-----------------------------------------------------------------------------
\* Specification

\* A failed statement, a lost client or a crash, between two transactions.
Abort(p) ==
    /\ ~At(p, "idle")
    /\ Answer(p)
    /\ UNCHANGED <<state, content, roster>>

Init ==
    /\ state = [r \in Row |-> "absent"]
    /\ content = [r \in Row |-> None]
    /\ roster = {}
    /\ req = [p \in Proc |-> NoRequest]

ArriveTeam(p) ==
    \E t \in Team :
        \/ \E e \in Patch : UpdateTeam(p, t, e)
        \/ DeleteTeam(p, t)
        \/ \E u \in User : AddTeamMember(p, t, u) \/ RemoveTeamMember(p, t, u)

ArriveProject(p) ==
    \/ \E a \in Tenant, c \in New : CreateProject(p, a, c)
    \/ \E x \in Project :
        \/ \E e \in Patch : UpdateProject(p, x, e)
        \/ DeleteProject(p, x)
        \/ \E u \in User : AddProjectMember(p, x, u) \/ RemoveProjectMember(p, x, u)

StepTeam(p) ==
    \/ SaveTeam(p)
    \/ SoftDeleteTeam(p)
    \/ TeamUserBelongs(p)
    \/ InsertTeamMember(p)
    \/ DropTeamMember(p)

StepProject(p) ==
    \/ TeamExists(p)
    \/ CountLive(p)
    \/ InsertProject(p)
    \/ SaveProject(p)
    \/ SoftDeleteProject(p)
    \/ ProjectUserBelongs(p)
    \/ InsertProjectMember(p)
    \/ DropProjectMember(p)

Next ==
    \/ \E t \in Team, c \in New : CreateTeam(t, c)
    \/ \E p \in Proc : ArriveTeam(p) \/ ArriveProject(p)
    \/ \E p \in Proc : StepTeam(p) \/ StepProject(p) \/ Abort(p)

Spec == Init /\ [][Next]_vars

-----------------------------------------------------------------------------
\* Properties

Inserting(a) == {p \in Proc : At(p, "insert") /\ req[p].tenant = a}

\* How far overlapping creations can exceed the plan, which the comment in
\* projects/service.go puts at one: by no more than the requests that run at the
\* same time, less the one the limit had room for; and a request at a time never.
OverageBounded ==
    \A a \in Tenant :
        Cardinality(LiveProjects(a)) + Cardinality(Inserting(a)) + 1
            <= MaxProjects + Cardinality(Proc)

\* No reference crosses tenants: neither a member of a team or a project nor the
\* team of a project, whatever ids the requests carry and however stale the row
\* an update writes back (repository.go: "the same cross-tenant reference risk").
ReferencesStayInTenant ==
    /\ \A m \in roster : TenantOf[m[1]] = TenantOf[m[2]]
    /\ \A x \in Project : Live(x) /\ content[x].team # None =>
            TenantOf[content[x].team] = TenantOf[x]

\* A deletion is final: no request that found the row before it writes the row
\* afterwards or brings it back ("recoverable" by hand, with its columns).
DeletionIsFinal ==
    [][\A r \in Row : state[r] = "deleted" =>
        state'[r] = "deleted" /\ content'[r] = content[r]]_vars

=============================================================================
