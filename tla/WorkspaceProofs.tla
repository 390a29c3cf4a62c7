--------------------------- MODULE WorkspaceProofs ---------------------------
(***************************************************************************)
(* Proofs about Workspace for every number of requests, tenants, teams,    *)
(* projects and users.                                                     *)
(*                                                                         *)
(* A request works on a row it found in a transaction of its own before.   *)
(* IInv says what stays true of that row and of what the request carries,  *)
(* whatever the others do: the row exists, is of the request's tenant, and *)
(* so is the team, or the user, that the request is about to write.        *)
(***************************************************************************)
EXTENDS Workspace, FiniteSetTheorems, TLAPS

\* The team that the columns c name, if any, is of tenant a.
TeamWithin(c, a) == c.team # None => TenantOf[c.team] = a

Found(p) == req[p].row \in Row /\ state[req[p].row] # "absent" /\ TenantOf[req[p].row] = req[p].tenant

\* What a request carries from its reads.
Carried(p) ==
    /\ ~At(p, "idle") => req[p].tenant \in Tenant
    /\ req[p].pc \in {"save", "delete", "user", "add", "remove"} => Found(p)
    /\ At(p, "team") =>
         /\ req[p].new \in Content /\ req[p].new.team # None
         /\ req[p].row # None => Found(p) /\ req[p].row \in Project
    /\ req[p].pc \in {"count", "insert"} =>
         req[p].new \in Content /\ TeamWithin(req[p].new, req[p].tenant)
    /\ At(p, "save") =>
         /\ req[p].new \in Content
         /\ req[p].row \in Project => TeamWithin(req[p].new, req[p].tenant)
    /\ req[p].pc \in {"user", "add", "remove"} => req[p].user \in User
    /\ At(p, "add") => BelongsToTenant(p)

ReqInv == \A p \in Proc : Carried(p)

IInv == TypeOK /\ ReqInv /\ ReferencesStayInTenant /\ OverageBounded

-----------------------------------------------------------------------------
\* Columns

LEMMA EditedTyped ==
    ASSUME NEW c \in Content, NEW e \in Patch
    PROVE  /\ Edited(c, e) \in Content
           /\ Edited(c, e).team = IF "team" \in DOMAIN e THEN e.team ELSE c.team
<1>1. DOMAIN c = Field /\ c.slug \in Slug /\ c.text \in Text /\ c.team \in Team \cup {None}
    BY DEF Content, Field
<1>2. Edited(c, e) = [slug |-> IF "slug" \in DOMAIN e THEN e.slug ELSE c.slug,
                      text |-> IF "text" \in DOMAIN e THEN e.text ELSE c.text,
                      team |-> IF "team" \in DOMAIN e THEN e.team ELSE c.team]
    BY <1>1 DEF Edited, Field
<1> QED
    BY <1>1, <1>2, WorkspaceAssumption DEF Content

-----------------------------------------------------------------------------
\* Requests

Alone(p) == req' \in [Proc -> Request] /\ \A q \in Proc \ {p} : req'[q] = req[q]

LEMMA NoRequestFields == NoRequest \in Request /\ NoRequest.pc = "idle"
    BY DEF NoRequest, Request

LEMMA Becomes ==
    ASSUME TypeOK, NEW p \in Proc, NEW r \in Request, req' = [req EXCEPT ![p] = r]
    PROVE  Alone(p) /\ req'[p] = r
    BY DEF TypeOK, Alone

LEMMA AnswerFields ==
    ASSUME TypeOK, NEW p \in Proc, Answer(p)
    PROVE  Alone(p) /\ Carried(p)' /\ At(p, "idle")'
    BY NoRequestFields, Becomes DEF Answer, Carried, At

LEMMA GotoFields ==
    ASSUME TypeOK, NEW p \in Proc, NEW l \in {"count", "insert", "save", "add"}, Goto(p, l)
    PROVE  /\ Alone(p) /\ At(p, l)'
           /\ req'[p].tenant = req[p].tenant /\ req'[p].row = req[p].row
           /\ req'[p].new = req[p].new /\ req'[p].user = req[p].user
<1> DEFINE r == [req[p] EXCEPT !.pc = l]
<1>1. /\ r \in Request /\ r.pc = l /\ r.tenant = req[p].tenant
      /\ r.row = req[p].row /\ r.new = req[p].new /\ r.user = req[p].user
    BY DEF TypeOK, Request
<1>2. req' = [req EXCEPT ![p] = r]
    BY DEF Goto, TypeOK
<1> HIDE DEF r
<1> QED
    BY <1>1, <1>2, Becomes DEF At

LEMMA FindFields ==
    ASSUME TypeOK, NEW p \in Proc, NEW r \in Row, NEW q \in Request, Find(p, r, q)
    PROVE  /\ Alone(p) /\ Live(r) /\ At(p, "idle") /\ TenantOf[r] \in Tenant
           /\ req'[p].tenant = TenantOf[r] /\ req'[p].row = r
           /\ req'[p].pc = q.pc /\ req'[p].new = q.new /\ req'[p].user = q.user
<1>1. TenantOf[r] \in Tenant
    BY WorkspaceAssumption
<1> DEFINE x == [q EXCEPT !.tenant = TenantOf[r], !.row = r]
<1>2. /\ x \in Request /\ x.tenant = TenantOf[r] /\ x.row = r
      /\ x.pc = q.pc /\ x.new = q.new /\ x.user = q.user
    BY <1>1 DEF Request
<1>3. req' = [req EXCEPT ![p] = x]
    BY DEF Find
<1> HIDE DEF x
<1> QED
    BY <1>1, <1>2, <1>3, Becomes DEF Find

\* What the others carry is theirs; a row stays a row.
LEMMA OthersKeep ==
    ASSUME ReqInv, NEW p \in Proc, Alone(p), Carried(p)',
           \A r \in Row : state[r] # "absent" => state'[r] # "absent"
    PROVE  ReqInv'
<1> SUFFICES ASSUME NEW q \in Proc \ {p} PROVE Carried(q)'
    BY DEF ReqInv
<1>1. req'[q] = req[q] /\ Carried(q)
    BY DEF ReqInv, Alone
<1>2. Found(q) => Found(q)'
    BY <1>1 DEF Found
<1> QED
    BY <1>1, <1>2 DEF Carried, At, BelongsToTenant

-----------------------------------------------------------------------------
\* The quota

LEMMA LiveProjectsFinite ==
    \A a \in Tenant : IsFiniteSet(LiveProjects(a)) /\ Cardinality(LiveProjects(a)) \in Nat
<1> SUFFICES ASSUME NEW a \in Tenant
             PROVE  IsFiniteSet(LiveProjects(a)) /\ Cardinality(LiveProjects(a)) \in Nat
    OBVIOUS
<1>1. LiveProjects(a) \subseteq Project
    BY DEF LiveProjects
<1> QED
    BY <1>1, FS_Subset, FS_CardinalityType, WorkspaceAssumption

LEMMA InsertingFinite ==
    \A a \in Tenant : IsFiniteSet(Inserting(a)) /\ Cardinality(Inserting(a)) \in Nat
<1> SUFFICES ASSUME NEW a \in Tenant
             PROVE  IsFiniteSet(Inserting(a)) /\ Cardinality(Inserting(a)) \in Nat
    OBVIOUS
<1>1. Inserting(a) \subseteq Proc
    BY DEF Inserting
<1> QED
    BY <1>1, FS_Subset, FS_CardinalityType, WorkspaceAssumption

\* No project more and no request more about to insert one.
LEMMA OverageKept ==
    ASSUME OverageBounded,
           \A a \in Tenant : /\ LiveProjects(a)' \subseteq LiveProjects(a)
                             /\ Inserting(a)' \subseteq Inserting(a)
    PROVE  OverageBounded'
<1> SUFFICES ASSUME NEW a \in Tenant
             PROVE  Cardinality(LiveProjects(a)') + Cardinality(Inserting(a)') + 1
                        <= MaxProjects + Cardinality(Proc)
    BY DEF OverageBounded
<1>1. /\ Cardinality(LiveProjects(a)') <= Cardinality(LiveProjects(a))
      /\ Cardinality(LiveProjects(a)') \in Nat /\ Cardinality(LiveProjects(a)) \in Nat
    BY LiveProjectsFinite, FS_Subset, FS_CardinalityType
<1>2. /\ Cardinality(Inserting(a)') <= Cardinality(Inserting(a))
      /\ Cardinality(Inserting(a)') \in Nat /\ Cardinality(Inserting(a)) \in Nat
    BY InsertingFinite, FS_Subset, FS_CardinalityType
<1>3. Cardinality(Proc) \in Nat /\ MaxProjects \in Nat
    BY FS_CardinalityType, WorkspaceAssumption
<1>4. Cardinality(LiveProjects(a)) + Cardinality(Inserting(a)) + 1
          <= MaxProjects + Cardinality(Proc)
    BY DEF OverageBounded
<1> QED
    BY <1>1, <1>2, <1>3, <1>4

\* A request that does not come to insert adds none that do.
LEMMA InsertingKept ==
    ASSUME NEW p \in Proc, Alone(p), ~At(p, "insert")'
    PROVE  \A a \in Tenant : Inserting(a)' \subseteq Inserting(a)
    BY DEF Inserting, At, Alone

\* A step that writes no table, and lets nobody insert.
LEMMA QuietInv ==
    ASSUME IInv, UNCHANGED <<state, content, roster>>,
           NEW p \in Proc, Alone(p), Carried(p)', ~At(p, "insert")'
    PROVE  IInv'
<1>1. ReqInv'
    BY OthersKeep DEF IInv
<1>2. TypeOK'
    BY DEF IInv, TypeOK, Alone, UniqueSlugs, Live
<1>3. ReferencesStayInTenant'
    BY DEF IInv, ReferencesStayInTenant, Live
<1>4. OverageBounded'
    BY InsertingKept, OverageKept DEF IInv, LiveProjects, Live
<1> QED
    BY <1>1, <1>2, <1>3, <1>4 DEF IInv

-----------------------------------------------------------------------------
\* Requests that find their row

\* An update carries the row it has read, edited; unless it names another team,
\* the team of a project is the one that the row has, of the same tenant.
LEMMA UpdateInv ==
    ASSUME IInv, NEW p \in Proc, NEW r \in Row, NEW e \in Patch,
           UNCHANGED <<state, content, roster>>,
           NEW l \in {"save", "team"}, Find(p, r, [Patched(r, e) EXCEPT !.pc = l]),
           l = "team" => r \in Project /\ "team" \in DOMAIN e /\ e.team # None,
           l = "save" => r \in Team \/ "team" \notin DOMAIN e \/ e.team = None
    PROVE  IInv'
<1> USE DEF IInv
<1>1. Live(r)
    BY DEF Find
<1>2. content[r] \in Content
    BY <1>1 DEF TypeOK, Live
<1>3. PICK c \in Content : c = Edited(content[r], e)
    BY <1>2, EditedTyped
<1>4. c.team = IF "team" \in DOMAIN e THEN e.team ELSE content[r].team
    BY <1>2, <1>3, EditedTyped
<1> DEFINE q == [Patched(r, e) EXCEPT !.pc = l]
<1>5. q \in Request /\ q.pc = l /\ q.new = c /\ q.user = None
    BY <1>3 DEF Patched, NoRequest, Request
<1>6. Find(p, r, q)
    OBVIOUS
<1> HIDE DEF q
<1>7. /\ Alone(p) /\ req'[p].tenant = TenantOf[r] /\ req'[p].row = r
      /\ req'[p].pc = l /\ req'[p].new = c /\ TenantOf[r] \in Tenant
    BY <1>5, <1>6, FindFields
<1>8. l = "save" /\ r \in Project => TeamWithin(c, TenantOf[r])
    BY <1>1, <1>4, WorkspaceAssumption DEF TeamWithin, ReferencesStayInTenant, Row
<1>9. Carried(p)'
    BY <1>1, <1>4, <1>7, <1>8 DEF Carried, Found, At, Live
<1> QED
    BY <1>7, <1>9, QuietInv DEF At

LEMMA FoundInv ==
    ASSUME IInv, NEW p \in Proc, NEW r \in Row, UNCHANGED <<state, content, roster>>,
           NEW q \in Request, Find(p, r, q), q.pc \in {"delete", "user", "remove"},
           q.pc # "delete" => q.user \in User
    PROVE  IInv'
<1>1. /\ Alone(p) /\ Live(r) /\ req'[p].tenant = TenantOf[r] /\ req'[p].row = r
      /\ req'[p].pc = q.pc /\ req'[p].user = q.user /\ TenantOf[r] \in Tenant
    BY FindFields DEF IInv
<1>2. Carried(p)'
    BY <1>1 DEF Carried, Found, At, Live
<1> QED
    BY <1>1, <1>2, QuietInv DEF At

LEMMA FindInv ==
    ASSUME IInv, NEW p \in Proc, NEW r \in Row, UNCHANGED <<state, content, roster>>,
           \/ Find(p, r, [NoRequest EXCEPT !.pc = "delete"])
           \/ \E u \in User, l \in {"user", "remove"} :
                 Find(p, r, [NoRequest EXCEPT !.pc = l, !.user = u])
    PROVE  IInv'
<1>1. CASE Find(p, r, [NoRequest EXCEPT !.pc = "delete"])
    <2> DEFINE q == [NoRequest EXCEPT !.pc = "delete"]
    <2>1. q \in Request /\ q.pc = "delete"
        BY DEF NoRequest, Request
    <2>2. Find(p, r, q)
        BY <1>1
    <2> HIDE DEF q
    <2> QED
        BY <2>1, <2>2, FoundInv
<1>2. ASSUME NEW u \in User, NEW l \in {"user", "remove"},
             Find(p, r, [NoRequest EXCEPT !.pc = l, !.user = u])
      PROVE  IInv'
    <2> DEFINE q == [NoRequest EXCEPT !.pc = l, !.user = u]
    <2>1. q \in Request /\ q.pc = l /\ q.user = u
        BY DEF NoRequest, Request
    <2>2. Find(p, r, q)
        BY <1>2
    <2> HIDE DEF q
    <2> QED
        BY <2>1, <2>2, FoundInv
<1> QED
    BY <1>1, <1>2

LEMMA CreateProjectInv ==
    ASSUME IInv, NEW p \in Proc, NEW a \in Tenant, NEW c \in New, CreateProject(p, a, c)
    PROVE  IInv'
<1> USE DEF IInv
<1>1. c \in Content
    BY WorkspaceAssumption
<1>2. PICK l \in {"count", "team"} : l = IF c.team = None THEN "count" ELSE "team"
    OBVIOUS
<1> DEFINE r == [NoRequest EXCEPT !.pc = l, !.tenant = a, !.new = c]
<1>3. r \in Request /\ r.pc = l /\ r.tenant = a /\ r.new = c /\ r.row = None
    BY <1>1 DEF NoRequest, Request
<1>4. req' = [req EXCEPT ![p] = r] /\ UNCHANGED <<state, content, roster>>
    BY <1>2 DEF CreateProject
<1> HIDE DEF r
<1>5. Alone(p) /\ req'[p] = r
    BY <1>3, <1>4, Becomes
<1>6. Carried(p)'
    BY <1>1, <1>2, <1>3, <1>5 DEF Carried, At, TeamWithin
<1> QED
    BY <1>3, <1>4, <1>5, <1>6, QuietInv DEF At

LEMMA ArriveInv ==
    ASSUME IInv, NEW p \in Proc, ArriveTeam(p) \/ ArriveProject(p)
    PROVE  IInv'
<1>1. ASSUME NEW t \in Team, NEW e \in Patch, UpdateTeam(p, t, e)
      PROVE  IInv'
    BY <1>1, UpdateInv DEF UpdateTeam, Row
<1>2. ASSUME NEW x \in Project, NEW e \in Patch, UpdateProject(p, x, e)
      PROVE  IInv'
    <2>1. PICK l \in {"save", "team"} :
             l = IF "team" \in DOMAIN e /\ e.team # None THEN "team" ELSE "save"
        OBVIOUS
    <2>2. Find(p, x, [Patched(x, e) EXCEPT !.pc = l]) /\ UNCHANGED <<state, content, roster>>
        BY <1>2, <2>1 DEF UpdateProject
    <2> QED
        BY <2>1, <2>2, UpdateInv DEF Row
<1>3. ASSUME NEW t \in Team,
             DeleteTeam(p, t) \/ \E u \in User : AddTeamMember(p, t, u) \/ RemoveTeamMember(p, t, u)
      PROVE  IInv'
    BY <1>3, FindInv DEF DeleteTeam, AddTeamMember, RemoveTeamMember, Row
<1>4. ASSUME NEW x \in Project,
             \/ DeleteProject(p, x)
             \/ \E u \in User : AddProjectMember(p, x, u) \/ RemoveProjectMember(p, x, u)
      PROVE  IInv'
    BY <1>4, FindInv DEF DeleteProject, AddProjectMember, RemoveProjectMember, Row
<1> QED
    BY <1>1, <1>2, <1>3, <1>4, CreateProjectInv DEF ArriveTeam, ArriveProject

-----------------------------------------------------------------------------
\* Requests that look something up

LEMMA AbortInv ==
    ASSUME IInv, NEW p \in Proc, Answer(p), UNCHANGED <<state, content, roster>>
    PROVE  IInv'
    BY AnswerFields, QuietInv DEF IInv, At

LEMMA TeamExistsInv ==
    ASSUME IInv, NEW p \in Proc, TeamExists(p)
    PROVE  IInv'
<1> USE DEF IInv
<1>1. UNCHANGED <<state, content, roster>> /\ At(p, "team") /\ Carried(p)
    BY DEF TeamExists, ReqInv
<1>2. CASE Answer(p)
    BY <1>1, <1>2, AbortInv
<1>3. ASSUME TenantOf[req[p].new.team] = req[p].tenant,
             Goto(p, IF req[p].row = None THEN "count" ELSE "save")
      PROVE  IInv'
    <2>1. PICK l \in {"count", "save"} : l = IF req[p].row = None THEN "count" ELSE "save"
        OBVIOUS
    <2>2. /\ Alone(p) /\ At(p, l)' /\ req'[p].tenant = req[p].tenant
          /\ req'[p].row = req[p].row /\ req'[p].new = req[p].new
        BY <1>3, <2>1, GotoFields
    <2>3. Carried(p)'
        BY <1>1, <1>3, <2>1, <2>2 DEF Carried, Found, At, TeamWithin
    <2> QED
        BY <1>1, <2>1, <2>2, <2>3, QuietInv DEF At
<1> QED
    BY <1>2, <1>3 DEF TeamExists

\* The quota is checked for one project more, and as many requests at most can
\* have passed the check for the same place as there are.
LEMMA CountLiveInv ==
    ASSUME IInv, NEW p \in Proc, CountLive(p)
    PROVE  IInv'
<1> USE DEF IInv
<1>1. UNCHANGED <<state, content, roster>> /\ At(p, "count") /\ Carried(p)
    BY DEF CountLive, ReqInv
<1>2. CASE Answer(p)
    BY <1>1, <1>2, AbortInv
<1>3. ASSUME HasRoom(Cardinality(LiveProjects(req[p].tenant))), Goto(p, "insert")
      PROVE  IInv'
    <2>1. /\ Alone(p) /\ At(p, "insert")' /\ req'[p].tenant = req[p].tenant
          /\ req'[p].row = req[p].row /\ req'[p].new = req[p].new
        BY <1>3, GotoFields
    <2>2. Carried(p)' /\ req[p].tenant \in Tenant
        BY <1>1, <2>1 DEF Carried, At, TeamWithin
    <2>3. ReqInv'
        BY <1>1, <2>1, <2>2, OthersKeep
    <2>4. TypeOK'
        BY <1>1, <2>1 DEF TypeOK, Alone, UniqueSlugs, Live
    <2>5. ReferencesStayInTenant'
        BY <1>1 DEF ReferencesStayInTenant, Live
    <2>6. OverageBounded'
        <3> SUFFICES ASSUME NEW a \in Tenant
                     PROVE  Cardinality(LiveProjects(a)') + Cardinality(Inserting(a)') + 1
                                <= MaxProjects + Cardinality(Proc)
            BY DEF OverageBounded
        <3>1. LiveProjects(a)' = LiveProjects(a)
            BY <1>1 DEF LiveProjects, Live
        <3>2. Inserting(a)' \subseteq Proc
            BY DEF Inserting
        <3>3. /\ Cardinality(Inserting(a)') <= Cardinality(Proc)
              /\ Cardinality(Inserting(a)') \in Nat /\ Cardinality(Proc) \in Nat
            BY <3>2, FS_Subset, FS_CardinalityType, WorkspaceAssumption
        <3>4. Cardinality(LiveProjects(a)) \in Nat /\ Cardinality(Inserting(a)) \in Nat
            BY LiveProjectsFinite, InsertingFinite
        <3>5. CASE a = req[p].tenant
            <4>1. Cardinality(LiveProjects(a)) < MaxProjects
                BY <1>3, <3>5 DEF HasRoom
            <4> QED
                BY <3>1, <3>3, <3>4, <4>1, WorkspaceAssumption
        <3>6. CASE a # req[p].tenant
            <4>1. Inserting(a)' = Inserting(a)
                BY <1>1, <2>1, <3>6 DEF Inserting, Alone, At
            <4>2. Cardinality(LiveProjects(a)) + Cardinality(Inserting(a)) + 1
                      <= MaxProjects + Cardinality(Proc)
                BY DEF OverageBounded
            <4> QED
                BY <3>1, <4>1, <4>2
        <3> QED
            BY <3>5, <3>6
    <2> QED
        BY <2>3, <2>4, <2>5, <2>6
<1> QED
    BY <1>2, <1>3 DEF CountLive

LEMMA CheckUserInv ==
    ASSUME IInv, NEW p \in Proc, CheckUser(p)
    PROVE  IInv'
<1> USE DEF IInv
<1>1. UNCHANGED <<state, content, roster>> /\ At(p, "user") /\ Carried(p)
    BY DEF CheckUser, ReqInv
<1>2. CASE Answer(p)
    BY <1>1, <1>2, AbortInv
<1>3. ASSUME BelongsToTenant(p), Goto(p, "add")
      PROVE  IInv'
    <2>1. /\ Alone(p) /\ At(p, "add")' /\ req'[p].tenant = req[p].tenant
          /\ req'[p].row = req[p].row /\ req'[p].user = req[p].user
        BY <1>3, GotoFields
    <2>2. Carried(p)'
        BY <1>1, <1>3, <2>1 DEF Carried, Found, At, BelongsToTenant
    <2> QED
        BY <1>1, <2>1, <2>2, QuietInv DEF At
<1> QED
    BY <1>2, <1>3 DEF CheckUser

-----------------------------------------------------------------------------
\* Requests that write

\* A row that comes to be live, with a slug no other row has.
LEMMA RowInserted ==
    ASSUME TypeOK, NEW r \in Row, state[r] = "absent", NEW c \in Content, ~Taken(r, c.slug),
           state' = [state EXCEPT ![r] = "live"], content' = [content EXCEPT ![r] = c],
           roster' = roster, req' \in [Proc -> Request]
    PROVE  TypeOK'
<1>1. /\ state' \in [Row -> {"absent", "live", "deleted"}] /\ state'[r] = "live"
      /\ content' \in [Row -> Content \cup {None}] /\ content'[r] = c
      /\ \A q \in Row \ {r} : state'[q] = state[q] /\ content'[q] = content[q]
    BY DEF TypeOK
<1>2. UniqueSlugs'
    <2> SUFFICES ASSUME NEW q \in Row, NEW s \in Row, Live(q)', Live(s)', SameTable(q, s),
                        TenantOf[q] = TenantOf[s], content'[q].slug = content'[s].slug
                 PROVE  q = s
        BY DEF UniqueSlugs, SameTable
    <2>1. CASE q = r /\ s # r
        BY <1>1, <2>1 DEF Taken, Live, SameTable
    <2>2. CASE s = r /\ q # r
        BY <1>1, <2>2 DEF Taken, Live, SameTable
    <2>3. CASE s # r /\ q # r
        BY <1>1, <2>3 DEF TypeOK, UniqueSlugs, Live
    <2> QED
        BY <2>1, <2>2, <2>3
<1>3. \A q \in Row : content'[q] = None <=> state'[q] = "absent"
    BY <1>1, WorkspaceAssumption DEF TypeOK
<1>4. \A m \in roster' : state'[m[1]] # "absent"
    BY <1>1 DEF TypeOK
<1> QED
    BY <1>1, <1>2, <1>3, <1>4 DEF TypeOK

LEMMA CreateTeamInv ==
    ASSUME IInv, NEW t \in Team, NEW c \in New, CreateTeam(t, c)
    PROVE  IInv'
<1> USE DEF IInv
<1>1. /\ t \in Row /\ c \in Content /\ state[t] = "absent" /\ ~Taken(t, c.slug)
      /\ state' = [state EXCEPT ![t] = "live"] /\ content' = [content EXCEPT ![t] = c]
      /\ UNCHANGED <<roster, req>>
    BY WorkspaceAssumption DEF CreateTeam, Row
<1>2. TypeOK'
    BY <1>1, RowInserted DEF TypeOK
<1>3. \A q \in Row : state[q] # "absent" => state'[q] # "absent"
    BY <1>1 DEF TypeOK
<1>4. ReqInv'
    BY <1>1, <1>3 DEF ReqInv, Carried, Found, At, BelongsToTenant
<1>5. \A x \in Project : state'[x] = state[x] /\ content'[x] = content[x]
    BY <1>1, WorkspaceAssumption DEF TypeOK, Row
<1>6. ReferencesStayInTenant'
    BY <1>1, <1>5 DEF ReferencesStayInTenant, Live
<1>7. OverageBounded'
    BY <1>1, <1>5, OverageKept DEF LiveProjects, Live, Inserting, At
<1> QED
    BY <1>2, <1>4, <1>6, <1>7

\* The project takes the place of the request that is done.
LEMMA InsertProjectInv ==
    ASSUME IInv, NEW p \in Proc, InsertProject(p)
    PROVE  IInv'
<1> USE DEF IInv
<1>1. /\ At(p, "insert") /\ roster' = roster /\ Alone(p) /\ Carried(p)' /\ At(p, "idle")'
      /\ Answer(p) /\ Carried(p)
    BY AnswerFields DEF InsertProject, ReqInv
<1>2. PICK x \in Project :
        /\ state[x] = "absent" /\ TenantOf[x] = req[p].tenant
        /\ IF Taken(x, req[p].new.slug)
           THEN UNCHANGED <<state, content>>
           ELSE /\ state' = [state EXCEPT ![x] = "live"]
                /\ content' = [content EXCEPT ![x] = req[p].new]
    BY DEF InsertProject
<1>3. CASE Taken(x, req[p].new.slug)
    BY <1>1, <1>2, <1>3, AbortInv
<1>4. CASE ~Taken(x, req[p].new.slug)
    <2>1. PICK c \in Content : c = req[p].new /\ TeamWithin(c, req[p].tenant)
        BY <1>1 DEF Carried, At
    <2>2. /\ x \in Row /\ ~Taken(x, c.slug) /\ state' = [state EXCEPT ![x] = "live"]
          /\ content' = [content EXCEPT ![x] = c]
        BY <1>2, <1>4, <2>1 DEF Row
    <2>3. TypeOK'
        BY <1>1, <1>2, <2>2, RowInserted DEF Alone
    <2>4. /\ state'[x] = "live" /\ content'[x] = c
          /\ \A q \in Row \ {x} : state'[q] = state[q] /\ content'[q] = content[q]
        BY <2>2 DEF TypeOK
    <2>5. ReqInv'
        BY <1>1, <2>4, OthersKeep
    <2>6. ReferencesStayInTenant'
        BY <1>1, <1>2, <2>1, <2>4 DEF ReferencesStayInTenant, Live, TeamWithin, Row
    <2>7. OverageBounded'
        <3> SUFFICES ASSUME NEW a \in Tenant
                     PROVE  Cardinality(LiveProjects(a)') + Cardinality(Inserting(a)') + 1
                                <= MaxProjects + Cardinality(Proc)
            BY DEF OverageBounded
        <3>1. /\ IsFiniteSet(LiveProjects(a)) /\ Cardinality(LiveProjects(a)) \in Nat
              /\ IsFiniteSet(Inserting(a)) /\ Cardinality(Inserting(a)) \in Nat
            BY LiveProjectsFinite, InsertingFinite
        <3>2. Cardinality(LiveProjects(a)) + Cardinality(Inserting(a)) + 1
                  <= MaxProjects + Cardinality(Proc)
            BY DEF OverageBounded
        <3>3. CASE a = TenantOf[x]
            <4>1. LiveProjects(a)' = LiveProjects(a) \cup {x} /\ x \notin LiveProjects(a)
                BY <1>2, <2>4, <3>3 DEF LiveProjects, Live, Row
            <4>2. Inserting(a)' = Inserting(a) \ {p} /\ p \in Inserting(a)
                BY <1>1, <1>2, <3>3 DEF Inserting, Alone, At
            <4>3. Cardinality(LiveProjects(a)') = Cardinality(LiveProjects(a)) + 1
                BY <3>1, <4>1, FS_AddElement
            <4>4. Cardinality(Inserting(a)') = Cardinality(Inserting(a)) - 1
                BY <3>1, <4>2, FS_RemoveElement
            <4> QED
                BY <3>1, <3>2, <4>3, <4>4
        <3>4. CASE a # TenantOf[x]
            <4>1. LiveProjects(a)' = LiveProjects(a)
                BY <2>4, <3>4 DEF LiveProjects, Live, Row
            <4>2. Inserting(a)' = Inserting(a)
                BY <1>1, <1>2, <3>4 DEF Inserting, Alone, At
            <4> QED
                BY <3>2, <4>1, <4>2
        <3> QED
            BY <3>3, <3>4
    <2> QED
        BY <2>3, <2>5, <2>6, <2>7
<1> QED
    BY <1>3, <1>4

\* What is saved is of the tenant of the row: the team was, when it was read
\* with the row or looked up, and tenants do not change.
LEMMA SaveInv ==
    ASSUME IInv, NEW p \in Proc, Save(p)
    PROVE  IInv'
<1> USE DEF IInv
<1>1. /\ At(p, "save") /\ UNCHANGED <<state, roster>>
      /\ Alone(p) /\ Carried(p)' /\ At(p, "idle")' /\ Answer(p) /\ Carried(p)
    BY AnswerFields DEF Save, ReqInv
<1>2. PICK r \in Row : r = req[p].row /\ TenantOf[r] = req[p].tenant
    BY <1>1 DEF Carried, Found, At
<1>3. PICK c \in Content : c = req[p].new /\ (r \in Project => TeamWithin(c, TenantOf[r]))
    BY <1>1, <1>2 DEF Carried, At
<1>4. CASE Live(r) /\ ~Taken(r, c.slug)
    <2>1. content' = [content EXCEPT ![r] = c]
        BY <1>2, <1>3, <1>4 DEF Save
    <2>2. /\ content' \in [Row -> Content \cup {None}] /\ content'[r] = c
          /\ \A q \in Row \ {r} : content'[q] = content[q]
        BY <2>1 DEF TypeOK
    <2>3. TypeOK'
        <3>1. UniqueSlugs'
            <4> SUFFICES ASSUME NEW q \in Row, NEW s \in Row, Live(q), Live(s), SameTable(q, s),
                                TenantOf[q] = TenantOf[s], content'[q].slug = content'[s].slug
                         PROVE  q = s
                BY <1>1 DEF UniqueSlugs, SameTable, Live
            <4>1. CASE q = r /\ s # r
                BY <1>4, <2>2, <4>1 DEF Taken, SameTable
            <4>2. CASE s = r /\ q # r
                BY <1>4, <2>2, <4>2 DEF Taken, SameTable
            <4>3. CASE s # r /\ q # r
                BY <2>2, <4>3 DEF TypeOK, UniqueSlugs
            <4> QED
                BY <4>1, <4>2, <4>3
        <3>2. \A q \in Row : content'[q] = None <=> state'[q] = "absent"
            BY <1>1, <1>4, <2>2, WorkspaceAssumption DEF TypeOK, Live
        <3> QED
            BY <1>1, <2>2, <3>1, <3>2 DEF TypeOK, Alone
    <2>4. ReqInv'
        BY <1>1, OthersKeep
    <2>5. ReferencesStayInTenant'
        BY <1>1, <1>3, <2>2 DEF ReferencesStayInTenant, Live, TeamWithin, Row
    <2>6. OverageBounded'
        BY <1>1, InsertingKept, OverageKept DEF LiveProjects, Live, At
    <2> QED
        BY <2>3, <2>4, <2>5, <2>6
<1>5. CASE ~(Live(r) /\ ~Taken(r, c.slug))
    <2>1. content' = content
        BY <1>2, <1>3, <1>5 DEF Save
    <2> QED
        BY <1>1, <2>1, AbortInv
<1> QED
    BY <1>4, <1>5

LEMMA SoftDeleteInv ==
    ASSUME IInv, NEW p \in Proc, SoftDelete(p)
    PROVE  IInv'
<1> USE DEF IInv
<1>1. /\ At(p, "delete") /\ UNCHANGED <<content, roster>>
      /\ Alone(p) /\ Carried(p)' /\ At(p, "idle")' /\ Answer(p) /\ Carried(p)
    BY AnswerFields DEF SoftDelete, ReqInv
<1>2. PICK r \in Row : r = req[p].row
    BY <1>1 DEF Carried, Found, At
<1>3. CASE Live(r)
    <2>1. state' = [state EXCEPT ![r] = "deleted"]
        BY <1>2, <1>3 DEF SoftDelete
    <2>2. /\ state' \in [Row -> {"absent", "live", "deleted"}]
          /\ \A q \in Row : /\ state'[q] = "absent" <=> state[q] = "absent"
                            /\ Live(q)' => Live(q)
        BY <1>3, <2>1 DEF TypeOK, Live
    <2>3. TypeOK'
        BY <1>1, <2>2 DEF TypeOK, Alone, UniqueSlugs, SameTable
    <2>4. ReqInv'
        BY <1>1, <2>2, OthersKeep
    <2>5. ReferencesStayInTenant'
        BY <1>1, <2>2 DEF ReferencesStayInTenant, Row
    <2>6. OverageBounded'
        BY <1>1, <2>2, InsertingKept, OverageKept DEF LiveProjects, At, Row
    <2> QED
        BY <2>3, <2>4, <2>5, <2>6
<1>4. CASE ~Live(r)
    BY <1>1, <1>2, <1>4, AbortInv DEF SoftDelete
<1> QED
    BY <1>3, <1>4

LEMMA RosterInv ==
    ASSUME IInv, NEW p \in Proc, Add(p) \/ Remove(p)
    PROVE  IInv'
<1> USE DEF IInv
<1>1. /\ At(p, "add") \/ At(p, "remove")
      /\ UNCHANGED <<state, content>>
      /\ Alone(p) /\ Carried(p)' /\ At(p, "idle")' /\ Carried(p)
    BY AnswerFields DEF Add, Remove, ReqInv
<1>2. \/ roster' \subseteq roster
      \/ At(p, "add") /\ roster' = roster \cup {<<req[p].row, req[p].user>>}
    BY DEF Add, Remove
<1>3. /\ req[p].row \in Row /\ req[p].user \in User /\ state[req[p].row] # "absent"
      /\ At(p, "add") => TenantOf[req[p].row] = TenantOf[req[p].user]
    BY <1>1 DEF Carried, Found, At, BelongsToTenant
<1>4. /\ roster' \in SUBSET (Row \X User)
      /\ \A m \in roster' : state'[m[1]] # "absent"
    BY <1>1, <1>2, <1>3 DEF TypeOK
<1>5. TypeOK'
    BY <1>1, <1>4 DEF TypeOK, Alone, UniqueSlugs, Live
<1>6. ReqInv'
    BY <1>1, OthersKeep
<1>7. ReferencesStayInTenant'
    BY <1>1, <1>2, <1>3 DEF ReferencesStayInTenant, Live
<1>8. OverageBounded'
    BY <1>1, InsertingKept, OverageKept DEF LiveProjects, Live, At
<1> QED
    BY <1>5, <1>6, <1>7, <1>8

-----------------------------------------------------------------------------
\* The inductive invariant

LEMMA InitInv == Init => IInv
<1> SUFFICES ASSUME Init PROVE IInv
    OBVIOUS
<1>1. TypeOK
    BY NoRequestFields DEF Init, TypeOK, UniqueSlugs, Live
<1>2. ReqInv
    BY NoRequestFields DEF Init, ReqInv, Carried, At
<1>3. ReferencesStayInTenant
    BY DEF Init, ReferencesStayInTenant, Live, Row
<1>4. OverageBounded
    <2> SUFFICES ASSUME NEW a \in Tenant
                 PROVE  Cardinality(LiveProjects(a)) + Cardinality(Inserting(a)) + 1
                            <= MaxProjects + Cardinality(Proc)
        BY DEF OverageBounded
    <2>1. LiveProjects(a) = {} /\ Inserting(a) = {}
        BY NoRequestFields DEF Init, LiveProjects, Live, Inserting, At, Row
    <2>2. Cardinality(Proc) \in Nat /\ MaxProjects \in Nat \ {0}
        BY FS_CardinalityType, WorkspaceAssumption
    <2> QED
        BY <2>1, <2>2, FS_EmptySet
<1> QED
    BY <1>1, <1>2, <1>3, <1>4 DEF IInv

LEMMA StepInv == IInv /\ [Next]_vars => IInv'
<1> SUFFICES ASSUME IInv, [Next]_vars PROVE IInv'
    OBVIOUS
<1>1. ASSUME NEW t \in Team, NEW c \in New, CreateTeam(t, c)
      PROVE  IInv'
    BY <1>1, CreateTeamInv
<1>2. ASSUME NEW p \in Proc, ArriveTeam(p) \/ ArriveProject(p)
      PROVE  IInv'
    BY <1>2, ArriveInv
<1>3. ASSUME NEW p \in Proc, StepTeam(p)
      PROVE  IInv'
    BY <1>3, SaveInv, SoftDeleteInv, CheckUserInv, RosterInv
       DEF StepTeam, SaveTeam, SoftDeleteTeam, TeamUserBelongs, InsertTeamMember, DropTeamMember
<1>4. ASSUME NEW p \in Proc, StepProject(p)
      PROVE  IInv'
    BY <1>4, TeamExistsInv, CountLiveInv, InsertProjectInv, SaveInv, SoftDeleteInv,
       CheckUserInv, RosterInv
       DEF StepProject, SaveProject, SoftDeleteProject, ProjectUserBelongs,
           InsertProjectMember, DropProjectMember
<1>5. ASSUME NEW p \in Proc, Abort(p)
      PROVE  IInv'
    BY <1>5, AbortInv DEF Abort
<1>6. CASE UNCHANGED vars
    <2>1. UNCHANGED <<state, content, roster, req>>
        BY <1>6 DEF vars
    <2>2. TypeOK' /\ ReqInv' /\ ReferencesStayInTenant'
        BY <2>1 DEF IInv, TypeOK, UniqueSlugs, Live, ReqInv, Carried, Found, At,
                    BelongsToTenant, ReferencesStayInTenant
    <2>3. OverageBounded'
        BY <2>1, OverageKept DEF IInv, LiveProjects, Live, Inserting, At
    <2> QED
        BY <2>2, <2>3 DEF IInv
<1> QED
    BY <1>1, <1>2, <1>3, <1>4, <1>5, <1>6 DEF Next

\* Whatever requests overlap, each goes on with a row that exists in its own
\* tenant, and writes only teams and users of that tenant.
THEOREM Invariance == Spec => []IInv
    BY InitInv, StepInv, PTL DEF Spec

\* Every variable keeps its type; in particular two live teams, or two live
\* projects, of a tenant never have one slug, however creations and renames
\* overlap (the unique indexes on (tenant_id, slug)).
THEOREM TypeCorrect == Spec => []TypeOK
<1>1. IInv => TypeOK
    BY DEF IInv
<1> QED
    BY <1>1, Invariance, PTL

\* No request brings a member or a team of another tenant into a team or a
\* project: TeamExists and the membership checks hold until the write, and the
\* columns an update writes back were of its tenant when they were read.
THEOREM NoReferenceCrossesTenants == Spec => []ReferencesStayInTenant
<1>1. IInv => ReferencesStayInTenant
    BY DEF IInv
<1> QED
    BY <1>1, Invariance, PTL

\* CheckProjectQuota counts before Insert writes, so creations that overlap may
\* exceed the plan, by one project less than there are requests at most.
THEOREM OverageIsBounded == Spec => []OverageBounded
<1>1. IInv => OverageBounded
    BY DEF IInv
<1> QED
    BY <1>1, Invariance, PTL

\* SoftDelete is final: every write that may come after it asks deleted_at IS
\* NULL in the statement that writes, and an insertion takes a new row.
THEOREM DeletedStaysDeleted == Spec => DeletionIsFinal
<1> DEFINE A == \A r \in Row : state[r] = "deleted" =>
                   state'[r] = "deleted" /\ content'[r] = content[r]
<1>1. ASSUME IInv, [Next]_vars PROVE [A]_vars
    <2>1. state \in [Row -> {"absent", "live", "deleted"}] /\ content \in [Row -> Content \cup {None}]
        BY <1>1 DEF IInv, TypeOK
    <2>2. ASSUME NEW t \in Team, NEW c \in New, CreateTeam(t, c)
          PROVE  A
        BY <2>1, <2>2 DEF CreateTeam, Row
    <2>3. ASSUME NEW p \in Proc, ArriveTeam(p) \/ ArriveProject(p) \/ Abort(p)
          PROVE  A
        BY <2>3 DEF ArriveTeam, UpdateTeam, DeleteTeam, AddTeamMember, RemoveTeamMember,
                    ArriveProject, CreateProject, UpdateProject, DeleteProject,
                    AddProjectMember, RemoveProjectMember, Abort
    <2>4. ASSUME NEW p \in Proc, StepTeam(p) \/ StepProject(p)
          PROVE  A
        <3>1. CASE \/ CheckUser(p) \/ Add(p) \/ Remove(p) \/ TeamExists(p) \/ CountLive(p)
            BY <3>1 DEF CheckUser, Add, Remove, TeamExists, CountLive
        <3>2. CASE Save(p)
            <4>1. /\ state' = state
                  /\ \/ content' = content
                     \/ /\ Live(req[p].row)
                        /\ content' = [content EXCEPT ![req[p].row] = req[p].new]
                BY <3>2 DEF Save
            <4> QED
                BY <2>1, <4>1 DEF Live
        <3>3. CASE SoftDelete(p)
            BY <2>1, <3>3 DEF SoftDelete, Live
        <3>4. CASE InsertProject(p)
            BY <2>1, <3>4 DEF InsertProject, Row
        <3> QED
            BY <2>4, <3>1, <3>2, <3>3, <3>4
               DEF StepTeam, SaveTeam, SoftDeleteTeam, TeamUserBelongs, InsertTeamMember,
                   DropTeamMember, StepProject, SaveProject, SoftDeleteProject,
                   ProjectUserBelongs, InsertProjectMember, DropProjectMember
    <2> QED
        BY <1>1, <2>2, <2>3, <2>4 DEF Next
<1> QED
    BY <1>1, Invariance, PTL DEF Spec, DeletionIsFinal
=============================================================================
