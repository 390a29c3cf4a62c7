\* Two requests, a plan of one project.
SPECIFICATION Spec
CONSTANTS
    Proc = {p1, p2}
    a = a
    b = b
    Tenant = {a, b}
    t1 = t1
    t2 = t2
    Team = {t1, t2}
    Project = {x1, x2}
    u1 = u1
    User = {u1}
    TenantOf <- Owner
    s1 = s1
    s2 = s2
    Slug = {s1, s2}
    Text = {v}
    New <- Fresh
    Patch <- Edits
    MaxProjects = 1
    None = None
SYMMETRY Symmetry
INVARIANTS OverageBounded ReferencesStayInTenant
PROPERTIES DeletionIsFinal
