\* Two requests, two tenants, two changes by the operator.
SPECIFICATION FairSpec
CONSTANTS
    Proc = {p1, p2}
    a = a
    b = b
    Tenant = {a, b}
    s1 = s1
    s2 = s2
    Slug = {s1, s2}
    Hint = {s1}
    u1 = u1
    u2 = u2
    User = {u1, u2}
    Key = {k1}
    TenantOf <- Owner
    FirstSlug <- Slugs
    FirstOwner <- Keys
    MaxChanges = 2
    None = None
INVARIANTS ServedInGoodStanding ServedInOwnTenant RevokedOnce
PROPERTIES OutdatedEntriesGo
