\* Two requests, two organizations, three accounts, a failure and a deletion.
SPECIFICATION FairSpec
CONSTANTS
    Proc = {p1, p2}
    b = b
    Tenant = {a, b}
    Existing = {b}
    Account = {1, 2, 3}
    i1 = i1
    Identity = {i1}
    Persistent <- Returning
    MaxFailures = 1
    MaxDeletions = 1
    None = None
INVARIANTS RolelessOnlyWhenCut ReachableUnlessCut SameAccountEachTime
PROPERTIES RetriesSignIn
