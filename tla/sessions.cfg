\* Two overlapping requests of any kind on one account, three token rows.
SPECIFICATION Spec
CONSTANTS
    Proc = {p1, p2}
    Token = {t1, t2, t3}
    ResetToken = {r1}
    VerifyToken = {}
    Password = {h1, h2}
    Status = {"active", "deleted"}
    TenantStatus = {"active", "suspended"}
    None = None
SYMMETRY Symmetry
INVARIANTS TypeOK FamilyLinear LockProtects
PROPERTIES LockedEndIsTotal ClaimOnce RotationNeedsActiveAccount ImplementsSessionBook
