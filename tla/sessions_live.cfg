\* Two overlapping requests with fair lock queues; no symmetry (liveness).
SPECIFICATION FairSpec
CONSTANTS
    Proc = {p1, p2}
    Token = {t1, t2}
    ResetToken = {r1}
    VerifyToken = {e1}
    Password = {h1}
    Status = {"active"}
    TenantStatus = {"active", "suspended"}
    None = None
PROPERTIES EveryRequestAnswered
