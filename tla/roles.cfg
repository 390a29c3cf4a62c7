\* Two overlapping mutations among two users, one custom role.
SPECIFICATION Spec
CONSTANTS
    Proc = {p1, p2}
    User = {u1, u2}
    Custom = {c1}
    Perm = {"org:manage", "role:manage"}
    Edited = {"admin"}
    Invited = {"admin"}
    None = None
SYMMETRY Symmetry
INVARIANTS TypeOK OrgManageExclusive OwnerRemains
PROPERTIES NoEscalation RankRespected NoLostEdit
