\* Two requests, three people, two invitations, two plans.
SPECIFICATION Spec
CONSTANTS
    Proc = {p1, p2}
    Email = {e1, e2, e3}
    Inv = {i1, i2}
    free = free
    pro = pro
    Plan = {free, pro}
    Free = free
    Limit <- SeatLimit
    SignUps = {e1, e2, e3}
    None = None
SYMMETRY Symmetry
INVARIANTS PlanCodeInStep
PROPERTIES ResolvedOnce ExactWhenNotOvertaken
