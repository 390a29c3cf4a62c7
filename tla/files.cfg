\* Two requests, three files, room for two units.
\* Ids run out in the end, and nothing is left to do: no check for deadlock.
SPECIFICATION FairSpec
CONSTANTS
    Proc = {p1, p2}
    f1 = f1
    f2 = f2
    f3 = f3
    File = {f1, f2, f3}
    SizeOf <- Sizes
    Limit = 2
    Retried = {f1}
    None = None
INVARIANTS  OverageBounded
PROPERTIES ImplementsShelf DeletionFinishes
CHECK_DEADLOCK FALSE
