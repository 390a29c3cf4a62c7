\* A check and two mutations over two users, Redis failing at will.
SPECIFICATION CacheFairSpec
CONSTANTS
    Check = {k1}
    Mutation = {m1, m2}
    User = {u1, u2}
    Role = {r1}
    Perm = {x}
    Faults = TRUE
    None = None
INVARIANTS StaleOnlyByKnownCause
PROPERTIES RevocationTakesEffect
