\* Two notifications, two streams, channels of one event.
SPECIFICATION RealtimeFairSpec
CONSTANTS
    n1 = n1
    n2 = n2
    Note = {n1, n2}
    c1 = c1
    c2 = c2
    Stream = {c1, c2}
    u1 = u1
    u2 = u2
    Recipient = {u1, u2}
    Owner <- Owners
    Buffer = 1
PROPERTIES AtMostOnce ClientsCatchUp
