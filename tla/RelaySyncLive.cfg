SPECIFICATION FairSpec
CONSTANTS
    Sessions = {s1, s2}
    Conns = {c1, c2}
    Updates = {u1}
    Bases = {0}
    HydrateSeqs = {}
    NoConn = NoConn
    NoSession = NoSession
    NoUpdate = NoUpdate
CHECK_DEADLOCK FALSE
PROPERTIES
    EventuallyDelivered
