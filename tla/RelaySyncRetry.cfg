SPECIFICATION Spec
CONSTANTS
    Sessions = {s1, s2}
    Conns = {c1, c2}
    Updates = {u1, u2}
    Bases = {0, 1}
    HydrateSeqs = {1}
    NoConn = NoConn
    NoSession = NoSession
    NoUpdate = NoUpdate
SYMMETRY Symmetry
CHECK_DEADLOCK FALSE
INVARIANTS
    ExactlyOnce
    AckAgreement
    NoLostUpdate
    NoGhostSession
PROPERTIES
    LogRefinement
