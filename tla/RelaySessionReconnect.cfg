SPECIFICATION Spec
CONSTANTS
    Docs = {d1}
    MaxSessions = 2
    MaxTime = 3
    MaxQueue = 1
    ResumeTTL = 0
    SessionTTL = 1
    Interval = 1
    Timeout = 1
CHECK_DEADLOCK FALSE
INVARIANTS
    TokenAgreement
    FreshIsTracked
    SilentPeerGone
