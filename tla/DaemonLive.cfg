SPECIFICATION LiveSpec
CONSTANTS
    Paths = {1}
    Jobs = {1, 2}
    IdleTimeout = 1
    MinInterval = 1
    MaxBatch = 2
    RedactPolicies = {"redacted"}
    MaxEdits = 2
    MaxOthers = 2
    ObUpdates = {1, 2}
    ObWorkspaces = {1, 2}
    MAX_PENDING_UPDATES = 1
    MAX_ATTEMPTS = 3
    BASE_DELAY = 1
    MAX_DELAY = 3
    ObMaxCrashes = 1
    LocalEdits = {"l1", "l2"}
    RemoteEdits = {"r1", "r2"}
    DebounceWindow = 1
    PauseDuration = 2
    MaxRemovals = 1
    Agents = {"a", "b"}
    LeaseSections = {1}
    Ttls = {0, 1, 2}
    AgMaxCalls = 4
    AgMaxFailures = 1
    AgMaxTime = 4

    
    
PROPERTIES
    
    ObSpaced
    ObSettles
    
CHECK_DEADLOCK FALSE
