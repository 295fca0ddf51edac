SPECIFICATION TextSpec
CONSTANTS
    StoreUpdates = {1, 2}
    Subscribers = {1, 2}
    IntervalUpdates = 2
    Retain = 2
    MaxSeq = 3
    MaxStoreCrashes = 1
    MaxSnapshots = 2
    UpdateBytes = {1, 2}
    Savers = {1, 2}
    MaxRun = 2
    SNAPSHOT_INTERVAL_UPDATES = 2
    SNAPSHOT_INTERVAL_MINUTES = 2
    MaxReplayOps = 2
    SnapMaxUpdates = 4
    SnapMaxTime = 2
    SnapMaxCrashes = 1
    YjsClients = {1, 2}
    YjsUpdates = {1}
    UPDATE_BUFFER_SIZE = 1
    YjsMaxReconnects = 1
    YjsMaxFaults = 1
    PresSessions = {1, 2}
    PresDocs = {1, 2}
    PeerStates = {"a"}
    NamedStates = {"a"}
    PresMaxFrames = 2
    Announcements <- MCAnnouncements
    OwnWorkspace = "w"
    MaxPackets = 3
    NameBytes = 3
    Chars = {"a", "n", "w"}
    Newline = "n"
    WideChars = {"w"}
    MaxText = 3
    LINE_DIFF_THRESHOLD = 5
    MAX_LCS_CELLS = 4
    HeadingTexts = {"A", "!"}
    Slug <- MCSlug
    Levels = {1, 2}
    TextLines = {"x"}
    MaxLines = 3
    MaxUpdates = 4
    Origins = {"none", "p"}
INVARIANTS
    StoreSound
    
    YjsNotLost
    
    
    DiffSound
    
CHECK_DEADLOCK FALSE
