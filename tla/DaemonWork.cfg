SPECIFICATION WorkSpec
CONSTANTS
    LibClients = {1, 2}
    LibPaths = {"a", "b"}
    LibRenames = {"", "b", "c"}
    LibLinks <- MCLibLinks
    LibDocs = {1, 2}
    LibMaxCalls = 3
    Standalone = {1}
    Embedded = {3}
    TakeoverRetries = 1
    CliCalls = {1}
    CONNECT_RETRIES = 1
    CliMaxTimeouts = 1
    Callers = {1, 2}
    RootDirs = {"r", "s", "t"}
    MarkdownFiles <- MCMarkdownFiles
    PathNorm <- MCPathNorm
    WkMaxCalls = 3
    WkMaxRestarts = 1
    WkMaxSpoils = 1
    KeyDaemons = {1, 2}
    KeyMaxFrames = 3
    KeyMaxStarts = 4
    KeyMaxFailures = 2
    KeyMaxLoosened = 1
    UpTasks = {1, 2}
    UpMaxPublished = 2
    UpMaxRestarts = 1
    UpMaxErrors = 1
    UpConfigs <- MCUpConfigs
INVARIANTS
    
    
    WkSound
    
    UpForward
CHECK_DEADLOCK FALSE
