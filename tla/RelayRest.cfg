SPECIFICATION RestSpec
CONSTANTS
    DocUsers = {"u1", "u2"}
    DocIds = {1, 2, 3, 4}
    AclIds = {1}
    DocCalls <- MCDocCalls
    DocInit <- MCDocInit
    DocInitRoles <- MCDocInitRoles
    DocMaxCalls = 3
    DocMaxRoles = 1
    ComUsers = {"u1", "u2"}
    ComDocs = {1}
    ComThreads = {1, 2}
    ComCalls <- MCComCalls
    ComInitRoles <- MCComInitRoles
    ComMaxCalls = 4
    ComMaxDeletes = 1
    IdemClients = {1, 2}
    IdemScopes = {1, 2}
    IdemKeys = {1}
    IdemBodies = {1, 2}
    IdemTtl = 1
    IdemMaxCalls = 4
    IdemMaxTime = 1
    FoundDocs = {1, 2, 3}
    Scores = {0, 1, 2}
    SearchLimits = {0, 1}
    SearchMaxWrites = 2
    SearchMaxRequests = 4
    WsUsers = {1, 2, 3}
    WsIds = {1, 2}
    InviteIds = {1}
    WsCalls <- MCWsCalls
    WsInitMembers <- MCWsInitMembers
    WsMaxCalls = 3
    ShUsers = {1, 2}
    LinkIds = {1, 2}
    ShCalls <- MCShCalls
    ShMaxCalls = 3
    ShMaxTime = 3
    RedeemMax = 1
    RedeemWindow = 1
    AuthClients = {1, 2}
    AuthCalls <- MCAuthCalls
    AuthMaxCalls = 4
    AuthMaxTime = 1
    RateMax = 2
    RateWindow = 1
    FlowTtl = 1
    RefreshTtl = 0
    AccessTtl = 1
INVARIANTS
    RequestsGuarded
    WalksComplete
    RetriesTold
    WorkspaceKept
    UsesBounded
    TokensDie
    
CHECK_DEADLOCK FALSE
