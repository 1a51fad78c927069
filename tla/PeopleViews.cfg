CONSTANTS
    MaxSyncs = 3
    MaxEdits = 1
    MaxMoves = 2
    MaxBreaks = 1
    MaxErrors = 1
    MaxEvents = 3
    Peers = {1, 2}
    MaxOrders = 2
    MaxLetters = 2
    MaxLosses = 1
    MaxRefusals = 1
    Texts = {1, 2}
    Rooms = {1, 2}
    LastPage = 3
    MaxSearches = 4
    MaxTurns = 2
    Accounts = {1, 2}
    MaxFlows = 3
    MaxEndpoints = 2
    MaxLogins = 3
    MaxSessions = 2
    MaxDetaches = 2
    MaxDown = 2
    MaxCalls = 1
    MaxOutages = 1
    Channels = {1, 2}
    Throttle = 1
    Inactivity = 2
    Ttl = 3
    MaxWay = 2
SPECIFICATION Spec
INVARIANTS
    ServerListSettles
    DMListRight
    ResultsAreOneSearch
    PushIsOwn
    RosterSettles
    TypingIsTold
PROPERTY ConversationStays
CHECK_DEADLOCK FALSE
