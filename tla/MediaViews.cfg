CONSTANTS
    MaxTracks = 3
    MaxSenders = 2
    MaxMoves = 4
    MaxResets = 1
    Reports <- SomeReports
    MaxTrackers = 2
    MaxReadings = 2
    MaxTracksOf = 3
    Sheets = {1, 2, 3}
    MaxForwards = 1
    MaxTraversals = 2
SPECIFICATION Spec
INVARIANTS
    MutedIsSilent
    DevicesFollow
    RemoteVideoSettles
    LevelIsEarned
    PlayerObeys
    OneEntryEach
CHECK_DEADLOCK FALSE
