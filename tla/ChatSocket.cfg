CONSTANTS
    load = load
    search = search
    open = open
    conversation = conversation
    nothing = nothing
    message = message
    Cmds = {load, search, open}
    Kind <- OneOfEach
    Topic <- Conversation
    Broadcasts = {conversation, message}
    MaxLosses = 1
    MaxExpiries = 1
    None = None
SPECIFICATION FairSpec
PROPERTIES
    AnswersFindTheirCommand
    EveryCommandSettles
    ReconnectsWhileTokenLasts
CHECK_DEADLOCK FALSE
