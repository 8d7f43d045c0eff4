SPECIFICATION PipeFairSpec
CONSTANTS
    Config = {a, b, x}
    Exiting = {x}
    Silent = {b}
    Central = Central
    Blank = Blank
    Unread = Unread
    Other = Other
    PipeFaults = {"kill", "restart"}
INVARIANTS PipeTypeOK CalmService OnlySentIsExecuted
PROPERTIES ConfigsReturn
CHECK_DEADLOCK FALSE
