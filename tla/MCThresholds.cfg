SPECIFICATION Spec
CONSTANTS
    Addr = {s1}
    Reading = {400, 600}
    NoReading = NoReading
    Threshold <- MCThreshold
    DefaultThreshold = 1000
    MaxAnswerTime = 1
    Caller = {"script", "web"}
    Peer <- MCPeer
    Question <- MCQuestion
    Answer <- MCAnswer
    Callback = {"set_threshold", "get_value"}
    NoCallback = "none"
    Faults = {"duplicate", "lose", "die", "restart"}
    Command = {"add_sensor", "erase_sensor", "set_threshold"}
    Input <- MCInput
    ReadingOf <- MCReadingOf
    Unmeasured = 400
    GetValue = GetValue
INVARIANTS TypeOK ReportedThresholdWasApplied
PROPERTY ListProtocol
