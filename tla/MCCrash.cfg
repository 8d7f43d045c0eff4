SPECIFICATION Spec
CONSTANTS
    Addr = {s1}
    Reading = {600}
    NoReading = NoReading
    Threshold <- MCThreshold
    DefaultThreshold = 1000
    MaxAnswerTime = 1
    Caller = {"script", "polling"}
    Peer <- MCPeer
    Question <- MCQuestion
    Answer <- MCAnswer
    Callback = {"set_threshold", "get_value"}
    NoCallback = "none"
    Faults = {"sendfail"}
    Command = {"add_sensor", "erase_sensor", "ask_for_values"}
    Input <- OneInput
    ReadingOf <- AnyReadingOf
    Unmeasured = 600
    GetValue = GetValue
INVARIANT CrashHasCause
