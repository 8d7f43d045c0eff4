SPECIFICATION FairSpec
CONSTANTS
    Addr = {s1}
    Reading = {400}
    NoReading = NoReading
    Threshold <- MCThreshold
    DefaultThreshold = 1000
    MaxAnswerTime = 1
    Caller = {"script", "polling"}
    Peer <- MCPeer
    Question <- MCQuestion
    Answer <- MCAnswer
    Callback = {"set_threshold", "get_value"}
    NoCallback = "none"
    Faults = {"die"}
    Command = {"add_sensor"}
    Input <- OneInput
    ReadingOf <- AnyReadingOf
    Unmeasured = 400
    GetValue = GetValue
PROPERTIES SilentIsReported RunningIsCorrect
