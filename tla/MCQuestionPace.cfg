\* Three threads ask one sensor; three seconds make a question due.
CONSTANTS
    Caller = {script, web, polling}
    Addr = {s1}
    Reading = {r1}
    NoReading = NoReading
    Threshold = {500, 1000}
    DefaultThreshold = 1000
    MaxAnswerTime = 3
SPECIFICATION Spec
INVARIANTS ListTypeOK SilenceIsReal LateIsReported
PROPERTIES PaceIsKept
