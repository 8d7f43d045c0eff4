\* Up to three sensors against a loop time of two milliseconds.
CONSTANTS
    LoopTime = 2
    MaxSensors = 3
    Buffer = 1
    StartFaults = {"inuse", "sendfail", "unresolved", "receivefail"}
SPECIFICATION Spec
INVARIANTS LastSaveIsMains OwnersOutliveThreads
PROPERTIES ExitEnds PollingGoesOn
CHECK_DEADLOCK FALSE
