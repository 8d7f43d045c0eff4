SPECIFICATION CallbacksSpec
CONSTANTS
    Caller = {t1}
    Peer = {p1}
    Question = {q1}
    Answer = {m1}
    Callback = {cb1}
    NoCallback = NoCallback
    NoPeer = NoPeer
    Faults = {}
INVARIANT EveryCallbackIsCalled
CHECK_DEADLOCK FALSE
