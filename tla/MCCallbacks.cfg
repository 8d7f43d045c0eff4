SPECIFICATION CallbacksSpec
CONSTANTS
    Caller = {t1, t2}
    Peer = {p1, p2}
    Question = {q1}
    Answer = {m1}
    Callback = {cb1, cb2, cb3}
    NoCallback = NoCallback
    NoPeer = NoPeer
    Faults = {"lose", "duplicate"}
INVARIANTS CallbackMeetsItsPeer StartedOnce
CHECK_DEADLOCK FALSE
