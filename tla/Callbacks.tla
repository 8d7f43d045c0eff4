------------------------------- MODULE Callbacks -------------------------------
(***************************************************************************)
(* One UDPClient between threads that call sendAndSaveCallback and peers   *)
(* that answer every question once.  Every call hands over a new callback  *)
(* object (a std::unique_ptr), so callbacks are told apart here.           *)
(***************************************************************************)
EXTENDS UDPClient

CONSTANT NoPeer

ASSUME CallbacksAssumption == NoPeer \notin Peer

VARIABLES
    asked,   \* history: the peer each callback was handed over for
    ran      \* history: the callbacks the receiver thread has started

callbacksVars == <<toPeer, toClient, callbackMap, sending, handling, asked, ran>>

CallbacksInit ==
    /\ UDPInit
    /\ asked = [cb \in Callback |-> NoPeer]
    /\ ran = {}

sendAndSaveCallback(c, p, q, cb) ==
    /\ asked[cb] = NoPeer
    /\ SendQuestion(c, p, q, cb)
    /\ asked' = [asked EXCEPT ![cb] = p]
    /\ UNCHANGED ran

Save(c) ==
    /\ SaveCallback(c)
    /\ UNCHANGED <<asked, ran>>

handleReceiveAndCheckIfEnd(p, m) ==
    /\ Receive(p, m)
    /\ ran' = ran \cup ({callbackMap[p]} \ {NoCallback})
    /\ UNCHANGED asked

callbackOnReceive ==
    /\ CallbackReturns
    /\ UNCHANGED <<asked, ran>>

PeerAnswers(p, q) ==
    /\ \E m \in Answer : PeerTakes(p, q, {m})
    /\ UNCHANGED <<asked, ran>>

Lose(p) ==
    /\ "lose" \in Faults
    /\ \/ \E q \in toPeer[p] : LoseQuestion(p, q)
       \/ \E m \in toClient[p] : LoseAnswer(p, m)
    /\ UNCHANGED <<asked, ran>>

CallbacksNext ==
    \/ \E c \in Caller, p \in Peer, q \in Question, cb \in Callback :
          sendAndSaveCallback(c, p, q, cb)
    \/ \E c \in Caller : Save(c)
    \/ \E p \in Peer, m \in Answer : handleReceiveAndCheckIfEnd(p, m)
    \/ callbackOnReceive
    \/ \E p \in Peer, q \in Question : PeerAnswers(p, q)
    \/ \E p \in Peer : Lose(p)

CallbacksSpec == CallbacksInit /\ [][CallbacksNext]_callbacksVars
-----------------------------------------------------------------------------
\* Every variable of the client and of its history has its type.
CallbacksTypeOK ==
    /\ UDPTypeOK
    /\ asked \in [Callback -> Peer \cup {NoPeer}]
    /\ ran \subseteq Callback

\* The receiver thread runs a callback only on a datagram of the very peer the
\* callback was handed over for, whatever overtook, replaced or repeated what
\* (handleReceiveAndCheckIfEnd looks the sender up in callbackMap).
CallbackMeetsItsPeer ==
    (handling # Nothing /\ handling[3] # NoCallback) =>
        asked[handling[3]] = handling[1]

\* A callback that was started is nowhere else any more: neither saved again nor
\* about to be saved.  Hence no callback runs twice, although datagrams may be
\* delivered twice (the unique_ptr is moved out of the map before it is used).
StartedOnce ==
    /\ \A p \in Peer : callbackMap[p] \notin ran
    /\ \A c \in Caller : sending[c] # NotSending => sending[c][2] \notin ran

\* What the comment on sendAndSaveCallback promises of a network that loses
\* nothing: once every call has returned and every datagram was delivered, every
\* callback was called.
EveryCallbackIsCalled ==
    (/\ \A c \in Caller : sending[c] = NotSending
     /\ \A p \in Peer : toPeer[p] = {} /\ toClient[p] = {}
     /\ handling = Nothing)
    => \A cb \in Callback : asked[cb] # NoPeer => cb \in ran
=============================================================================
