------------------------------- MODULE UDPClient -------------------------------
(***************************************************************************)
(* class common::UDPClient (common/src/udp_client.cpp) and the datagrams   *)
(* between it and the peers it sends to.  sendAndSaveCallback first sends  *)
(* and only then, under callbackMapMutex, saves the callback: these are    *)
(* two steps of the calling thread (SendQuestion, SaveCallback).  The      *)
(* receiver thread takes a datagram and moves its callback out of the map  *)
(* (Receive), then runs it outside the mutex (the step of the using module *)
(* that contains CallbackReturns).                                         *)
(*                                                                         *)
(* Datagrams are kept per peer in sets: they overtake one another; they    *)
(* are lost or delivered twice where Faults says so.                       *)
(***************************************************************************)
EXTENDS Integers

CONSTANTS
    Caller,       \* threads that call sendAndSaveCallback
    Peer,         \* Addresses (host and port) a datagram is sent to
    Question,     \* what is sent to peers
    Answer,       \* what peers send back
    Callback,     \* the callback objects
    NoCallback,   \* nothing saved in callbackMap: the default callback runs
    Faults        \* the faults of network and host a run looks at

ASSUME UDPClientAssumption ==
    /\ NoCallback \notin Callback
    /\ Faults \subseteq {"lose", "duplicate", "sendfail", "die", "restart"}

VARIABLES
    toPeer,        \* datagrams on their way to each peer
    toClient,      \* datagrams from each peer on their way to receiveSocket
    callbackMap,   \* the callback saved for each peer
    sending,       \* per caller: the call that has sent and not saved yet
    handling       \* what the receiver thread is running a callback on

udpVars == <<toPeer, toClient, callbackMap, sending, handling>>

NotSending == <<>>
Nothing == <<>>

Sending == Peer \X Callback
Handling == Peer \X Answer \X (Callback \cup {NoCallback})

UDPInit ==
    /\ toPeer = [p \in Peer |-> {}]
    /\ toClient = [p \in Peer |-> {}]
    /\ callbackMap = [p \in Peer |-> NoCallback]
    /\ sending = [c \in Caller |-> NotSending]
    /\ handling = Nothing

\* sendAndSaveCallback up to the return of sendto.
SendQuestion(c, p, q, cb) ==
    /\ sending[c] = NotSending
    /\ toPeer' = [toPeer EXCEPT ![p] = @ \cup {q}]
    /\ sending' = [sending EXCEPT ![c] = <<p, cb>>]
    /\ UNCHANGED <<toClient, callbackMap, handling>>

\* The critical section of sendAndSaveCallback: what was saved is replaced.
SaveCallback(c) ==
    /\ sending[c] # NotSending
    /\ callbackMap' = [callbackMap EXCEPT ![sending[c][1]] = sending[c][2]]
    /\ sending' = [sending EXCEPT ![c] = NotSending]
    /\ UNCHANGED <<toPeer, toClient, handling>>

\* Mutant: the callback stays in the map.
ReceiveKeeping(p, m) ==
    /\ handling = Nothing
    /\ m \in toClient[p]
    /\ handling' = <<p, m, callbackMap[p]>>
    /\ toClient' = [toClient EXCEPT ![p] = @ \ {m}]
    /\ UNCHANGED <<toPeer, callbackMap, sending>>

\* Mutant: keys of the map compare equal whatever the address.
ReceiveAnyCallback(p, m) ==
    /\ handling = Nothing
    /\ m \in toClient[p]
    /\ \E r \in Peer :
          /\ handling' = <<p, m, callbackMap[r]>>
          /\ callbackMap' = [callbackMap EXCEPT ![r] = NoCallback]
    /\ toClient' = [toClient EXCEPT ![p] = @ \ {m}]
    /\ UNCHANGED <<toPeer, sending>>

\* recvfrom and the critical section of handleReceiveAndCheckIfEnd.
Receive(p, m) ==
    /\ handling = Nothing
    /\ m \in toClient[p]
    /\ handling' = <<p, m, callbackMap[p]>>
    /\ callbackMap' = [callbackMap EXCEPT ![p] = NoCallback]
    /\ \/ toClient' = [toClient EXCEPT ![p] = @ \ {m}]
       \/ /\ "duplicate" \in Faults
          /\ UNCHANGED toClient
    /\ UNCHANGED <<toPeer, sending>>

\* callbackOnReceive returns and the receiver thread goes back to recvfrom.
CallbackReturns ==
    /\ handling # Nothing
    /\ handling' = Nothing
    /\ UNCHANGED <<toPeer, toClient, callbackMap, sending>>

\* A peer takes a question and answers with the messages in answers.
PeerTakes(p, q, answers) ==
    /\ q \in toPeer[p]
    /\ toClient' = [toClient EXCEPT ![p] = @ \cup answers]
    /\ \/ toPeer' = [toPeer EXCEPT ![p] = @ \ {q}]
       \/ /\ "duplicate" \in Faults
          /\ UNCHANGED toPeer
    /\ UNCHANGED <<callbackMap, sending, handling>>

LoseQuestion(p, q) ==
    /\ q \in toPeer[p]
    /\ toPeer' = [toPeer EXCEPT ![p] = @ \ {q}]
    /\ UNCHANGED <<toClient, callbackMap, sending, handling>>

LoseAnswer(p, m) ==
    /\ m \in toClient[p]
    /\ toClient' = [toClient EXCEPT ![p] = @ \ {m}]
    /\ UNCHANGED <<toPeer, callbackMap, sending, handling>>

UDPTypeOK ==
    /\ toPeer \in [Peer -> SUBSET Question]
    /\ toClient \in [Peer -> SUBSET Answer]
    /\ callbackMap \in [Peer -> Callback \cup {NoCallback}]
    /\ sending \in [Caller -> Sending \cup {NotSending}]
    /\ handling \in Handling \cup {Nothing}
=============================================================================
