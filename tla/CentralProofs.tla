----------------------------- MODULE CentralProofs -----------------------------
(***************************************************************************)
(* Central for every set of sensors, thresholds, values and calling        *)
(* threads, and every combination of faults.  CentralInv says what is      *)
(* under way: every datagram from a sensor, and the one the receiver       *)
(* thread has in hand, carries something of that sensor; every callback    *)
(* waits at the port whose answers it can read; every address the polling  *)
(* thread still works on is registered or was erased since its snapshot.   *)
(***************************************************************************)
EXTENDS Central, SensorListProofs

\* Callbacks wait where the answers they expect come from.
CallbackFits ==
    /\ \A p \in Peer : callbackMap[p] # NoCallback => p[2] = PortOf(callbackMap[p])
    /\ \A c \in Caller : sending[c] # NotSending =>
          sending[c][1][2] = PortOf(sending[c][2])
    /\ (handling # Nothing /\ handling[3] # NoCallback) =>
          handling[1][2] = PortOf(handling[3])

UDPInv == UDPTypeOK /\ CallbackFits

\* What a datagram from peer p may carry.
OwnAnswer(p, m) ==
    IF p[2] = "sensor_port1" THEN m \in applied[p[1]] ELSE m \in ReadingOf[p[1]] \cup {Unmeasured}

SensorInv ==
    /\ alarms \in [Addr -> SUBSET Reading]
    /\ alive \subseteq Addr
    /\ measured \subseteq alive
    /\ sensorThreshold \in [Addr -> Threshold]
    /\ applied \in [Addr -> SUBSET Threshold]
    /\ \A a \in Addr : DefaultThreshold \in applied[a]
    /\ \A a \in Addr : alarms[a] \subseteq ReadingOf[a]
    /\ \A p \in Peer : \A m \in toClient[p] : OwnAnswer(p, m)
    /\ handling # Nothing => OwnAnswer(handling[1], handling[2])

\* The list and the file only hold what the sensors had to say.
ShownIsOwn ==
    /\ \A a \in Addr :
          /\ info[a].threshold \in applied[a]
          /\ info[a].value \in ReadingOf[a] \cup {NoReading, Unmeasured}
    /\ DOMAIN file \subseteq Addr
    /\ \A a \in DOMAIN file : file[a] \in applied[a]

CallInv ==
    /\ call \in [Caller -> Call \cup {Idle}]
    /\ todo \subseteq Addr
    /\ polled \in BOOLEAN
    /\ up \in BOOLEAN
    /\ gone \subseteq Addr
    /\ sendFailed \in BOOLEAN

\* The polling thread only works on addresses of its snapshot.
PollingKnows ==
    /\ todo \subseteq registered \cup gone
    /\ ~polled => todo = {}
    /\ "polling" \in Caller =>
          /\ call["polling"] # Idle => call["polling"].addr \in registered \cup gone
          /\ ~polled => call["polling"] = Idle
    /\ CrashHasCause

CentralInv ==
    /\ ListInv
    /\ UDPInv
    /\ SensorInv
    /\ ShownIsOwn
    /\ CallInv
    /\ PollingKnows

\* The peer of a sensor's port, taken apart again.
LEMMA PeerOfFacts ==
    ASSUME NEW op \in Callback, NEW a \in Addr
    PROVE  /\ PeerOf(op, a) \in Peer
           /\ PeerOf(op, a)[1] = a
           /\ PeerOf(op, a)[2] = PortOf(op)
BY CentralAssumption DEF PeerOf, PortOf, Port

\* A peer is a sensor's address and one of its two ports.
LEMMA PeerParts ==
    ASSUME NEW p \in Peer
    PROVE  p[1] \in Addr /\ p[2] \in Port
BY CentralAssumption

\* What central starts with satisfies the invariant.
LEMMA CentralInitInv == Init => CentralInv
<1> SUFFICES ASSUME Init PROVE CentralInv
  OBVIOUS
<1>1. ListInv
  BY ListInitInv DEF Init
<1>2. UDPInv
  BY UDPClientAssumption DEF Init, UDPInit, UDPInv, UDPTypeOK, CallbackFits, NotSending, Nothing
<1>3. SensorInv
  BY SensorListAssumption DEF Init, UDPInit, SensorInv, Nothing
<1>4. ShownIsOwn
  BY DEF Init, ListInit, NewSensorInfo, ShownIsOwn
<1>5. CallInv /\ PollingKnows
  BY DEF Init, CallInv, PollingKnows, CrashHasCause
<1> QED BY <1>1, <1>2, <1>3, <1>4, <1>5 DEF CentralInv

\* Answers and alarms are stored with values of the list's types, so every step
\* of central is a step of SensorList or leaves the list alone.
LEMMA CentralListStep == CentralInv /\ [Next]_vars => [ListNext]_listVars
<1> SUFFICES ASSUME CentralInv, [Next]_vars PROVE [ListNext]_listVars
  OBVIOUS
<1>1. ASSUME UserStep PROVE [ListNext]_listVars
  BY <1>1
  DEF UserStep, Communicator_add_sensor, Communicator_erase_sensor,
      Communicator_set_threshold, Communicator_ask_for_values, ListNext
<1>2. ASSUME NEW c \in Caller, Mark(c) PROVE [ListNext]_listVars
  <2>1. call[c].addr \in Addr
    BY <1>2 DEF CentralInv, CallInv, Mark, Call, Idle
  <2> QED BY <1>2, <2>1 DEF Mark, ListNext
<1>3. ASSUME NEW c \in Caller, Check(c) \/ Send(c) \/ SaveCallbackStep(c) \/ SendFails(c)
      PROVE  [ListNext]_listVars
  BY <1>3 DEF Check, Send, SaveCallbackStep, SendFails
<1>4. ASSUME Polling PROVE [ListNext]_listVars
  BY <1>4 DEF Polling, PollSnapshot, PollAsk, write_to_file
<1>5. ASSUME callbackOnReceive PROVE [ListNext]_listVars
  <2> DEFINE a == handling[1][1]
             m == handling[2]
  <2>1. /\ handling # Nothing
        /\ handling[1] \in Peer
        /\ handling[3] \in Callback \cup {NoCallback}
        /\ handling[3] # NoCallback => handling[1][2] = PortOf(handling[3])
        /\ OwnAnswer(handling[1], m)
    BY <1>5
    DEF callbackOnReceive, CallbackReturns, CentralInv, UDPInv, UDPTypeOK, Handling,
        CallbackFits, SensorInv
  <2>2. a \in Addr
    BY <2>1, PeerParts
  <2>3. handling[3] = "set_threshold" => m \in Threshold
    BY <2>1, <2>2, UDPClientAssumption, CentralAssumption
    DEF OwnAnswer, PortOf, CentralInv, SensorInv
  <2>4. handling[3] = "get_value" => m \in Reading
    BY <2>1, <2>2, UDPClientAssumption, CentralAssumption
    DEF OwnAnswer, PortOf
  <2>5. \/ handling[3] = "set_threshold" /\ SensorList_set_threshold(a, m)
        \/ handling[3] = "get_value" /\ SensorList_set_values(a, m)
        \/ UNCHANGED listVars
    BY <1>5 DEF callbackOnReceive
  <2> HIDE DEF a, m
  <2> QED BY <2>2, <2>3, <2>4, <2>5 DEF ListNext
<1>6. ASSUME NEW p \in Peer, NEW m \in Answer, ReceiveStep(p, m) PROVE [ListNext]_listVars
  BY <1>6 DEF ReceiveStep
<1>7. ASSUME NEW a \in Addr, NEW v \in Reading, AlarmReceived(a, v)
      PROVE  [ListNext]_listVars
  BY <1>7 DEF AlarmReceived, ListNext
<1>8. ASSUME SensorStep \/ NetworkStep PROVE [ListNext]_listVars
  BY <1>8
  DEF SensorStep, SensorAnswers, SensorSetsThreshold, SensorAnswersValue, SensorMeasures,
      SensorDies, SensorRestarts, NetworkStep, Unheard, Lose, LoseAlarm
<1>9. ASSUME Tick PROVE [ListNext]_listVars
  BY <1>9 DEF Tick, ListNext
<1>10. CASE UNCHANGED vars
  BY <1>10 DEF vars
<1> QED
  BY <1>1, <1>2, <1>3, <1>4, <1>5, <1>6, <1>7, <1>8, <1>9, <1>10
  DEF Next, CentralStep, CallStep, ReceiverStep, AlarmStep

\* The threads' use of UDPClient keeps callbacks at the right ports.
LEMMA CentralUDPInv == CentralInv /\ [Next]_vars => UDPInv'
<1> SUFFICES ASSUME CentralInv, [Next]_vars PROVE UDPInv'
  OBVIOUS
<1>t. UDPTypeOK /\ CallbackFits /\ SensorInv /\ CallInv
  BY DEF CentralInv, UDPInv
<1>1. ASSUME NEW c \in Caller, Send(c) PROVE UDPInv'
  <2> DEFINE op == call[c].op
             a == call[c].addr
             q == call[c].question
  <2>1. op \in Callback /\ a \in Addr /\ q \in Question
    BY <1>1, <1>t DEF CallInv, Send, Call, Idle
  <2>2. SendQuestion(c, PeerOf(op, a), q, op)
    BY <1>1 DEF Send
  <2>3. /\ PeerOf(op, a) \in Peer
        /\ PeerOf(op, a)[2] = PortOf(op)
    BY <2>1, PeerOfFacts
  <2> HIDE DEF op, a, q
  <2>4. UDPTypeOK'
    BY <1>t, <2>1, <2>2, <2>3 DEF UDPTypeOK, SendQuestion, Sending
  <2>5. CallbackFits'
    BY <1>t, <2>1, <2>2, <2>3 DEF UDPTypeOK, SendQuestion, CallbackFits
  <2> QED BY <2>4, <2>5 DEF UDPInv
<1>2. ASSUME NEW c \in Caller, SaveCallbackStep(c) PROVE UDPInv'
  <2>1. sending[c][1] \in Peer /\ sending[c][2] \in Callback
    BY <1>2, <1>t DEF SaveCallbackStep, SaveCallback, UDPTypeOK, Sending
  <2>2. UDPTypeOK'
    BY <1>2, <1>t, <2>1 DEF SaveCallbackStep, SaveCallback, UDPTypeOK
  <2>3. CallbackFits'
    BY <1>2, <1>t, <2>1 DEF SaveCallbackStep, SaveCallback, UDPTypeOK, CallbackFits
  <2> QED BY <2>2, <2>3 DEF UDPInv
<1>3. ASSUME NEW p \in Peer, NEW m \in Answer, ReceiveStep(p, m) PROVE UDPInv'
  <2>1. UDPTypeOK'
    BY <1>3, <1>t DEF ReceiveStep, Receive, UDPTypeOK, Handling
  <2>2. CallbackFits'
    BY <1>3, <1>t, UDPClientAssumption DEF ReceiveStep, Receive, UDPTypeOK, CallbackFits
  <2> QED BY <2>1, <2>2 DEF UDPInv
<1>4. ASSUME callbackOnReceive PROVE UDPInv'
  BY <1>4, <1>t DEF callbackOnReceive, CallbackReturns, UDPTypeOK, CallbackFits, UDPInv
<1>5. ASSUME NEW p \in Peer, NEW q, NEW answers \in SUBSET Answer, PeerTakes(p, q, answers)
      PROVE  UDPInv'
  BY <1>5, <1>t DEF PeerTakes, UDPTypeOK, CallbackFits, UDPInv
<1>6. ASSUME NEW a \in Addr, SensorAnswers(a) PROVE UDPInv'
  <2>1. ASSUME NEW t \in Input, SensorSetsThreshold(a, t) PROVE UDPInv'
    <3>1. SensorAccepts(t) => WholePart(t) \in Answer
      BY CentralAssumption
    <3>2. PeerOf("set_threshold", a) \in Peer
      BY PeerOfFacts, CentralAssumption
    <3> QED BY <2>1, <3>1, <3>2, <1>5 DEF SensorSetsThreshold
  <2>2. ASSUME SensorAnswersValue(a) PROVE UDPInv'
    <3>1. PeerOf("get_value", a) \in Peer /\ ReadingOf[a] \cup {Unmeasured} \subseteq Answer
      BY PeerOfFacts, CentralAssumption
    <3> QED BY <2>2, <3>1, <1>5 DEF SensorAnswersValue
  <2> QED BY <1>6, <2>1, <2>2 DEF SensorAnswers
<1>7. ASSUME NEW p \in Peer, NEW m, LoseQuestion(p, m) \/ LoseAnswer(p, m)
      PROVE  UDPInv'
  BY <1>7, <1>t DEF LoseQuestion, LoseAnswer, UDPTypeOK, CallbackFits, UDPInv
<1>8. ASSUME NEW a \in Addr, Unheard(a) PROVE UDPInv'
  BY <1>8, <1>7, PeerOfFacts DEF Unheard
<1>9. ASSUME NEW p \in Peer, Lose(p) PROVE UDPInv'
  BY <1>9, <1>7 DEF Lose
<1>10. ASSUME UNCHANGED udpVars PROVE UDPInv'
  BY <1>10, <1>t DEF udpVars, UDPTypeOK, CallbackFits, UDPInv
<1>11. ASSUME \/ UserStep
              \/ \E c \in Caller : Check(c) \/ Mark(c) \/ SendFails(c)
              \/ Polling
              \/ AlarmStep
              \/ \E a \in Addr : SensorMeasures(a) \/ SensorDies(a) \/ SensorRestarts(a)
              \/ \E a \in Addr : LoseAlarm(a)
              \/ Tick
              \/ UNCHANGED vars
       PROVE  UNCHANGED udpVars
  BY <1>11
  DEF UserStep, Communicator_add_sensor, Communicator_erase_sensor,
      Communicator_set_threshold, Communicator_ask_for_values, Check, Mark, SendFails,
      Polling, PollSnapshot, PollAsk, write_to_file, AlarmStep, AlarmReceived,
      SensorMeasures, SensorDies, SensorRestarts, LoseAlarm, Tick, vars
<1> QED
  BY <1>1, <1>2, <1>3, <1>4, <1>6, <1>8, <1>9, <1>10, <1>11
  DEF Next, CentralStep, CallStep, ReceiverStep, SensorStep, NetworkStep

\* Sensors only put their own thresholds and values on the way, and neither the
\* network nor the receiver thread turns them into another sensor's.
LEMMA CentralSensorInv == CentralInv /\ [Next]_vars => SensorInv'
<1> SUFFICES ASSUME CentralInv, [Next]_vars PROVE SensorInv'
  OBVIOUS
<1>t. UDPTypeOK /\ SensorInv
  BY DEF CentralInv, UDPInv
<1>1. ASSUME NEW p \in Peer, NEW m \in Answer, ReceiveStep(p, m) PROVE SensorInv'
  BY <1>1, <1>t DEF ReceiveStep, Receive, UDPTypeOK, SensorInv, OwnAnswer, sensorVars
<1>2. ASSUME callbackOnReceive PROVE SensorInv'
  BY <1>2, <1>t
  DEF callbackOnReceive, CallbackReturns, UDPTypeOK, SensorInv, OwnAnswer, sensorVars
<1>3. ASSUME NEW a \in Addr, NEW v \in Reading, AlarmReceived(a, v) PROVE SensorInv'
  BY <1>3, <1>t DEF AlarmReceived, udpVars, SensorInv, OwnAnswer
<1>4. ASSUME NEW a \in Addr, NEW t \in Input, SensorSetsThreshold(a, t) PROVE SensorInv'
  <2> DEFINE p == PeerOf("set_threshold", a)
             w == WholePart(t)
  <2>1. p \in Peer /\ p[1] = a /\ p[2] = "sensor_port1"
    BY PeerOfFacts, CentralAssumption DEF PortOf
  <2>2. \A r \in Peer : r[1] \in Addr
    BY PeerParts
  <2>3. CASE SensorAccepts(t)
    <3>1. w \in Threshold
      BY <2>3, CentralAssumption
    <3>2. /\ PeerTakes(p, t, {w})
          /\ sensorThreshold' = [sensorThreshold EXCEPT ![a] = w]
          /\ applied' = [applied EXCEPT ![a] = @ \cup {w}]
          /\ UNCHANGED <<alarms, alive, measured>>
      BY <1>4, <2>3 DEF SensorSetsThreshold
    <3> HIDE DEF p, w
    <3>3. /\ \A r \in Peer : \A m \in toClient'[r] : m \in toClient[r] \/ (r = p /\ m = w)
          /\ handling' = handling
      BY <1>t, <2>1, <3>2 DEF PeerTakes, UDPTypeOK
    <3>4. /\ w \in applied'[a]
          /\ \A b \in Addr : applied[b] \subseteq applied'[b]
          /\ applied' \in [Addr -> SUBSET Threshold]
          /\ sensorThreshold' \in [Addr -> Threshold]
      BY <1>t, <3>1, <3>2 DEF SensorInv
    <3>5. \A r \in Peer : \A m : OwnAnswer(r, m) => OwnAnswer(r, m)'
      BY <2>2, <3>4 DEF OwnAnswer
    <3>6. \A r \in Peer : \A m \in toClient'[r] : OwnAnswer(r, m)'
      BY <1>t, <2>1, <3>3, <3>4, <3>5 DEF SensorInv, OwnAnswer
    <3>7. handling # Nothing => handling[1] \in Peer
      BY <1>t DEF UDPTypeOK, Handling
    <3> QED BY <1>t, <3>2, <3>3, <3>4, <3>5, <3>6, <3>7 DEF SensorInv
  <2>4. CASE ~SensorAccepts(t)
    BY <1>4, <1>t, <2>1, <2>4
    DEF SensorSetsThreshold, PeerTakes, UDPTypeOK, SensorInv, OwnAnswer
  <2> QED BY <2>3, <2>4
<1>5. ASSUME NEW a \in Addr, SensorAnswersValue(a) PROVE SensorInv'
  <2>1. /\ PeerOf("get_value", a) \in Peer
        /\ PeerOf("get_value", a)[1] = a
        /\ PeerOf("get_value", a)[2] = "sensor_port2"
    BY PeerOfFacts, CentralAssumption DEF PortOf
  <2> QED
    BY <1>5, <1>t, <2>1
    DEF SensorAnswersValue, PeerTakes, UDPTypeOK, SensorInv, OwnAnswer, sensorVars
<1>6. ASSUME NEW a \in Addr, SensorMeasures(a) \/ SensorDies(a) \/ SensorRestarts(a) \/ LoseAlarm(a)
      PROVE  SensorInv'
  BY <1>6, <1>t, CentralAssumption, SensorListAssumption
  DEF SensorMeasures, SensorDies, SensorRestarts, LoseAlarm, udpVars, SensorInv, OwnAnswer
<1>7. ASSUME \/ \E a \in Addr : Unheard(a)
             \/ \E p \in Peer : Lose(p)
      PROVE  SensorInv'
  <2>1. /\ UNCHANGED <<alarms, alive, measured, sensorThreshold, applied, handling>>
        /\ \A p \in Peer : toClient'[p] \subseteq toClient[p]
    BY <1>7, <1>t
    DEF Unheard, Lose, LoseQuestion, LoseAnswer, UDPTypeOK, sensorVars
  <2> QED BY <1>t, <2>1 DEF SensorInv, OwnAnswer
<1>8. ASSUME UNCHANGED <<toClient, handling, sensorVars>> PROVE SensorInv'
  BY <1>8, <1>t DEF sensorVars, SensorInv, OwnAnswer
<1>9. ASSUME \/ UserStep
             \/ \E c \in Caller : CallStep(c) \/ SendFails(c)
             \/ Polling
             \/ Tick
             \/ UNCHANGED vars
      PROVE  UNCHANGED <<toClient, handling, sensorVars>>
  BY <1>9
  DEF UserStep, Communicator_add_sensor, Communicator_erase_sensor,
      Communicator_set_threshold, Communicator_ask_for_values, CallStep, Check, Send,
      SendQuestion, SaveCallbackStep, SaveCallback, Mark, SendFails, Polling,
      PollSnapshot, PollAsk, write_to_file, Tick, vars, udpVars
<1> QED
  BY <1>1, <1>2, <1>3, <1>4, <1>5, <1>6, <1>7, <1>8, <1>9
  DEF Next, CentralStep, ReceiverStep, AlarmStep, SensorStep, SensorAnswers, NetworkStep

\* Whatever is stored in the list or saved to the file came from its sensor.
LEMMA CentralShownIsOwn == CentralInv /\ [Next]_vars => ShownIsOwn'
<1> SUFFICES ASSUME CentralInv, [Next]_vars PROVE ShownIsOwn'
  OBVIOUS
<1>t. ListTypeOK /\ UDPTypeOK /\ CallbackFits /\ SensorInv /\ ShownIsOwn /\ CallInv
  BY DEF CentralInv, ListInv, UDPInv
<1>k. \A a \in Addr : info[a] \in SensorInfo
  BY <1>t DEF ListTypeOK
<1>0. ASSUME \A a \in Addr : applied[a] \subseteq applied'[a],
             UNCHANGED file,
             \A a \in Addr :
                /\ info'[a].threshold \in {info[a].threshold, DefaultThreshold}
                /\ info'[a].value \in {info[a].value, NoReading}
      PROVE  ShownIsOwn'
  BY <1>0, <1>t DEF ShownIsOwn, SensorInv
<1>1. ASSUME UserStep PROVE ShownIsOwn'
  <2>1. /\ UNCHANGED <<file, applied>>
        /\ \/ UNCHANGED info
           \/ \E a \in Addr : info' = [info EXCEPT ![a] = NewSensorInfo]
    BY <1>1
    DEF UserStep, Communicator_add_sensor, Communicator_erase_sensor,
        Communicator_set_threshold, Communicator_ask_for_values, SensorList_add_sensor,
        SensorList_erase_sensor, listVars, centralVars, sensorVars
  <2> QED BY <2>1, <1>t, <1>0 DEF ListTypeOK, NewSensorInfo
<1>2. ASSUME NEW c \in Caller, Mark(c) PROVE ShownIsOwn'
  <2> DEFINE a == call[c].addr
  <2>1. a \in Addr
    BY <1>2, <1>t DEF CallInv, Mark, Call, Idle
  <2>2. /\ UNCHANGED <<file, applied>>
        /\ \/ UNCHANGED info
           \/ info' = [info EXCEPT ![a] = [RaiseFlag(@) EXCEPT !.last_value_question = 0]]
           \/ info' = [info EXCEPT ![a] = [RaiseFlag(@) EXCEPT !.last_threshold_question = 0]]
    BY <1>2
    DEF Mark, SensorList_set_last_threshold_question, SensorList_set_last_value_question,
        listVars, sensorVars
  <2>3. /\ RaiseFlag(info[a]) \in SensorInfo
        /\ RaiseFlag(info[a]).threshold = info[a].threshold
        /\ RaiseFlag(info[a]).value = info[a].value
    BY <1>k, <2>1, RaiseFlagType DEF RaiseFlag, SensorInfo
  <2> HIDE DEF a
  <2>4. \A b \in Addr : info'[b].threshold = info[b].threshold /\ info'[b].value = info[b].value
    BY <1>t, <2>1, <2>2, <2>3 DEF ListTypeOK, SensorInfo
  <2> QED BY <1>0, <2>2, <2>4
<1>3. ASSUME callbackOnReceive PROVE ShownIsOwn'
  <2> DEFINE a == handling[1][1]
             m == handling[2]
  <2>1. /\ handling # Nothing
        /\ handling[1] \in Peer
        /\ handling[3] \in Callback \cup {NoCallback}
        /\ handling[3] # NoCallback => handling[1][2] = PortOf(handling[3])
        /\ OwnAnswer(handling[1], m)
    BY <1>3, <1>t
    DEF callbackOnReceive, CallbackReturns, UDPTypeOK, Handling, CallbackFits, SensorInv
  <2>2. a \in Addr
    BY <2>1, PeerParts
  <2>3. /\ handling[3] = "set_threshold" => m \in applied[a]
        /\ handling[3] = "get_value" => m \in ReadingOf[a] \cup {Unmeasured}
    BY <2>1, UDPClientAssumption, CentralAssumption DEF OwnAnswer, PortOf
  <2>4. /\ UNCHANGED <<file, applied>>
        /\ \/ /\ handling[3] = "set_threshold"
              /\ info' = [info EXCEPT ![a] = [@ EXCEPT !.threshold = m, !.flag = FALSE]]
           \/ /\ handling[3] = "get_value"
              /\ info' = [info EXCEPT ![a] = [@ EXCEPT !.value = m, !.flag = FALSE]]
           \/ UNCHANGED info
    BY <1>3
    DEF callbackOnReceive, SensorList_set_threshold, SensorList_set_values, listVars,
        centralVars, sensorVars
  <2> HIDE DEF a, m
  <2>5. \A b \in Addr :
          /\ info'[b].threshold = info[b].threshold \/ info'[b].threshold \in applied[b]
          /\ info'[b].value = info[b].value \/ info'[b].value \in ReadingOf[b] \cup {Unmeasured}
    <3>1. CASE /\ handling[3] = "set_threshold"
               /\ info' = [info EXCEPT ![a] = [@ EXCEPT !.threshold = m, !.flag = FALSE]]
      BY <1>t, <2>2, <2>3, <3>1 DEF ListTypeOK, SensorInfo
    <3>2. CASE /\ handling[3] = "get_value"
               /\ info' = [info EXCEPT ![a] = [@ EXCEPT !.value = m, !.flag = FALSE]]
      BY <1>t, <2>2, <2>3, <3>2 DEF ListTypeOK, SensorInfo
    <3> QED BY <2>4, <3>1, <3>2
  <2> QED BY <1>t, <2>4, <2>5 DEF ShownIsOwn
<1>4. ASSUME NEW a \in Addr, NEW v \in Reading, AlarmReceived(a, v) PROVE ShownIsOwn'
  <2>1. v \in ReadingOf[a]
    BY <1>4, <1>t DEF AlarmReceived, SensorInv
  <2>2. /\ UNCHANGED <<file, applied>>
        /\ \/ info' = [info EXCEPT ![a] = [@ EXCEPT !.value = v, !.flag = FALSE]]
           \/ UNCHANGED info
    BY <1>4 DEF AlarmReceived, SensorList_set_values, listVars, centralVars
  <2> QED BY <1>t, <2>1, <2>2 DEF ListTypeOK, SensorInfo, ShownIsOwn
<1>5. ASSUME write_to_file PROVE ShownIsOwn'
  BY <1>5, <1>t DEF write_to_file, ListTypeOK, ShownIsOwn, listVars, sensorVars
<1>6. ASSUME Tick PROVE ShownIsOwn'
  <2>1. \A a \in Addr : /\ OlderInfo(info[a]).threshold = info[a].threshold
                        /\ OlderInfo(info[a]).value = info[a].value
    BY <1>k DEF OlderInfo, SensorInfo
  <2> QED BY <1>6, <1>0, <2>1 DEF Tick, SecondPasses, centralVars, sensorVars
<1>7. ASSUME NEW a \in Addr, NEW t \in Input, SensorSetsThreshold(a, t) PROVE ShownIsOwn'
  <2>1. /\ UNCHANGED <<file, info>>
        /\ \A b \in Addr : applied[b] \subseteq applied'[b]
    BY <1>7, <1>t DEF SensorSetsThreshold, SensorInv, listVars, centralVars
  <2> QED BY <1>0, <2>1
<1>8. ASSUME UNCHANGED <<info, file, applied>> PROVE ShownIsOwn'
  BY <1>8, <1>0
<1>9. ASSUME \/ \E c \in Caller : Check(c) \/ Send(c) \/ SaveCallbackStep(c) \/ SendFails(c)
             \/ PollSnapshot
             \/ \E a \in Addr : PollAsk(a)
             \/ \E p \in Peer, m \in Answer : ReceiveStep(p, m)
             \/ \E a \in Addr : \/ SensorAnswersValue(a) \/ SensorMeasures(a)
                                \/ SensorDies(a) \/ SensorRestarts(a)
             \/ NetworkStep
             \/ UNCHANGED vars
      PROVE  UNCHANGED <<info, file, applied>>
  BY <1>9
  DEF Check, Send, SaveCallbackStep, SendFails, PollSnapshot, PollAsk, ReceiveStep,
      SensorAnswersValue, SensorMeasures, SensorDies, SensorRestarts, NetworkStep, Unheard,
      Lose, LoseAlarm, vars, listVars, centralVars, sensorVars
<1> QED
  BY <1>1, <1>2, <1>3, <1>4, <1>5, <1>6, <1>7, <1>8, <1>9
  DEF Next, CentralStep, CallStep, Polling, ReceiverStep, AlarmStep, SensorStep,
      SensorAnswers

\* A call is well formed at every step, and the polling thread's call is about a
\* sensor that is registered or was erased under it: only that, or a failed
\* send, lets an exception out.
LEMMA CentralCallInv == CentralInv /\ [Next]_vars => CallInv' /\ PollingKnows'
<1> SUFFICES ASSUME CentralInv, [Next]_vars PROVE CallInv' /\ PollingKnows'
  OBVIOUS
<1>t. ListTypeOK /\ CallInv /\ PollingKnows
  BY DEF CentralInv, ListInv
<1> DEFINE Known == registered \cup gone
<1>1. ASSUME NEW c \in Caller, NEW op \in Callback, NEW a \in Addr, NEW q \in Question,
             AskIfDue(c, op, a, q), up, c = "polling" => a \in Known,
             UNCHANGED <<registered, gone, sendFailed>>,
             todo' \subseteq todo, UNCHANGED polled, c = "polling" => polled
      PROVE  CallInv' /\ PollingKnows'
  <2> DEFINE sent == [pc |-> "send", op |-> op, addr |-> a, question |-> q]
  <2>1. sent \in Call /\ sent.addr = a
    BY DEF Call
  <2>2. \/ call' = [call EXCEPT ![c] = Idle]
        \/ call' = [call EXCEPT ![c] = sent]
    BY <1>1 DEF AskIfDue, Throw, Return
  <2>3. up' \in BOOLEAN
    BY <1>1 DEF AskIfDue, Throw, Return, Caught
  <2>4. ~up' => gone # {}
    BY <1>1, CentralAssumption DEF AskIfDue, Throw, Return, Caught
  <2> HIDE DEF sent
  <2>5. CallInv'
    BY <1>1, <1>t, <2>1, <2>2, <2>3 DEF CallInv
  <2>6. PollingKnows'
    BY <1>1, <1>t, <2>1, <2>2, <2>4 DEF CallInv, PollingKnows, CrashHasCause
  <2> QED BY <2>5, <2>6
<1>2. ASSUME UserStep, up PROVE CallInv' /\ PollingKnows'
  <2> PICK c \in User, a \in Addr :
             \/ \E t \in Input : Communicator_add_sensor(c, a, t)
             \/ Communicator_erase_sensor(c, a)
             \/ \E t \in Input : Communicator_set_threshold(c, a, t)
             \/ Communicator_ask_for_values(c, a)
    BY <1>2 DEF UserStep
  <2>0. c \in Caller /\ c # "polling"
    BY DEF User
  <2>1. ASSUME NEW t \in Input, Communicator_add_sensor(c, a, t)
        PROVE  CallInv' /\ PollingKnows'
    BY <2>0, <2>1, <1>2, <1>t, CentralAssumption
    DEF Communicator_add_sensor, SensorList_add_sensor, CallInv, Call, PollingKnows,
        CrashHasCause
  <2>2. CASE Communicator_erase_sensor(c, a)
    BY <2>0, <2>2, <1>2, <1>t
    DEF Communicator_erase_sensor, SensorList_erase_sensor, centralVars, CallInv,
        PollingKnows, CrashHasCause
  <2>3. ASSUME NEW t \in Input, Communicator_set_threshold(c, a, t)
        PROVE  CallInv' /\ PollingKnows'
    BY <2>0, <2>3, <1>1, <1>2, CentralAssumption DEF Communicator_set_threshold, listVars
  <2>4. CASE Communicator_ask_for_values(c, a)
    BY <2>0, <2>4, <1>1, <1>2, CentralAssumption DEF Communicator_ask_for_values, listVars
  <2> QED BY <2>1, <2>2, <2>3, <2>4
<1>3. ASSUME NEW c \in Caller, call[c] # Idle
      PROVE  /\ call[c] \in Call
             /\ call[c].op \in Callback
             /\ call[c].addr \in Addr
             /\ call[c].question \in Question
             /\ c = "polling" => call[c].addr \in Known /\ polled
  BY <1>3, <1>t DEF CallInv, Call, PollingKnows
<1>4. ASSUME NEW c \in Caller, Check(c), up PROVE CallInv' /\ PollingKnows'
  <2>1. call[c] # Idle
    BY <1>4 DEF Check, Idle
  <2> QED BY <2>1, <1>1, <1>3, <1>4 DEF Check, listVars
<1>5. ASSUME NEW c \in Caller, Send(c), up PROVE CallInv' /\ PollingKnows'
  <2>1. call[c] # Idle
    BY <1>5 DEF Send, Idle
  <2>2. /\ call' = [call EXCEPT ![c] = [call[c] EXCEPT !.pc = "mark"]]
        /\ UNCHANGED <<registered, gone, sendFailed, todo, polled, up>>
    BY <1>5 DEF Send, listVars
  <2>3. /\ [call[c] EXCEPT !.pc = "mark"] \in Call
        /\ [call[c] EXCEPT !.pc = "mark"].addr = call[c].addr
    BY <2>1, <1>3 DEF Call
  <2>4. CallInv'
    BY <1>t, <2>2, <2>3 DEF CallInv
  <2>5. PollingKnows'
    BY <1>t, <1>3, <1>5, <2>1, <2>2, <2>3 DEF CallInv, PollingKnows, CrashHasCause
  <2> QED BY <2>4, <2>5
<1>6. ASSUME NEW c \in Caller, SendFails(c), up PROVE CallInv' /\ PollingKnows'
  BY <1>6, <1>t DEF SendFails, Throw, Caught, listVars, CallInv, PollingKnows, CrashHasCause
<1>7. ASSUME NEW c \in Caller, Mark(c), up PROVE CallInv' /\ PollingKnows'
  <2>1. call[c] # Idle
    BY <1>7 DEF Mark, Idle
  <2>2. /\ call' = [call EXCEPT ![c] = Idle]
        /\ up' \in BOOLEAN
        /\ UNCHANGED <<registered, gone, sendFailed, todo, polled>>
        /\ ~up' => ~Caught(c, "logic_error") /\ call[c].addr \notin registered
    BY <1>7
    DEF Mark, Return, Throw, Caught, SensorList_set_last_threshold_question,
        SensorList_set_last_value_question, listVars
  <2>3. ~up' => gone # {}
    BY <1>3, <2>1, <2>2, CentralAssumption DEF Caught
  <2> QED BY <1>t, <2>2, <2>3 DEF CallInv, PollingKnows, CrashHasCause
<1>8. ASSUME Polling, up, "polling" \in Caller PROVE CallInv' /\ PollingKnows'
  <2>1. CASE PollSnapshot
    BY <2>1, <1>8, <1>t
    DEF PollSnapshot, listVars, ListTypeOK, CallInv, PollingKnows, CrashHasCause
  <2>2. ASSUME NEW a \in Addr, PollAsk(a) PROVE CallInv' /\ PollingKnows'
    <3>1. a \in Known /\ polled
      BY <2>2, <1>t DEF PollAsk, PollingKnows
    <3> QED BY <2>2, <3>1, <1>1, <1>8, CentralAssumption DEF PollAsk, listVars
  <2>3. CASE write_to_file
    BY <2>3, <1>8, <1>t DEF write_to_file, listVars, CallInv, PollingKnows, CrashHasCause
  <2> QED BY <1>8, <2>1, <2>2, <2>3 DEF Polling
<1>9. ASSUME UNCHANGED <<registered, call, todo, polled, up, gone, sendFailed>>
      PROVE  CallInv' /\ PollingKnows'
  BY <1>9, <1>t DEF CallInv, PollingKnows, CrashHasCause
<1>10. ASSUME \/ \E c \in Caller : SaveCallbackStep(c)
              \/ ReceiverStep
              \/ AlarmStep
              \/ SensorStep
              \/ NetworkStep
              \/ Tick
              \/ UNCHANGED vars
       PROVE  UNCHANGED <<registered, call, todo, polled, up, gone, sendFailed>>
  BY <1>10
  DEF SaveCallbackStep, ReceiverStep, ReceiveStep, callbackOnReceive, AlarmStep,
      AlarmReceived, SensorStep, SensorAnswers, SensorSetsThreshold, SensorAnswersValue,
      SensorMeasures, SensorDies, SensorRestarts, NetworkStep, Unheard, Lose, LoseAlarm,
      Tick, SecondPasses, SensorList_set_threshold, SensorList_set_values, vars, listVars,
      centralVars
<1> QED
  BY <1>2, <1>4, <1>5, <1>6, <1>7, <1>8, <1>9, <1>10 DEF Next, CentralStep, CallStep

\* The invariant holds throughout.
THEOREM CentralInvariance == Spec => []CentralInv
<1>1. CentralInv /\ [Next]_vars => CentralInv'
  BY CentralListStep, ListNextInv, CentralUDPInv, CentralSensorInv, CentralShownIsOwn,
     CentralCallInv
  DEF CentralInv
<1> QED BY <1>1, CentralInitInv, PTL DEF Spec

\* Every variable of central keeps its type.
THEOREM CentralTypeCorrect == Spec => []TypeOK
<1>1. CentralInv => TypeOK
  BY DEF CentralInv, ListInv, UDPInv, SensorInv, ShownIsOwn, CallInv, TypeOK
<1> QED BY <1>1, CentralInvariance, PTL

\* Central never shows and never saves a threshold its sensor did not work with.
THEOREM CentralThresholds == Spec => []ReportedThresholdWasApplied
<1>1. CentralInv => ReportedThresholdWasApplied
  BY DEF CentralInv, ListInv, ListTypeOK, ShownIsOwn, ReportedThresholdWasApplied
<1> QED BY <1>1, CentralInvariance, PTL

\* Central never shows a value that another sensor measured: what it shows was measured by
\* the sensor itself or is what a sensor holds before its first measurement.
THEOREM CentralValues == Spec => []ReportedValueIsOwn
<1>1. CentralInv => ReportedValueIsOwn
  BY DEF CentralInv, ListInv, ListTypeOK, ShownIsOwn, ReportedValueIsOwn
<1> QED BY <1>1, CentralInvariance, PTL

\* Central goes down only when a send failed or a sensor was erased under the
\* polling thread.
THEOREM CentralCrashes == Spec => []CrashHasCause
<1>1. CentralInv => CrashHasCause
  BY DEF CentralInv, PollingKnows
<1> QED BY <1>1, CentralInvariance, PTL

\* Central implements SensorList: all threads together only ever apply its
\* operations to the list.
THEOREM CentralImplementsList == Spec => ListProtocol
<1>1. Init => ListInit
  BY DEF Init
<1> QED BY <1>1, CentralInvariance, CentralListStep, PTL DEF Spec, ListProtocol, ListSpec

\* Hence what the list shows of a silent or a late sensor is right in central.
THEOREM CentralStatus == Spec => [](SilenceIsReal /\ LateIsReported)
BY CentralImplementsList, ListSilenceIsReal, ListLateIsReported, PTL DEF ListProtocol
=============================================================================
