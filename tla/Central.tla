-------------------------------- MODULE Central --------------------------------
(***************************************************************************)
(* The central program: the threads that share one SensorList and one      *)
(* Communicator (central/src/Communicator.cpp, central/src/main.cpp), and  *)
(* the sensors they talk to (sensor/src/main.cpp).                         *)
(*                                                                         *)
(*   script    ScriptExecutor, on the main thread: commands of config      *)
(*   web       the HTTP thread: the same operations from the browser       *)
(*   polling   asks every sensor of a snapshot of the list, saves the list *)
(*   alarm     stores the values that sensors send unasked                 *)
(*   receiver  of UDPClient: runs the callbacks that store the answers     *)
(*                                                                         *)
(* A thread inside a Communicator call is described by call[c].  Between   *)
(* the steps of a call no mutex is held.  Operations that fail without     *)
(* touching shared state (an address that does not translate, a threshold  *)
(* out of range, an unknown sensor) are answered with an error text: they  *)
(* are actions that are not enabled.                                       *)
(***************************************************************************)
EXTENDS SensorList, UDPClient

CONSTANTS
    Command,      \* the operations users ask for in a run
    Input,        \* thresholds users ask for, in tenths
    ReadingOf,    \* the values each sensor may measure, in tenths
    Unmeasured,   \* the 40 / 0 a sensor holds before its first measurement
    GetValue      \* the datagram "get_value"

Port == {"sensor_port1", "sensor_port2"}

\* What std::stoi of the first three characters makes of a threshold, in tenths.
WholePart(t) == 10 * (t \div 10)

\* The range check of Communicator::add_sensor and Communicator::set_threshold.
ValidThreshold(t) == 0 <= t /\ t <= 1000

\* The range check of the sensor.
SensorAccepts(t) == 0 < t \div 10 /\ t \div 10 < 100

ASSUME CentralAssumption ==
    /\ Caller \subseteq {"script", "web", "polling"}
    /\ Command \subseteq {"add_sensor", "erase_sensor", "set_threshold", "ask_for_values"}
    /\ Input \subseteq Int
    /\ Threshold \subseteq Int
    /\ Reading \subseteq Int
    /\ \A t \in Input : SensorAccepts(t) => WholePart(t) \in Threshold
    /\ Peer = Addr \X Port
    /\ Callback = {"set_threshold", "get_value"}
    /\ ReadingOf \in [Addr -> SUBSET Reading]
    /\ Unmeasured \in Reading
    /\ Question = Input \cup {GetValue}
    /\ Answer = Threshold \cup Reading

VARIABLES
    call,              \* per caller: the Communicator call it is in
    todo,              \* addresses the polling loop has not asked yet
    polled,            \* FALSE: the polling thread is to take the next snapshot
    file,              \* ~/.RoSA/data.txt: the addresses saved, with thresholds
    up,                \* FALSE: an exception has ended the program
    alarms,            \* alarm datagrams on their way to alarm_server_port
    alive,             \* the sensors that are running
    measured,          \* those that have measured since they were started
    sensorThreshold,   \* the threshold each sensor compares its values with
    applied,           \* history: every threshold a sensor ever worked with
    gone,              \* history: erased since the polling thread's snapshot
    sendFailed         \* history: some sendto has failed

centralVars == <<call, todo, polled, file, up>>
sensorVars == <<alarms, alive, measured, sensorThreshold, applied>>
vars == <<listVars, udpVars, centralVars, sensorVars, gone, sendFailed>>

Idle == [pc |-> "idle"]
Call == [pc: {"check", "send", "mark"}, op: Callback, addr: Addr, question: Question]

User == Caller \ {"polling"}

\* set_threshold goes to sensor_port1, get_value to sensor_port2.
PortOf(op) == IF op = "set_threshold" THEN "sensor_port1" ELSE "sensor_port2"
PeerOf(op, a) == <<a, PortOf(op)>>

\* get_last_threshold_question, get_last_value_question
LastQuestion(op, i) ==
    IF op = "set_threshold" THEN i.last_threshold_question ELSE i.last_value_question

\* The handlers around a call: the polling thread has none, ScriptExecutor and
\* main's executeScripts catch std::logic_error, the HTTP server anything.  An
\* exception that is not caught ends the process: in a thread by
\* std::terminate, in main by destroying threads that were not joined.
Caught(c, exception) ==
    \/ c = "web"
    \/ c = "script" /\ exception = "logic_error"

Init ==
    /\ ListInit
    /\ UDPInit
    /\ call = [c \in Caller |-> Idle]
    /\ todo = {}
    /\ polled = FALSE
    /\ file = [a \in {} |-> DefaultThreshold]
    /\ up = TRUE
    /\ alarms = [a \in Addr |-> {}]
    /\ alive = Addr
    /\ measured = {}
    /\ sensorThreshold = [a \in Addr |-> DefaultThreshold]
    /\ applied = [a \in Addr |-> {DefaultThreshold}]
    /\ gone = {}
    /\ sendFailed = FALSE
-----------------------------------------------------------------------------
(* The Communicator calls.                                                  *)

Return(c) ==
    /\ call' = [call EXCEPT ![c] = Idle]
    /\ UNCHANGED up

Throw(c, exception) ==
    /\ call' = [call EXCEPT ![c] = Idle]
    /\ up' = Caught(c, exception)

\* Mutant: a question that is not due is an error.
AskOrThrow(c, op, a, q) ==
    \/ /\ \/ a \notin registered
          \/ LastQuestion(op, info[a]) < MaxAnswerTime
       /\ Throw(c, "logic_error")
    \/ /\ a \in registered
       /\ LastQuestion(op, info[a]) >= MaxAnswerTime
       /\ call' = [call EXCEPT ![c] =
                     [pc |-> "send", op |-> op, addr |-> a, question |-> q]]
       /\ UNCHANGED up

\* The beginning of set_threshold and of ask_for_values: nothing is sent to a
\* sensor that got the same kind of question less than max_answer_time ago.
AskIfDue(c, op, a, q) ==
    \/ /\ a \notin registered
       /\ Throw(c, "logic_error")
    \/ /\ a \in registered
       /\ LastQuestion(op, info[a]) < MaxAnswerTime
       /\ Return(c)
    \/ /\ a \in registered
       /\ LastQuestion(op, info[a]) >= MaxAnswerTime
       /\ call' = [call EXCEPT ![c] =
                     [pc |-> "send", op |-> op, addr |-> a, question |-> q]]
       /\ UNCHANGED up

\* add_sensor, up to its call of set_threshold (pc "check").
Communicator_add_sensor(c, a, t) ==
    /\ "add_sensor" \in Command
    /\ call[c] = Idle
    /\ ValidThreshold(t)
    /\ SensorList_add_sensor(a)
    /\ call' = [call EXCEPT ![c] =
                  [pc |-> "check", op |-> "set_threshold", addr |-> a, question |-> t]]
    /\ UNCHANGED <<udpVars, todo, polled, file, up, sensorVars, gone, sendFailed>>

Communicator_erase_sensor(c, a) ==
    /\ "erase_sensor" \in Command
    /\ call[c] = Idle
    /\ SensorList_erase_sensor(a)
    /\ gone' = gone \cup {a}
    /\ UNCHANGED <<udpVars, centralVars, sensorVars, sendFailed>>

Communicator_set_threshold(c, a, t) ==
    /\ "set_threshold" \in Command
    /\ call[c] = Idle
    /\ ValidThreshold(t)
    /\ AskIfDue(c, "set_threshold", a, t)
    /\ UNCHANGED <<listVars, udpVars, todo, polled, file, sensorVars, gone, sendFailed>>

Communicator_ask_for_values(c, a) ==
    /\ "ask_for_values" \in Command
    /\ call[c] = Idle
    /\ AskIfDue(c, "get_value", a, GetValue)
    /\ UNCHANGED <<listVars, udpVars, todo, polled, file, sensorVars, gone, sendFailed>>

\* add_sensor goes on in set_threshold.
Check(c) ==
    /\ call[c].pc = "check"
    /\ AskIfDue(c, call[c].op, call[c].addr, call[c].question)
    /\ UNCHANGED <<listVars, udpVars, todo, polled, file, sensorVars, gone, sendFailed>>

\* sendAndSaveCallback up to the return of send; SaveCallbackStep is its end.
Send(c) ==
    /\ call[c].pc = "send"
    /\ SendQuestion(c, PeerOf(call[c].op, call[c].addr), call[c].question, call[c].op)
    /\ call' = [call EXCEPT ![c].pc = "mark"]
    /\ UNCHANGED <<listVars, todo, polled, file, up, sensorVars, gone, sendFailed>>

\* sendto returns an error: sendAndSaveCallback throws ExceptionInfo.
SendFails(c) ==
    /\ "sendfail" \in Faults
    /\ call[c].pc = "send"
    /\ Throw(c, "ExceptionInfo")
    /\ sendFailed' = TRUE
    /\ UNCHANGED <<listVars, udpVars, todo, polled, file, sensorVars, gone>>

SaveCallbackStep(c) ==
    /\ SaveCallback(c)
    /\ UNCHANGED <<listVars, centralVars, sensorVars, gone, sendFailed>>

\* Mutant: set_last_threshold_question finds the entry with operator[], which
\* creates it anew for a sensor erased since the check.
MarkCreating(c) ==
    LET a == call[c].addr IN
    /\ call[c].pc = "mark"
    /\ sending[c] = NotSending
    /\ Return(c)
    /\ registered' = registered \cup {a}
    /\ info' = [info EXCEPT ![a] = [RaiseFlag(@) EXCEPT !.last_threshold_question = 0]]
    /\ waiting' = [waiting EXCEPT ![a] = StartWaiting(@)]
    /\ UNCHANGED <<quiet, udpVars, todo, polled, file, sensorVars, gone, sendFailed>>

\* set_last_threshold_question or set_last_value_question, the end of a call.
Mark(c) ==
    LET a == call[c].addr IN
    /\ call[c].pc = "mark"
    /\ sending[c] = NotSending
    /\ \/ /\ a \notin registered
          /\ Throw(c, "logic_error")
          /\ UNCHANGED listVars
       \/ /\ a \in registered
          /\ Return(c)
          /\ IF call[c].op = "set_threshold"
             THEN SensorList_set_last_threshold_question(a)
             ELSE SensorList_set_last_value_question(a)
    /\ UNCHANGED <<udpVars, todo, polled, file, sensorVars, gone, sendFailed>>
-----------------------------------------------------------------------------
(* The polling thread.                                                      *)

PollSnapshot ==
    /\ ~polled
    /\ todo' = registered
    /\ polled' = TRUE
    /\ gone' = {}
    /\ UNCHANGED <<listVars, udpVars, call, file, up, sensorVars, sendFailed>>

PollAsk(a) ==
    /\ call["polling"] = Idle
    /\ a \in todo
    /\ AskIfDue("polling", "get_value", a, GetValue)
    /\ todo' = todo \ {a}
    /\ UNCHANGED <<listVars, udpVars, polled, file, sensorVars, gone, sendFailed>>

write_to_file ==
    /\ polled
    /\ todo = {}
    /\ call["polling"] = Idle
    /\ file' = [a \in registered |-> info[a].threshold]
    /\ polled' = FALSE
    /\ UNCHANGED <<listVars, udpVars, call, todo, up, sensorVars, gone, sendFailed>>

Polling ==
    \/ PollSnapshot
    \/ \E a \in Addr : PollAsk(a)
    \/ write_to_file
-----------------------------------------------------------------------------
(* The receiver thread of the Communicator's UDPClient, the alarm server.   *)

ReceiveStep(p, m) ==
    /\ Receive(p, m)
    /\ UNCHANGED <<listVars, centralVars, sensorVars, gone, sendFailed>>

\* Callback_set_threshold, Callback_get_value and the default callback; the
\* logic_error of an unknown sensor is caught and changes nothing.
callbackOnReceive ==
    LET a == handling[1][1]
        m == handling[2]
    IN /\ CallbackReturns
       /\ CASE handling[3] = "set_threshold" /\ a \in registered ->
                 SensorList_set_threshold(a, m)
            [] handling[3] = "get_value" /\ a \in registered ->
                 SensorList_set_values(a, m)
            [] OTHER -> UNCHANGED listVars
       /\ UNCHANGED <<centralVars, sensorVars, gone, sendFailed>>

\* server(): an alarm from a sensor that is not in the list changes nothing.
AlarmReceived(a, v) ==
    /\ v \in alarms[a]
    /\ \/ alarms' = [alarms EXCEPT ![a] = @ \ {v}]
       \/ "duplicate" \in Faults /\ UNCHANGED alarms
    /\ IF a \in registered THEN SensorList_set_values(a, v) ELSE UNCHANGED listVars
    /\ UNCHANGED <<udpVars, centralVars, alive, measured, sensorThreshold, applied, gone,
                   sendFailed>>
-----------------------------------------------------------------------------
(* The sensors, and what may happen to datagrams.                           *)

\* Mutant: the sensor confirms the threshold it was sent, not the one it set.
SensorEchoesThreshold(a, t) ==
    /\ a \in alive
    /\ SensorAccepts(t)
    /\ PeerTakes(PeerOf("set_threshold", a), t, {t})
    /\ sensorThreshold' = [sensorThreshold EXCEPT ![a] = WholePart(t)]
    /\ applied' = [applied EXCEPT ![a] = @ \cup {WholePart(t)}]
    /\ UNCHANGED <<listVars, centralVars, alarms, alive, measured, gone, sendFailed>>

\* Mutant: the sensor confirms and goes on with its old threshold.
SensorOnlyConfirms(a, t) ==
    /\ a \in alive
    /\ SensorAccepts(t)
    /\ PeerTakes(PeerOf("set_threshold", a), t, {WholePart(t)})
    /\ UNCHANGED <<listVars, centralVars, sensorVars, gone, sendFailed>>

\* set_threshold_receive_thread: a value outside 1 .. 99 is not answered.
SensorSetsThreshold(a, t) ==
    LET p == PeerOf("set_threshold", a) IN
    /\ a \in alive
    /\ \/ /\ SensorAccepts(t)
          /\ PeerTakes(p, t, {WholePart(t)})
          /\ sensorThreshold' = [sensorThreshold EXCEPT ![a] = WholePart(t)]
          /\ applied' = [applied EXCEPT ![a] = @ \cup {WholePart(t)}]
       \/ /\ ~SensorAccepts(t)
          /\ PeerTakes(p, t, {})
          /\ UNCHANGED <<sensorThreshold, applied>>
    /\ UNCHANGED <<listVars, centralVars, alarms, alive, measured, gone, sendFailed>>

\* The sensor's main loop.
SensorAnswersValue(a) ==
    /\ a \in alive
    /\ \E v \in (IF a \in measured THEN ReadingOf[a] ELSE {Unmeasured}) :
          PeerTakes(PeerOf("get_value", a), GetValue, {v})
    /\ UNCHANGED <<listVars, centralVars, sensorVars, gone, sendFailed>>

\* updating_values_thread; an alarm is raised by a value above the threshold.
SensorMeasures(a) ==
    /\ a \in alive
    /\ measured' = measured \cup {a}
    /\ \E v \in ReadingOf[a] :
          alarms' = IF v > sensorThreshold[a] THEN [alarms EXCEPT ![a] = @ \cup {v}]
                                              ELSE alarms
    /\ UNCHANGED <<listVars, udpVars, centralVars, alive, sensorThreshold, applied,
                   gone, sendFailed>>

SensorDies(a) ==
    /\ "die" \in Faults
    /\ a \in alive
    /\ alive' = alive \ {a}
    /\ measured' = measured \ {a}
    /\ UNCHANGED <<listVars, udpVars, centralVars, alarms, sensorThreshold, applied,
                   gone, sendFailed>>

\* A sensor program that is started again works with the default threshold.
SensorRestarts(a) ==
    /\ "restart" \in Faults
    /\ a \notin alive
    /\ alive' = alive \cup {a}
    /\ sensorThreshold' = [sensorThreshold EXCEPT ![a] = DefaultThreshold]
    /\ UNCHANGED <<listVars, udpVars, centralVars, alarms, measured, applied, gone,
                   sendFailed>>

\* Nobody receives what is sent to a sensor that is not running.
Unheard(a) ==
    /\ a \notin alive
    /\ \E op \in Callback : \E q \in toPeer[PeerOf(op, a)] : LoseQuestion(PeerOf(op, a), q)
    /\ UNCHANGED <<listVars, centralVars, sensorVars, gone, sendFailed>>

Lose(p) ==
    /\ "lose" \in Faults
    /\ \/ \E q \in toPeer[p] : LoseQuestion(p, q)
       \/ \E m \in toClient[p] : LoseAnswer(p, m)
    /\ UNCHANGED <<listVars, centralVars, sensorVars, gone, sendFailed>>

LoseAlarm(a) ==
    /\ "lose" \in Faults
    /\ \E v \in alarms[a] : alarms' = [alarms EXCEPT ![a] = @ \ {v}]
    /\ UNCHANGED <<listVars, udpVars, centralVars, alive, measured, sensorThreshold, applied,
                   gone, sendFailed>>

Tick ==
    /\ SecondPasses
    /\ UNCHANGED <<udpVars, centralVars, sensorVars, gone, sendFailed>>
-----------------------------------------------------------------------------
UserStep ==
    \E c \in User, a \in Addr :
       \/ \E t \in Input : Communicator_add_sensor(c, a, t)
       \/ Communicator_erase_sensor(c, a)
       \/ \E t \in Input : Communicator_set_threshold(c, a, t)
       \/ Communicator_ask_for_values(c, a)

CallStep(c) == Check(c) \/ Send(c) \/ SaveCallbackStep(c) \/ Mark(c)

ReceiverStep ==
    \/ \E p \in Peer, m \in Answer : ReceiveStep(p, m)
    \/ callbackOnReceive

AlarmStep == \E a \in Addr, v \in Reading : AlarmReceived(a, v)

CentralStep ==
    /\ up
    /\ \/ UserStep
       \/ \E c \in Caller : CallStep(c)
       \/ \E c \in Caller : SendFails(c)
       \/ "polling" \in Caller /\ Polling
       \/ ReceiverStep
       \/ AlarmStep

SensorAnswers(a) ==
    \/ \E t \in Input : SensorSetsThreshold(a, t)
    \/ SensorAnswersValue(a)

SensorStep ==
    \E a \in Addr :
       \/ SensorAnswers(a)
       \/ SensorMeasures(a)
       \/ SensorDies(a)
       \/ SensorRestarts(a)

NetworkStep ==
    \/ \E a \in Addr : Unheard(a)
    \/ \E p \in Peer : Lose(p)
    \/ \E a \in Addr : LoseAlarm(a)

Next == CentralStep \/ SensorStep \/ NetworkStep \/ Tick

Spec == Init /\ [][Next]_vars

\* Threads are scheduled, running sensors answer, the clock ticks.
Fairness ==
    /\ \A c \in Caller : WF_vars(up /\ CallStep(c))
    /\ WF_vars(up /\ Polling)
    /\ WF_vars(up /\ ReceiverStep)
    /\ WF_vars(up /\ AlarmStep)
    /\ \A a \in Addr : WF_vars(SensorAnswers(a))
    /\ WF_vars(Tick)

FairSpec == Spec /\ Fairness
-----------------------------------------------------------------------------
\* Every variable of central, the network and the sensors has its type.
TypeOK ==
    /\ ListTypeOK
    /\ UDPTypeOK
    /\ call \in [Caller -> Call \cup {Idle}]
    /\ todo \subseteq Addr
    /\ polled \in BOOLEAN
    /\ DOMAIN file \subseteq Addr
    /\ \A a \in DOMAIN file : file[a] \in Threshold
    /\ up \in BOOLEAN
    /\ alarms \in [Addr -> SUBSET Reading]
    /\ alive \subseteq Addr
    /\ measured \subseteq alive
    /\ sensorThreshold \in [Addr -> Threshold]
    /\ applied \in [Addr -> SUBSET Threshold]
    /\ gone \subseteq Addr
    /\ sendFailed \in BOOLEAN

\* The threshold central shows for a sensor, and the one it saves to data.txt,
\* is one the sensor itself has worked with: never one a user only asked for,
\* another sensor's, or a value measured.  The datagrams that carry it may be
\* late, repeated or overtaken, and the sensor erased and added in between.
ReportedThresholdWasApplied ==
    /\ \A a \in registered : info[a].threshold \in applied[a]
    /\ \A a \in DOMAIN file : file[a] \in applied[a]

\* The value central shows for a sensor was measured by that sensor and no other,
\* whether an answer or an alarm brought it and however many answers were under way,
\* or it is what every sensor answers before its first measurement.
ReportedValueIsOwn ==
    \A a \in registered : info[a].value \in ReadingOf[a] \cup {NoReading, Unmeasured}

\* Central goes down by an uncaught exception only when a datagram could not be
\* sent, or when a sensor was erased after the polling thread took the snapshot
\* it is working on: no other interleaving of users, answers and alarms kills it.
CrashHasCause == ~up => sendFailed \/ gone # {}

\* Every step of central is an operation of SensorList, or leaves the list alone.
ListProtocol == ListSpec

\* A registered sensor that has stopped for good is eventually shown as
\* NOCOMMUNICATION for good: late answers run out, and asking again never makes
\* the sensor look well.
SilentIsReported ==
    \A a \in Addr :
        <>[](up /\ a \in registered /\ a \notin alive)
            => <>[](Status(info[a]) = "NOCOMMUNICATION")

\* A registered sensor that keeps running, on a network that loses nothing, is
\* shown as CORRECT again and again: no answer that missed its callback and no
\* question marked after its answer shuts a sensor out for good.
RunningIsCorrect ==
    \A a \in Addr :
        <>[](up /\ a \in registered /\ a \in alive)
            => []<>(Status(info[a]) = "CORRECT")
=============================================================================
