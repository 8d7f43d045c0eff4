------------------------------ MODULE QuestionPace ------------------------------
(***************************************************************************)
(* How often a sensor is asked.  Communicator::set_threshold and           *)
(* ask_for_values read the time of the last question of their kind, send,  *)
(* and record the time, each under the mutex but with nothing held in      *)
(* between; the script, the HTTP and the polling thread call them.         *)
(* Answers and alarms are stored meanwhile, whether asked for or not (the  *)
(* datagrams themselves are the subject of Central).                       *)
(***************************************************************************)
EXTENDS SensorList

CONSTANTS Caller

Kind == {"threshold", "value"}

VARIABLES
    call,      \* per thread: the call it is in
    since,     \* history: seconds since the last question of a kind to a sensor
    overlap,   \* history, per thread: another call for the same question was
               \* under way since this one looked at the time
    renewed    \* history: erased since a question of the kind was last recorded

vars == <<listVars, call, since, overlap, renewed>>

NoCall == [pc |-> "idle"]

Question == Addr \X Kind

Init ==
    /\ ListInit
    /\ call = [c \in Caller |-> NoCall]
    /\ since = [q \in Question |-> Forever]
    /\ overlap = [c \in Caller |-> FALSE]
    /\ renewed = {}

\* get_last_threshold_question, get_last_value_question
LastAsked(q) ==
    IF q[2] = "threshold" THEN info[q[1]].last_threshold_question
    ELSE info[q[1]].last_value_question

InCall(c, q) == call[c] # NoCall /\ call[c].question = q

\* Up to the comparison with max_answer_time, when it lets the question pass.
LookAtTime(c, q) ==
    /\ call[c] = NoCall
    /\ q[1] \in registered
    /\ LastAsked(q) >= MaxAnswerTime
    /\ call' = [call EXCEPT ![c] = [pc |-> "send", question |-> q]]
    /\ overlap' = [d \in Caller |->
                     IF d = c THEN \E e \in Caller : InCall(e, q)
                     ELSE overlap[d] \/ InCall(d, q)]
    /\ UNCHANGED <<listVars, since, renewed>>

SendQuestion(c) ==
    /\ call[c] # NoCall /\ call[c].pc = "send"
    /\ call' = [call EXCEPT ![c].pc = "record"]
    /\ since' = [since EXCEPT ![call[c].question] = 0]
    /\ UNCHANGED <<listVars, overlap, renewed>>

\* Mutant: the value question is recorded as a threshold question.
RecordTimeSwapped(q) == SensorList_set_last_threshold_question(q[1])

RecordTime(q) ==
    \/ q[2] = "threshold" /\ SensorList_set_last_threshold_question(q[1])
    \/ q[2] = "value" /\ SensorList_set_last_value_question(q[1])

\* An erased sensor raises an exception here: the call ends all the same.
Record(c) ==
    /\ call[c] # NoCall /\ call[c].pc = "record"
    /\ LET q == call[c].question IN
       \/ q[1] \notin registered /\ UNCHANGED <<listVars, renewed>>
       \/ /\ q[1] \in registered
          /\ RecordTime(q)
          /\ renewed' = renewed \ {q}
    /\ call' = [call EXCEPT ![c] = NoCall]
    /\ UNCHANGED <<since, overlap>>

AddSensor(a) ==
    /\ SensorList_add_sensor(a)
    /\ UNCHANGED <<call, since, overlap, renewed>>

EraseSensor(a) ==
    /\ SensorList_erase_sensor(a)
    /\ renewed' = renewed \cup {a} \X Kind
    /\ UNCHANGED <<call, since, overlap>>

\* Callback_set_threshold, Callback_get_value, and the alarm server.
AnswerStored(a) ==
    /\ \/ \E t \in Threshold : SensorList_set_threshold(a, t)
       \/ \E v \in Reading : SensorList_set_values(a, v)
    /\ UNCHANGED <<call, since, overlap, renewed>>

Tick ==
    /\ SecondPasses
    /\ since' = [q \in Question |-> Older(since[q])]
    /\ UNCHANGED <<call, overlap, renewed>>

Next ==
    \/ \E c \in Caller : SendQuestion(c) \/ Record(c) \/ \E q \in Question : LookAtTime(c, q)
    \/ \E a \in Addr : AddSensor(a) \/ EraseSensor(a) \/ AnswerStored(a)
    \/ Tick

Spec == Init /\ [][Next]_vars
-----------------------------------------------------------------------------
\* A sensor gets no two questions of one kind within max_answer_time, unless two
\* threads were inside the call at the same time (both looked before either
\* recorded) or the sensor was erased since the last one was recorded.
PaceIsKept ==
    [][\A c \in Caller : SendQuestion(c) /\ since[call[c].question] < MaxAnswerTime
           => overlap[c] \/ call[c].question \in renewed]_vars
================================================================================
