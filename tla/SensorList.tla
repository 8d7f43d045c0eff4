------------------------------ MODULE SensorList ------------------------------
(***************************************************************************)
(* class SensorList (central/src/SensorList.cpp): the table of monitored   *)
(* sensors that every thread of central shares.  Each method takes the     *)
(* mutex for its whole effect on the table, so each is one action.  The    *)
(* exception "sensor with address ... doesn't exist" is the guard          *)
(* a \in registered: what a caller does when it is raised is modelled      *)
(* where the caller is (module Central).                                   *)
(*                                                                         *)
(* The code stores std::time_t values and only ever compares their         *)
(* distance to "now" with max_answer_time.  The model stores that          *)
(* distance, in seconds, saturated at max_answer_time (every comparison    *)
(* is "< max_answer_time"); a second of the clock passing is the action    *)
(* SecondPasses.  The time 0 of a fresh SensorInfo (value-initialised, so  *)
(* zeroed) is the saturated distance.                                      *)
(***************************************************************************)
EXTENDS Integers

CONSTANTS
    Addr,              \* host addresses, as Address::hostToString prints them
    Reading,           \* what a sensor measured: current_value with typical_value
    NoReading,         \* the 0 / 0 a fresh SensorInfo holds
    Threshold,         \* thresholds, in tenths
    DefaultThreshold,  \* SensorInfo::threshold = 100
    MaxAnswerTime      \* max_answer_time, in seconds

ASSUME SensorListAssumption ==
    /\ MaxAnswerTime \in Nat \ {0}
    /\ DefaultThreshold \in Threshold

VARIABLES
    registered,   \* the keys of the map sensors
    info,         \* the SensorInfo of each address (fresh where not registered)
    quiet,        \* history: seconds since an answer was last stored for a
    waiting       \* history: seconds since the oldest question that was recorded
                  \* for a and not answered since, NotWaiting if there is none

listVars == <<registered, info, quiet, waiting>>

Forever == MaxAnswerTime
Age == 0 .. Forever
NotWaiting == -1

SensorInfo ==
    [value: Reading \cup {NoReading},   \* current_value, typical_value
     threshold: Threshold,
     flag: BOOLEAN,                     \* TRUE: waiting for an answer
     time_setting_flag: Age,
     last_value_question: Age,
     last_threshold_question: Age]

\* Mutant: SensorInfo without the initialiser of threshold.
NewSensorInfoZeroThreshold ==
    [value |-> NoReading, threshold |-> 0, flag |-> TRUE,
     time_setting_flag |-> Forever, last_value_question |-> Forever,
     last_threshold_question |-> Forever]

NewSensorInfo ==
    [value |-> NoReading, threshold |-> DefaultThreshold, flag |-> TRUE,
     time_setting_flag |-> Forever, last_value_question |-> Forever,
     last_threshold_question |-> Forever]

\* SensorState::status, as get_sensor_state and get_sensors compute it.
Status(i) ==
    IF ~i.flag \/ i.time_setting_flag < MaxAnswerTime
    THEN "CORRECT"
    ELSE "NOCOMMUNICATION"

\* Mutant: every question restarts the clock.
RaiseFlagAgain(i) == [i EXCEPT !.flag = TRUE, !.time_setting_flag = 0]

\* The part set_last_value_question and set_last_threshold_question share:
\* the flag and its time are touched only when no answer was awaited before.
RaiseFlag(i) ==
    IF i.flag THEN i ELSE [i EXCEPT !.flag = TRUE, !.time_setting_flag = 0]

Older(age) == IF age < Forever THEN age + 1 ELSE age

OlderInfo(i) ==
    [i EXCEPT !.time_setting_flag = Older(@),
              !.last_value_question = Older(@),
              !.last_threshold_question = Older(@)]

StartWaiting(w) == IF w = NotWaiting THEN 0 ELSE w
-----------------------------------------------------------------------------
ListInit ==
    /\ registered = {}
    /\ info = [a \in Addr |-> NewSensorInfo]
    /\ quiet = [a \in Addr |-> Forever]
    /\ waiting = [a \in Addr |-> NotWaiting]

\* std::map::emplace: an address that is already there keeps its entry.
SensorList_add_sensor(a) ==
    /\ registered' = registered \cup {a}
    /\ info' = IF a \in registered
               THEN info ELSE [info EXCEPT ![a] = NewSensorInfo]
    /\ UNCHANGED <<quiet, waiting>>

SensorList_erase_sensor(a) ==
    /\ a \in registered
    /\ registered' = registered \ {a}
    /\ info' = [info EXCEPT ![a] = NewSensorInfo]
    /\ quiet' = [quiet EXCEPT ![a] = Forever]
    /\ waiting' = [waiting EXCEPT ![a] = NotWaiting]

SensorList_set_threshold(a, t) ==
    /\ a \in registered
    /\ info' = [info EXCEPT ![a] = [@ EXCEPT !.threshold = t, !.flag = FALSE]]
    /\ quiet' = [quiet EXCEPT ![a] = 0]
    /\ waiting' = [waiting EXCEPT ![a] = NotWaiting]
    /\ UNCHANGED registered

\* Mutant: the answer is stored and the flag forgotten.
SensorList_set_values_keeping_flag(a, v) ==
    /\ a \in registered
    /\ info' = [info EXCEPT ![a].value = v]
    /\ quiet' = [quiet EXCEPT ![a] = 0]
    /\ waiting' = [waiting EXCEPT ![a] = NotWaiting]
    /\ UNCHANGED registered

SensorList_set_values(a, v) ==
    /\ a \in registered
    /\ info' = [info EXCEPT ![a] = [@ EXCEPT !.value = v, !.flag = FALSE]]
    /\ quiet' = [quiet EXCEPT ![a] = 0]
    /\ waiting' = [waiting EXCEPT ![a] = NotWaiting]
    /\ UNCHANGED registered

SensorList_set_last_value_question(a) ==
    /\ a \in registered
    /\ info' = [info EXCEPT ![a] =
                  [RaiseFlag(@) EXCEPT !.last_value_question = 0]]
    /\ waiting' = [waiting EXCEPT ![a] = StartWaiting(@)]
    /\ UNCHANGED <<registered, quiet>>

SensorList_set_last_threshold_question(a) ==
    /\ a \in registered
    /\ info' = [info EXCEPT ![a] =
                  [RaiseFlag(@) EXCEPT !.last_threshold_question = 0]]
    /\ waiting' = [waiting EXCEPT ![a] = StartWaiting(@)]
    /\ UNCHANGED <<registered, quiet>>

\* The wall clock, std::time(nullptr), advances by a second.
SecondPasses ==
    /\ info' = [a \in Addr |-> OlderInfo(info[a])]
    /\ quiet' = [a \in Addr |-> Older(quiet[a])]
    /\ waiting' = [a \in Addr |-> IF waiting[a] = NotWaiting
                                  THEN NotWaiting ELSE Older(waiting[a])]
    /\ UNCHANGED registered

ListNext ==
    \/ \E a \in Addr :
          \/ SensorList_add_sensor(a)
          \/ SensorList_erase_sensor(a)
          \/ \E t \in Threshold : SensorList_set_threshold(a, t)
          \/ \E v \in Reading : SensorList_set_values(a, v)
          \/ SensorList_set_last_value_question(a)
          \/ SensorList_set_last_threshold_question(a)
    \/ SecondPasses

ListSpec == ListInit /\ [][ListNext]_listVars
-----------------------------------------------------------------------------
\* Every variable of the table has its type.
ListTypeOK ==
    /\ registered \subseteq Addr
    /\ info \in [Addr -> SensorInfo]
    /\ quiet \in [Addr -> Age]
    /\ waiting \in [Addr -> Age \cup {NotWaiting}]

\* A sensor is shown as NOCOMMUNICATION only when none of its answers was
\* stored during the last max_answer_time seconds: get_sensor_state derives the
\* status from flag and time_setting_flag alone, which several threads set and
\* clear in any order.
SilenceIsReal ==
    \A a \in registered :
        Status(info[a]) = "NOCOMMUNICATION" => quiet[a] >= MaxAnswerTime

\* A sensor that left a recorded question unanswered for max_answer_time seconds
\* is shown as NOCOMMUNICATION, however often it was asked again since:
\* set_last_value_question must not restart the clock of an older question.
LateIsReported ==
    \A a \in registered :
        waiting[a] >= MaxAnswerTime => Status(info[a]) = "NOCOMMUNICATION"
=============================================================================
