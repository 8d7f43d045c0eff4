--------------------------- MODULE SensorListProofs ---------------------------
(***************************************************************************)
(* What get_sensor_state reports is right for every set of sensors and     *)
(* every max_answer_time.  SilenceIsReal and LateIsReported only speak     *)
(* about ages that reached max_answer_time, which no step preserves by     *)
(* itself: ListInv relates the ages before they get there.                 *)
(***************************************************************************)
EXTENDS SensorList, TLAPS

\* Nothing is remembered of a sensor that is not in the list.
Forgotten ==
    \A a \in Addr \ registered : quiet[a] = Forever /\ waiting[a] = NotWaiting

\* While the flag is up, no answer is younger than the moment it went up.
FlagCoversSilence ==
    \A a \in Addr : info[a].flag => quiet[a] >= info[a].time_setting_flag

\* While a question waits, the flag is up and went up no later than the question.
FlagCoversQuestion ==
    \A a \in Addr :
        waiting[a] # NotWaiting =>
            /\ info[a].flag
            /\ info[a].time_setting_flag >= waiting[a]

ListInv == ListTypeOK /\ Forgotten /\ FlagCoversSilence /\ FlagCoversQuestion

\* Ages stay ages as the clock advances, and their order is kept.
LEMMA OlderAge ==
    /\ \A x \in Age : Older(x) \in Age
    /\ \A x, y \in Age : x >= y => Older(x) >= Older(y)
    /\ Older(Forever) = Forever
    /\ 0 \in Age /\ Forever \in Age /\ NotWaiting \notin Age
BY SensorListAssumption DEF Older, Age, Forever, NotWaiting

\* A fresh entry is well typed.
LEMMA NewSensorInfoType == NewSensorInfo \in SensorInfo
BY OlderAge, SensorListAssumption DEF NewSensorInfo, SensorInfo

\* Recording a question keeps an entry well typed.
LEMMA RaiseFlagType ==
    ASSUME NEW i \in SensorInfo
    PROVE  /\ RaiseFlag(i) \in SensorInfo
           /\ RaiseFlag(i).flag
           /\ i.flag => RaiseFlag(i) = i
           /\ ~i.flag => RaiseFlag(i).time_setting_flag = 0
BY OlderAge DEF RaiseFlag, SensorInfo

\* The initial list satisfies the invariant.
LEMMA ListInitInv == ListInit => ListInv
<1> SUFFICES ASSUME ListInit PROVE ListInv
  OBVIOUS
<1>1. ListTypeOK
  BY NewSensorInfoType, OlderAge DEF ListInit, ListTypeOK
<1>2. Forgotten /\ FlagCoversSilence /\ FlagCoversQuestion
  BY OlderAge, SensorListAssumption
  DEF ListInit, Forgotten, FlagCoversSilence, FlagCoversQuestion, NewSensorInfo,
      Forever, Age
<1> QED BY <1>1, <1>2 DEF ListInv

\* Every operation of the list, and every second that passes, keeps it.
LEMMA ListNextInv == ListInv /\ [ListNext]_listVars => ListInv'
<1> SUFFICES ASSUME ListInv, [ListNext]_listVars PROVE ListInv'
  OBVIOUS
<1> USE OlderAge
<1>t. ListTypeOK /\ Forgotten /\ FlagCoversSilence /\ FlagCoversQuestion
  BY DEF ListInv
<1>1. ASSUME NEW a \in Addr, SensorList_add_sensor(a) PROVE ListInv'
  <2>1. ListTypeOK'
    BY <1>1, <1>t, NewSensorInfoType DEF ListTypeOK, SensorList_add_sensor
  <2>2. Forgotten'
    BY <1>1, <1>t DEF Forgotten, SensorList_add_sensor
  <2>3. FlagCoversSilence'
    BY <1>1, <1>t, SensorListAssumption
    DEF ListTypeOK, Forgotten, FlagCoversSilence, SensorList_add_sensor, NewSensorInfo,
        Forever
  <2>4. FlagCoversQuestion'
    BY <1>1, <1>t
    DEF ListTypeOK, Forgotten, FlagCoversQuestion, SensorList_add_sensor
  <2> QED BY <2>1, <2>2, <2>3, <2>4 DEF ListInv
<1>2. ASSUME NEW a \in Addr, SensorList_erase_sensor(a) PROVE ListInv'
  <2>1. ListTypeOK'
    BY <1>2, <1>t, NewSensorInfoType DEF ListTypeOK, SensorList_erase_sensor
  <2>2. Forgotten'
    BY <1>2, <1>t DEF ListTypeOK, Forgotten, SensorList_erase_sensor
  <2>3. FlagCoversSilence'
    BY <1>2, <1>t, SensorListAssumption
    DEF ListTypeOK, FlagCoversSilence, SensorList_erase_sensor, NewSensorInfo, Forever
  <2>4. FlagCoversQuestion'
    BY <1>2, <1>t
    DEF ListTypeOK, FlagCoversQuestion, SensorList_erase_sensor
  <2> QED BY <2>1, <2>2, <2>3, <2>4 DEF ListInv
<1>3. ASSUME NEW a \in Addr, NEW t \in Threshold, SensorList_set_threshold(a, t)
      PROVE  ListInv'
  <2>1. ListTypeOK'
    BY <1>3, <1>t DEF ListTypeOK, SensorInfo, SensorList_set_threshold
  <2>2. Forgotten'
    BY <1>3, <1>t DEF ListTypeOK, Forgotten, SensorList_set_threshold
  <2>3. FlagCoversSilence' /\ FlagCoversQuestion'
    BY <1>3, <1>t
    DEF ListTypeOK, SensorInfo, FlagCoversSilence, FlagCoversQuestion,
        SensorList_set_threshold
  <2> QED BY <2>1, <2>2, <2>3 DEF ListInv
<1>4. ASSUME NEW a \in Addr, NEW v \in Reading, SensorList_set_values(a, v)
      PROVE  ListInv'
  <2>1. ListTypeOK'
    BY <1>4, <1>t DEF ListTypeOK, SensorInfo, SensorList_set_values
  <2>2. Forgotten'
    BY <1>4, <1>t DEF ListTypeOK, Forgotten, SensorList_set_values
  <2>3. FlagCoversSilence' /\ FlagCoversQuestion'
    BY <1>4, <1>t
    DEF ListTypeOK, SensorInfo, FlagCoversSilence, FlagCoversQuestion,
        SensorList_set_values
  <2> QED BY <2>1, <2>2, <2>3 DEF ListInv
<1>5. ASSUME NEW a \in Addr,
             \/ SensorList_set_last_value_question(a)
             \/ SensorList_set_last_threshold_question(a)
      PROVE  ListInv'
  <2> DEFINE i == info[a]
             j == info'[a]
  <2>1. /\ a \in registered
        /\ registered' = registered
        /\ quiet' = quiet
        /\ waiting' = [waiting EXCEPT ![a] = StartWaiting(@)]
        /\ info' = [info EXCEPT ![a] = j]
    BY <1>5, <1>t
    DEF ListTypeOK, SensorList_set_last_value_question, SensorList_set_last_threshold_question
  <2>2. /\ i \in SensorInfo
        /\ RaiseFlag(i) \in SensorInfo
        /\ RaiseFlag(i).flag
        /\ i.flag => RaiseFlag(i) = i
        /\ ~i.flag => RaiseFlag(i).time_setting_flag = 0
    BY <1>t, RaiseFlagType DEF ListTypeOK
  <2>3. \/ j = [RaiseFlag(i) EXCEPT !.last_value_question = 0]
        \/ j = [RaiseFlag(i) EXCEPT !.last_threshold_question = 0]
    BY <1>5, <1>t
    DEF ListTypeOK, SensorList_set_last_value_question, SensorList_set_last_threshold_question
  <2>4. /\ j \in SensorInfo
        /\ j.flag
        /\ j.time_setting_flag = RaiseFlag(i).time_setting_flag
    BY <2>2, <2>3 DEF SensorInfo
  <2> HIDE DEF i, j
  <2>5. ListTypeOK'
    BY <1>t, <2>1, <2>4 DEF ListTypeOK, StartWaiting
  <2>6. Forgotten'
    BY <1>t, <2>1 DEF ListTypeOK, Forgotten
  <2>7. /\ quiet[a] \in Age
        /\ i.time_setting_flag \in Age
        /\ i.flag => quiet[a] >= i.time_setting_flag
        /\ waiting[a] # NotWaiting => i.flag /\ i.time_setting_flag >= waiting[a]
    BY <1>t, <2>2 DEF ListTypeOK, SensorInfo, FlagCoversSilence, FlagCoversQuestion, i
  <2>8. FlagCoversSilence'
    <3>1. quiet[a] >= j.time_setting_flag
      BY <2>2, <2>4, <2>7 DEF Age, Forever
    <3> QED BY <1>t, <2>1, <3>1 DEF ListTypeOK, FlagCoversSilence
  <2>9. FlagCoversQuestion'
    <3>1. j.time_setting_flag >= StartWaiting(waiting[a])
      BY <2>2, <2>4, <2>7, SensorListAssumption DEF StartWaiting, Age, Forever
    <3> QED BY <1>t, <2>1, <2>4, <3>1 DEF ListTypeOK, FlagCoversQuestion
  <2> QED BY <2>5, <2>6, <2>8, <2>9 DEF ListInv
<1>6. ASSUME SecondPasses PROVE ListInv'
  <2>1. \A a \in Addr :
          /\ OlderInfo(info[a]) \in SensorInfo
          /\ OlderInfo(info[a]).flag = info[a].flag
          /\ OlderInfo(info[a]).time_setting_flag = Older(info[a].time_setting_flag)
          /\ info[a].time_setting_flag \in Age
    BY <1>t DEF ListTypeOK, SensorInfo, OlderInfo
  <2>2. ListTypeOK'
    BY <1>6, <1>t, <2>1 DEF ListTypeOK, SecondPasses
  <2>3. Forgotten'
    BY <1>6, <1>t DEF ListTypeOK, Forgotten, SecondPasses
  <2>4. FlagCoversSilence'
    BY <1>6, <1>t, <2>1 DEF ListTypeOK, FlagCoversSilence, SecondPasses
  <2>5. FlagCoversQuestion'
    BY <1>6, <1>t, <2>1 DEF ListTypeOK, FlagCoversQuestion, SecondPasses
  <2> QED BY <2>2, <2>3, <2>4, <2>5 DEF ListInv
<1>7. CASE UNCHANGED listVars
  BY <1>7, <1>t
  DEF listVars, ListInv, ListTypeOK, Forgotten, FlagCoversSilence, FlagCoversQuestion
<1> QED BY <1>1, <1>2, <1>3, <1>4, <1>5, <1>6, <1>7 DEF ListNext

\* The invariant holds throughout.
THEOREM ListInvariance == ListSpec => []ListInv
BY ListInitInv, ListNextInv, PTL DEF ListSpec

\* The list is well typed throughout.
THEOREM ListTypeCorrect == ListSpec => []ListTypeOK
<1>1. ListInv => ListTypeOK
  BY DEF ListInv
<1> QED BY <1>1, ListInvariance, PTL

\* get_sensor_state says NOCOMMUNICATION only of sensors none of whose answers
\* was stored in the last max_answer_time seconds.
THEOREM ListSilenceIsReal == ListSpec => []SilenceIsReal
<1>1. ListInv => SilenceIsReal
  BY SensorListAssumption
  DEF ListInv, ListTypeOK, SensorInfo, Age, Forever, FlagCoversSilence, SilenceIsReal, Status
<1> QED BY <1>1, ListInvariance, PTL

\* get_sensor_state says NOCOMMUNICATION of every sensor that left a question
\* unanswered for max_answer_time seconds.
THEOREM ListLateIsReported == ListSpec => []LateIsReported
<1>1. ListInv => LateIsReported
  BY SensorListAssumption
  DEF ListInv, ListTypeOK, SensorInfo, Age, Forever, NotWaiting, FlagCoversQuestion,
      LateIsReported, Status
<1> QED BY <1>1, ListInvariance, PTL
=============================================================================
