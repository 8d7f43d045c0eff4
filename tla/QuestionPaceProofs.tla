--------------------------- MODULE QuestionPaceProofs ---------------------------
(***************************************************************************)
(* How often a sensor is asked, for any number of threads and sensors and  *)
(* any max_answer_time.  Every step of QuestionPace is a step of the list, *)
(* so what is proved of the list holds here; PaceIsKept needs besides what *)
(* the time recorded for a question has to do with the time it was sent,   *)
(* although several threads look, send and record in any order.            *)
(***************************************************************************)
EXTENDS QuestionPace, SensorListProofs

Call == [pc: {"send", "record"}, question: Question]

PaceTypeOK ==
    /\ call \in [Caller -> Call \cup {NoCall}]
    /\ since \in [Question -> Age]
    /\ overlap \in [Caller -> BOOLEAN]
    /\ renewed \subseteq Question

\* The call has sent its question and not recorded it.
Unrecorded(c, q) == InCall(c, q) /\ call[c].pc = "record"

\* A sensor that is not in the list has no times of questions.
NotAsked ==
    \A q \in Question : q[1] \notin registered => LastAsked(q) = Forever

\* The sensor of a call was in the list when it looked at the time.
CallsAreCounted ==
    \A c \in Caller, q \in Question : InCall(c, q) => q[1] \in registered \/ q \in renewed

\* Of two calls for the same question each knows of the other.
OverlapsAreSeen ==
    \A c, e \in Caller, q \in Question :
        c # e /\ InCall(c, q) /\ InCall(e, q) => overlap[c]

\* The time recorded is not before that of the last question, unless a call has yet
\* to record it.
RecordIsNewer ==
    \A q \in Question \ renewed :
        (\A c \in Caller : ~Unrecorded(c, q)) => since[q] >= LastAsked(q)

\* A question that is about to be sent, by one call alone, is due.
QuestionIsDue ==
    \A c \in Caller, q \in Question \ renewed :
        InCall(c, q) /\ call[c].pc = "send" /\ ~overlap[c] => since[q] >= MaxAnswerTime

PaceInv ==
    /\ ListInv /\ PaceTypeOK
    /\ NotAsked /\ CallsAreCounted /\ OverlapsAreSeen /\ RecordIsNewer /\ QuestionIsDue
-----------------------------------------------------------------------------
(* What the operations of the list do to the times of questions.            *)

\* A question is one of a sensor and a kind; its time is an age.
LEMMA LastAskedAge ==
    ASSUME ListTypeOK, NEW q \in Question
    PROVE  q[1] \in Addr /\ q[2] \in Kind /\ LastAsked(q) \in Age
BY DEF ListTypeOK, SensorInfo, Question, LastAsked

\* A sensor that is added was never asked; no other time changes.
LEMMA AddedAsked ==
    ASSUME ListTypeOK, NEW a \in Addr, SensorList_add_sensor(a), NEW q \in Question
    PROVE  /\ q[1] = a /\ a \notin registered => LastAsked(q)' = Forever
           /\ ~(q[1] = a /\ a \notin registered) => LastAsked(q)' = LastAsked(q)
BY DEF ListTypeOK, SensorList_add_sensor, LastAsked, NewSensorInfo, Question

\* A sensor that is erased loses its times; no other time changes.
LEMMA ErasedAsked ==
    ASSUME ListTypeOK, NEW a \in Addr, SensorList_erase_sensor(a), NEW q \in Question
    PROVE  /\ q[1] = a => LastAsked(q)' = Forever
           /\ q[1] # a => LastAsked(q)' = LastAsked(q)
BY DEF ListTypeOK, SensorList_erase_sensor, LastAsked, NewSensorInfo, Question

\* A stored answer changes no time of a question.
LEMMA StoredAsked ==
    ASSUME ListTypeOK, NEW a \in Addr, NEW q \in Question,
           \/ \E t \in Threshold : SensorList_set_threshold(a, t)
           \/ \E v \in Reading : SensorList_set_values(a, v)
    PROVE  LastAsked(q)' = LastAsked(q) /\ UNCHANGED registered
<1>1. q[1] \in Addr /\ info[a] \in SensorInfo /\ info \in [Addr -> SensorInfo]
  BY DEF Question, ListTypeOK
<1>2. ASSUME NEW t \in Threshold, SensorList_set_threshold(a, t)
      PROVE  LastAsked(q)' = LastAsked(q) /\ UNCHANGED registered
  BY <1>1, <1>2 DEF SensorInfo, SensorList_set_threshold, LastAsked
<1>3. ASSUME NEW v \in Reading, SensorList_set_values(a, v)
      PROVE  LastAsked(q)' = LastAsked(q) /\ UNCHANGED registered
  BY <1>1, <1>3 DEF SensorInfo, SensorList_set_values, LastAsked
<1> QED BY <1>2, <1>3

\* Recording a question starts its time anew and changes no other.
LEMMA RecordedAsked ==
    ASSUME ListTypeOK, NEW r \in Question, RecordTime(r), NEW q \in Question
    PROVE  /\ q = r => LastAsked(q)' = 0
           /\ q # r => LastAsked(q)' = LastAsked(q)
           /\ UNCHANGED registered
<1> DEFINE i == info[r[1]]
<1>1. r[1] \in Addr /\ r[2] \in Kind /\ q[1] \in Addr /\ q[2] \in Kind /\ i \in SensorInfo
  BY DEF Question, ListTypeOK
<1>2. RaiseFlag(i) \in SensorInfo
  BY <1>1, RaiseFlagType
<1>3. /\ RaiseFlag(i).last_value_question = i.last_value_question
      /\ RaiseFlag(i).last_threshold_question = i.last_threshold_question
  BY <1>1 DEF RaiseFlag, SensorInfo
<1>4. (q = r) <=> (q[1] = r[1] /\ q[2] = r[2])
  BY DEF Question
<1>5. q[1] # r[1] => info'[q[1]] = info[q[1]]
  BY <1>1 DEF RecordTime, SensorList_set_last_threshold_question,
              SensorList_set_last_value_question, ListTypeOK
<1>6. CASE r[2] = "threshold"
  <2>1. info'[r[1]] = [RaiseFlag(i) EXCEPT !.last_threshold_question = 0] /\ UNCHANGED registered
    BY <1>1, <1>6 DEF RecordTime, SensorList_set_last_threshold_question, ListTypeOK
  <2>2. /\ info'[r[1]].last_threshold_question = 0
        /\ info'[r[1]].last_value_question = i.last_value_question
    BY <1>2, <1>3, <2>1 DEF SensorInfo
  <2> QED BY <1>1, <1>4, <1>5, <1>6, <2>1, <2>2 DEF LastAsked, Kind
<1>7. CASE r[2] = "value"
  <2>1. info'[r[1]] = [RaiseFlag(i) EXCEPT !.last_value_question = 0] /\ UNCHANGED registered
    BY <1>1, <1>7 DEF RecordTime, SensorList_set_last_value_question, ListTypeOK
  <2>2. /\ info'[r[1]].last_value_question = 0
        /\ info'[r[1]].last_threshold_question = i.last_threshold_question
    BY <1>2, <1>3, <2>1 DEF SensorInfo
  <2> QED BY <1>1, <1>4, <1>5, <1>7, <2>1, <2>2 DEF LastAsked, Kind
<1> QED BY <1>1, <1>6, <1>7 DEF Kind

\* A second makes every time of a question older, up to the bound.
LEMMA AgedAsked ==
    ASSUME ListTypeOK, SecondPasses, NEW q \in Question
    PROVE  LastAsked(q)' = Older(LastAsked(q)) /\ UNCHANGED registered
BY DEF ListTypeOK, SensorInfo, SecondPasses, OlderInfo, LastAsked, Question
-----------------------------------------------------------------------------
(* The steps.                                                               *)

\* The list changes by its own operations only.
LEMMA PaceStepIsListStep ==
    ASSUME PaceTypeOK, [Next]_vars
    PROVE  [ListNext]_listVars
<1>1. ASSUME NEW c \in Caller, Record(c)
      PROVE  [ListNext]_listVars
  <2>1. call[c].question \in Question
    BY <1>1 DEF PaceTypeOK, Record, Call
  <2>2. call[c].question[1] \in Addr
    BY <2>1 DEF Question
  <2> QED BY <1>1, <2>2 DEF Record, RecordTime, ListNext
<1>2. ASSUME NEW c \in Caller, SendQuestion(c) \/ \E q \in Question : LookAtTime(c, q)
      PROVE  UNCHANGED listVars
  BY <1>2 DEF SendQuestion, LookAtTime
<1>3. ASSUME NEW a \in Addr, AddSensor(a) \/ EraseSensor(a) \/ AnswerStored(a)
      PROVE  ListNext
  BY <1>3 DEF AddSensor, EraseSensor, AnswerStored, ListNext
<1>4. Tick => ListNext
  BY DEF Tick, ListNext
<1>5. UNCHANGED vars => UNCHANGED listVars
  BY DEF vars
<1> QED BY <1>1, <1>2, <1>3, <1>4, <1>5 DEF Next

\* No thread has asked at the start.
LEMMA PaceInitInv == Init => PaceInv
<1> SUFFICES ASSUME Init PROVE PaceInv
  OBVIOUS
<1>1. ListInv
  BY ListInitInv DEF Init
<1>2. PaceTypeOK
  BY OlderAge DEF Init, PaceTypeOK
<1>3. \A c \in Caller, q \in Question : ~InCall(c, q)
  BY DEF Init, InCall
<1>4. \A q \in Question : LastAsked(q) = Forever /\ since[q] = Forever
  BY DEF Init, ListInit, LastAsked, NewSensorInfo, Question
<1>5. RecordIsNewer
  BY <1>4, SensorListAssumption DEF RecordIsNewer, Forever
<1> QED BY <1>1, <1>2, <1>3, <1>4, <1>5
        DEF PaceInv, NotAsked, CallsAreCounted, OverlapsAreSeen, QuestionIsDue

\* A call that looks at the time.
LEMMA LookInv ==
    ASSUME PaceInv, NEW c \in Caller, NEW r \in Question, LookAtTime(c, r)
    PROVE  PaceTypeOK' /\ NotAsked' /\ CallsAreCounted' /\ OverlapsAreSeen' /\ RecordIsNewer'
           /\ QuestionIsDue'
<1> DEFINE new == [pc |-> "send", question |-> r]
<1>1. /\ PaceTypeOK /\ ListTypeOK /\ new \in Call /\ new # NoCall
      /\ call' = [call EXCEPT ![c] = new] /\ UNCHANGED <<registered, info, since, renewed>>
      /\ call[c] = NoCall /\ r[1] \in registered /\ LastAsked(r) >= MaxAnswerTime
  BY DEF PaceInv, ListInv, LookAtTime, Call, NoCall, listVars
<1>2. \A q \in Question : LastAsked(q)' = LastAsked(q)
  BY <1>1 DEF LastAsked
<1>3. /\ \A q \in Question : InCall(c, q)' <=> q = r
      /\ \A q \in Question : ~InCall(c, q)
      /\ \A e \in Caller, q \in Question : e # c => (InCall(e, q)' <=> InCall(e, q))
      /\ call'[c].pc = "send"
      /\ \A e \in Caller : e # c => call'[e] = call[e]
  BY <1>1 DEF InCall, PaceTypeOK
<1>4. /\ overlap' \in [Caller -> BOOLEAN]
      /\ overlap'[c] <=> \E e \in Caller : InCall(e, r)
      /\ \A d \in Caller : d # c => (overlap'[d] <=> (overlap[d] \/ InCall(d, r)))
  BY <1>1 DEF LookAtTime, PaceTypeOK
<1> HIDE DEF new
<1>5. PaceTypeOK' /\ NotAsked'
  BY <1>1, <1>2, <1>4 DEF PaceInv, PaceTypeOK, NotAsked
<1>6. CallsAreCounted'
  BY <1>1, <1>3 DEF PaceInv, CallsAreCounted
<1>7. OverlapsAreSeen'
  BY <1>3, <1>4 DEF PaceInv, OverlapsAreSeen
<1>8. RecordIsNewer'
  BY <1>1, <1>2, <1>3 DEF PaceInv, RecordIsNewer, Unrecorded
<1>9. QuestionIsDue'
  <2>1. r \notin renewed /\ ~overlap'[c] => since[r] >= MaxAnswerTime
    <3>1. SUFFICES ASSUME r \notin renewed, ~overlap'[c] PROVE since[r] >= MaxAnswerTime
      OBVIOUS
    <3>2. since[r] >= LastAsked(r)
      BY <1>4, <3>1 DEF PaceInv, RecordIsNewer, Unrecorded
    <3>3. LastAsked(r) \in Age /\ since[r] \in Age
      BY <1>1, LastAskedAge DEF PaceTypeOK
    <3> QED BY <1>1, <3>2, <3>3, SensorListAssumption DEF Age, Forever
  <2> QED BY <1>1, <1>3, <1>4, <2>1 DEF PaceInv, QuestionIsDue
<1> QED BY <1>5, <1>6, <1>7, <1>8, <1>9

\* A call that sends its question.
LEMMA SendInv ==
    ASSUME PaceInv, NEW c \in Caller, SendQuestion(c)
    PROVE  PaceTypeOK' /\ NotAsked' /\ CallsAreCounted' /\ OverlapsAreSeen' /\ RecordIsNewer'
           /\ QuestionIsDue'
<1>0. PICK r \in Question : r = call[c].question
  BY DEF PaceInv, PaceTypeOK, SendQuestion, Call
<1>1. /\ PaceTypeOK /\ call[c] \in Call /\ call[c].question = r /\ call[c].pc = "send"
      /\ call' = [call EXCEPT ![c] = [@ EXCEPT !.pc = "record"]]
      /\ since' = [since EXCEPT ![r] = 0]
      /\ UNCHANGED <<registered, info, overlap, renewed>>
  BY <1>0 DEF PaceInv, PaceTypeOK, SendQuestion, Call, listVars
<1>2. \A q \in Question : LastAsked(q)' = LastAsked(q)
  BY <1>1 DEF LastAsked
<1>3. /\ call'[c] \in Call /\ call'[c].question = r /\ call'[c].pc = "record"
      /\ \A e \in Caller : e # c => call'[e] = call[e]
      /\ since'[r] = 0 /\ \A q \in Question : q # r => since'[q] = since[q]
  BY <1>1 DEF PaceTypeOK, Call
<1>4. call[c] # NoCall /\ call'[c] # NoCall
  BY <1>1, <1>3 DEF Call, NoCall
<1>5. \A e \in Caller, q \in Question : InCall(e, q)' <=> InCall(e, q)
  BY <1>1, <1>3, <1>4 DEF InCall
<1>6. InCall(c, r) /\ \A q \in Question : InCall(c, q) => q = r
  BY <1>1, <1>4 DEF InCall
<1>7. PaceTypeOK' /\ NotAsked'
  <2>1. since' \in [Question -> Age]
    BY <1>1, OlderAge DEF PaceTypeOK
  <2>2. call' \in [Caller -> Call \cup {NoCall}]
    BY <1>1, <1>3 DEF PaceTypeOK
  <2> QED BY <1>1, <1>2, <2>1, <2>2 DEF PaceInv, PaceTypeOK, NotAsked
<1>8. CallsAreCounted' /\ OverlapsAreSeen'
  BY <1>1, <1>5 DEF PaceInv, CallsAreCounted, OverlapsAreSeen
<1>9. RecordIsNewer'
  <2>1. Unrecorded(c, r)'
    BY <1>3, <1>5, <1>6, <1>1 DEF Unrecorded
  <2>2. \A e \in Caller, q \in Question : Unrecorded(e, q) => Unrecorded(e, q)'
    BY <1>1, <1>3, <1>5 DEF Unrecorded
  <2> QED BY <1>1, <1>2, <1>3, <2>1, <2>2 DEF PaceInv, RecordIsNewer
<1>10. QuestionIsDue'
  <2>1. \A e \in Caller : e # c /\ InCall(e, r) => overlap[e]
    BY <1>1, <1>6 DEF PaceInv, OverlapsAreSeen
  <2> QED BY <1>1, <1>3, <1>5, <1>6, <2>1 DEF PaceInv, QuestionIsDue
<1> QED BY <1>7, <1>8, <1>9, <1>10

\* A call that records the time, or finds its sensor erased.
LEMMA RecordInv ==
    ASSUME PaceInv, NEW c \in Caller, Record(c)
    PROVE  PaceTypeOK' /\ NotAsked' /\ CallsAreCounted' /\ OverlapsAreSeen' /\ RecordIsNewer'
           /\ QuestionIsDue'
<1>0. PICK r \in Question : r = call[c].question
  BY DEF PaceInv, PaceTypeOK, Record, Call
<1>1. /\ PaceTypeOK /\ ListTypeOK /\ call[c] \in Call /\ call[c].question = r /\ call[c] # NoCall
      /\ call' = [call EXCEPT ![c] = NoCall]
      /\ UNCHANGED <<since, overlap>>
  BY <1>0 DEF PaceInv, ListInv, PaceTypeOK, Record, Call
<1>2. \/ r[1] \notin registered /\ UNCHANGED <<registered, info, renewed>>
      \/ r[1] \in registered /\ RecordTime(r) /\ renewed' = renewed \ {r}
  BY <1>0 DEF Record, listVars
<1>3. InCall(c, r) /\ \A q \in Question : InCall(c, q) => q = r
  BY <1>1 DEF InCall
<1>4. /\ \A q \in Question : ~InCall(c, q)'
      /\ \A e \in Caller : e # c => call'[e] = call[e]
      /\ \A e \in Caller, q \in Question : e # c => (InCall(e, q)' <=> InCall(e, q))
  BY <1>1 DEF InCall, PaceTypeOK
<1>5. /\ UNCHANGED registered
      /\ \A q \in Question : q # r => LastAsked(q)' = LastAsked(q)
      /\ r[1] \in registered => LastAsked(r)' = 0
      /\ r[1] \notin registered => LastAsked(r)' = LastAsked(r) /\ UNCHANGED renewed
      /\ renewed \subseteq renewed' \cup {r} /\ renewed' \subseteq renewed
  <2>1. CASE r[1] \notin registered
    BY <1>2, <2>1 DEF LastAsked
  <2>2. CASE r[1] \in registered
    BY <1>1, <1>2, <2>2, RecordedAsked
  <2> QED BY <2>1, <2>2
<1>6. PaceTypeOK'
  BY <1>1, <1>5 DEF PaceTypeOK
<1>7. NotAsked'
  BY <1>1, <1>5 DEF PaceInv, NotAsked
<1>8. CallsAreCounted'
  <2>1. ASSUME NEW e \in Caller, NEW q \in Question, InCall(e, q)'
        PROVE  q[1] \in registered \/ q \in renewed'
    <3>1. e # c /\ InCall(e, q)
      BY <1>4, <2>1
    <3>2. q[1] \in registered \/ q \in renewed
      BY <3>1 DEF PaceInv, CallsAreCounted
    <3> QED BY <1>5, <3>2
  <2> QED BY <1>5, <2>1 DEF CallsAreCounted
<1>9. OverlapsAreSeen'
  BY <1>1, <1>4 DEF PaceInv, OverlapsAreSeen
<1>10. RecordIsNewer'
  <2>1. ASSUME NEW q \in Question \ renewed', \A e \in Caller : ~Unrecorded(e, q)'
        PROVE  since[q] >= LastAsked(q)'
    <3>1. CASE q = r
      <4>1. r[1] \in registered
        BY <1>3, <1>5, <1>1, <2>1, <3>1 DEF PaceInv, CallsAreCounted
      <4> QED BY <1>1, <1>5, <3>1, <4>1, SensorListAssumption DEF PaceTypeOK, Age, Forever
    <3>2. CASE q # r
      <4>1. \A e \in Caller : ~Unrecorded(e, q)
        BY <1>3, <1>4, <2>1, <3>2 DEF Unrecorded
      <4> QED BY <1>5, <2>1, <3>2, <4>1 DEF PaceInv, RecordIsNewer
    <3> QED BY <3>1, <3>2
  <2> QED BY <1>1, <2>1 DEF RecordIsNewer
<1>11. QuestionIsDue'
  <2>1. \A e \in Caller : e # c /\ InCall(e, r) => overlap[e]
    BY <1>1, <1>3 DEF PaceInv, OverlapsAreSeen
  <2> QED BY <1>1, <1>4, <1>5, <2>1 DEF PaceInv, QuestionIsDue
<1> QED BY <1>6, <1>7, <1>8, <1>9, <1>10, <1>11

\* A step of the list that no caller takes, and that changes no time of a question
\* but those of sensors that are not in the list.
LEMMA ListStepInv ==
    ASSUME PaceInv, UNCHANGED <<call, since, overlap>>, renewed \subseteq renewed',
           renewed' \subseteq Question,
           \A q \in Question :
              /\ q[1] \in registered => q[1] \in registered' \/ q \in renewed'
              /\ q[1] \notin registered' => LastAsked(q)' = Forever
              /\ q \notin renewed' =>
                    \/ LastAsked(q)' = LastAsked(q)
                    \/ q[1] \notin registered /\ LastAsked(q)' = Forever
    PROVE  PaceTypeOK' /\ NotAsked' /\ CallsAreCounted' /\ OverlapsAreSeen' /\ RecordIsNewer'
           /\ QuestionIsDue'
<1>1. PaceTypeOK' /\ NotAsked'
  BY DEF PaceInv, PaceTypeOK, NotAsked
<1>2. \A c \in Caller, q \in Question : InCall(c, q)' <=> InCall(c, q)
  BY DEF InCall
<1>3. CallsAreCounted' /\ OverlapsAreSeen'
  BY <1>2 DEF PaceInv, CallsAreCounted, OverlapsAreSeen
<1>4. RecordIsNewer'
  <2>1. ASSUME NEW q \in Question \ renewed', \A e \in Caller : ~Unrecorded(e, q)'
        PROVE  since[q] >= LastAsked(q)'
    <3>1. since[q] >= LastAsked(q)
      BY <1>2, <2>1 DEF PaceInv, RecordIsNewer, Unrecorded
    <3>2. q[1] \notin registered => LastAsked(q) = Forever
      BY DEF PaceInv, NotAsked
    <3> QED BY <2>1, <3>1, <3>2
  <2> QED BY <2>1 DEF RecordIsNewer
<1>5. QuestionIsDue'
  BY <1>2 DEF PaceInv, QuestionIsDue
<1> QED BY <1>1, <1>3, <1>4, <1>5

\* A second passes.
LEMMA TickInv ==
    ASSUME PaceInv, Tick
    PROVE  PaceTypeOK' /\ NotAsked' /\ CallsAreCounted' /\ OverlapsAreSeen' /\ RecordIsNewer'
           /\ QuestionIsDue'
<1>1. /\ PaceTypeOK /\ ListTypeOK /\ UNCHANGED <<registered, call, overlap, renewed>>
      /\ \A q \in Question : since'[q] = Older(since[q]) /\ LastAsked(q)' = Older(LastAsked(q))
      /\ since' = [q \in Question |-> Older(since[q])]
  BY AgedAsked DEF PaceInv, ListInv, Tick, SecondPasses
<1>2. /\ \A c \in Caller, q \in Question : InCall(c, q)' <=> InCall(c, q)
      /\ \A c \in Caller, q \in Question : Unrecorded(c, q)' <=> Unrecorded(c, q)
      /\ UNCHANGED <<registered, call, overlap, renewed>>
  BY <1>1 DEF InCall, Unrecorded
<1>3. PaceTypeOK' /\ NotAsked'
  BY <1>1, OlderAge DEF PaceInv, PaceTypeOK, NotAsked
<1>4. CallsAreCounted' /\ OverlapsAreSeen'
  BY <1>2 DEF PaceInv, CallsAreCounted, OverlapsAreSeen
<1>5. RecordIsNewer'
  BY <1>1, <1>2, OlderAge, LastAskedAge DEF PaceInv, PaceTypeOK, RecordIsNewer
<1>6. QuestionIsDue'
  <2>1. \A x \in Age : x >= MaxAnswerTime => Older(x) >= MaxAnswerTime
    BY SensorListAssumption DEF Older, Age, Forever
  <2> QED BY <1>1, <1>2, <2>1 DEF PaceInv, PaceTypeOK, QuestionIsDue
<1> QED BY <1>3, <1>4, <1>5, <1>6

\* Every step of the specification preserves the invariant.
LEMMA PaceNextInv == PaceInv /\ [Next]_vars => PaceInv'
<1> SUFFICES ASSUME PaceInv, [Next]_vars PROVE PaceInv'
  OBVIOUS
<1> DEFINE Rest == PaceTypeOK /\ NotAsked /\ CallsAreCounted /\ OverlapsAreSeen /\ RecordIsNewer
                   /\ QuestionIsDue
<1>0. ListTypeOK /\ ListInv /\ PaceTypeOK /\ renewed \subseteq Question /\ NotAsked
  BY DEF PaceInv, ListInv, PaceTypeOK
<1>1. ListInv'
  BY <1>0, PaceStepIsListStep, ListNextInv
<1>2. ASSUME NEW c \in Caller,
             SendQuestion(c) \/ Record(c) \/ \E q \in Question : LookAtTime(c, q)
      PROVE  Rest'
  BY <1>2, LookInv, SendInv, RecordInv
<1>3. ASSUME NEW a \in Addr, AddSensor(a)
      PROVE  Rest'
  <2>1. UNCHANGED <<call, since, overlap, renewed>> /\ registered' = registered \cup {a}
    BY <1>3 DEF AddSensor, SensorList_add_sensor
  <2>2. \A q \in Question :
          /\ q[1] = a /\ a \notin registered => LastAsked(q)' = Forever
          /\ ~(q[1] = a /\ a \notin registered) => LastAsked(q)' = LastAsked(q)
    BY <1>0, <1>3, AddedAsked DEF AddSensor
  <2>3. \A q \in Question : q[1] \notin registered' => LastAsked(q)' = Forever
    BY <1>0, <2>1, <2>2 DEF NotAsked
  <2> QED BY <1>0, <2>1, <2>2, <2>3, ListStepInv
<1>4. ASSUME NEW a \in Addr, EraseSensor(a)
      PROVE  Rest'
  <2>1. /\ UNCHANGED <<call, since, overlap>> /\ renewed' = renewed \cup {a} \X Kind
        /\ registered' = registered \ {a}
    BY <1>4 DEF EraseSensor, SensorList_erase_sensor
  <2>2. \A q \in Question : /\ q[1] = a => LastAsked(q)' = Forever /\ q \in renewed'
                            /\ q[1] # a => LastAsked(q)' = LastAsked(q)
    BY <1>0, <1>4, <2>1, ErasedAsked DEF EraseSensor, Question
  <2>3. renewed \subseteq renewed' /\ renewed' \subseteq Question
    BY <1>0, <2>1 DEF Question
  <2>4. \A q \in Question : q[1] \notin registered' => LastAsked(q)' = Forever
    BY <1>0, <2>1, <2>2 DEF NotAsked
  <2> QED BY <2>1, <2>2, <2>3, <2>4, ListStepInv
<1>5. ASSUME NEW a \in Addr, AnswerStored(a)
      PROVE  Rest'
  <2>1. UNCHANGED <<call, since, overlap, renewed, registered>>
    BY <1>5 DEF AnswerStored, SensorList_set_threshold, SensorList_set_values
  <2>2. \A q \in Question : LastAsked(q)' = LastAsked(q)
    BY <1>0, <1>5, StoredAsked DEF AnswerStored
  <2>3. \A q \in Question : q[1] \notin registered' => LastAsked(q)' = Forever
    BY <1>0, <2>1, <2>2 DEF NotAsked
  <2> QED BY <1>0, <2>1, <2>2, <2>3, ListStepInv
<1>6. ASSUME Tick PROVE Rest'
  BY <1>6, TickInv
<1>7. ASSUME UNCHANGED vars PROVE Rest'
  <2>1. UNCHANGED <<call, since, overlap, renewed, registered, info>>
    BY <1>7 DEF vars, listVars
  <2>2. \A q \in Question : LastAsked(q)' = LastAsked(q)
    BY <2>1 DEF LastAsked
  <2>3. \A q \in Question : q[1] \notin registered' => LastAsked(q)' = Forever
    BY <1>0, <2>1, <2>2 DEF NotAsked
  <2> QED BY <1>0, <2>1, <2>2, <2>3, ListStepInv
<1>8. Rest'
  BY <1>2, <1>3, <1>4, <1>5, <1>6, <1>7 DEF Next
<1> QED BY <1>1, <1>8 DEF PaceInv

\* The invariant holds in every state of the program.
THEOREM PaceInvariance == Spec => []PaceInv
BY PaceInitInv, PaceNextInv, PTL DEF Spec

\* Callers that look, send and record in any order use the list as ListSpec says, so
\* that ListSilenceIsReal and ListLateIsReported hold of it.
THEOREM PaceImplementsList == Spec => ListSpec
<1>1. Init => ListInit
  BY DEF Init
<1>2. PaceInv /\ [Next]_vars => [ListNext]_listVars
  BY PaceStepIsListStep DEF PaceInv
<1> QED BY <1>1, <1>2, PaceInvariance, PTL DEF Spec, ListSpec

\* Hence what the list shows of a silent or a late sensor is right with any number of
\* callers in the middle of a question.
THEOREM PaceStatus == Spec => [](ListTypeOK /\ SilenceIsReal /\ LateIsReported)
BY PaceImplementsList, ListTypeCorrect, ListSilenceIsReal, ListLateIsReported, PTL

\* A sensor gets no two questions of one kind within max_answer_time, unless two
\* calls overlap or the sensor was erased.
THEOREM PaceIsKeptTheorem == Spec => PaceIsKept
<1>1. ASSUME PaceInv, NEW c \in Caller, SendQuestion(c),
             since[call[c].question] < MaxAnswerTime
      PROVE  overlap[c] \/ call[c].question \in renewed
  <2>1. call[c].question \in Question /\ InCall(c, call[c].question) /\ call[c].pc = "send"
    BY <1>1 DEF PaceInv, PaceTypeOK, SendQuestion, InCall, Call
  <2>2. since[call[c].question] \in Age
    BY <1>1, <2>1 DEF PaceInv, PaceTypeOK
  <2>3. ~(since[call[c].question] >= MaxAnswerTime)
    BY <1>1, <2>2, SensorListAssumption DEF Age, Forever
  <2> QED BY <1>1, <2>1, <2>3 DEF PaceInv, QuestionIsDue
<1>2. PaceInv /\ [Next]_vars =>
        [\A c \in Caller : SendQuestion(c) /\ since[call[c].question] < MaxAnswerTime
             => overlap[c] \/ call[c].question \in renewed]_vars
  BY <1>1
<1> QED BY <1>2, PaceInvariance, PTL DEF Spec, PaceIsKept
================================================================================
