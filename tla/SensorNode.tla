------------------------------- MODULE SensorNode -------------------------------
(***************************************************************************)
(* The sensor program (sensor/src/main.cpp) from the inside: the thread    *)
(* that measures, the thread that sets the threshold and the main thread   *)
(* that answers get_value share three atomic variables and nothing else.   *)
(* Thresholds arrive as texts that central makes of what a user asked for: *)
(* numbers in tenths, or NaN.                                              *)
(***************************************************************************)
EXTENDS Naturals, Sequences, Sorting

CONSTANTS
    Value,      \* the values read_current_value may return
    Window,     \* the size of the ring last60
    Asked,      \* the thresholds users ask for, in tenths
    NaN         \* the threshold "nan"

ASSUME SensorNodeAssumption ==
    /\ Value \subseteq 1..99
    /\ Window \in Nat \ {0}
    /\ Asked \subseteq Nat
    /\ NaN \notin Nat

VARIABLES
    last60, pointer, amount,      \* locals of updating_values_thread
    current_value, typical, threshold,
    alarmStr,    \* the text of its latest alarm: the two values it tells
    updating,    \* updating_values_thread: "measure", "median", "compare" or "alarm"
    setting,     \* set_threshold_receive_thread: "receive" or "ended"
    inbox,       \* set_threshold texts on their way to it
    reading,     \* main: "receive", or which of the two atomics it has read
    got,         \* what main has read
    calm,        \* history: no measurement went on since main began to read
    told,        \* history: the alarm sent since the latest measurement
    changed,     \* history: threshold stored since the latest comparison
    nanSent      \* history: a "nan" was sent

ring == <<last60, pointer, amount>>
updateVars == <<ring, current_value, typical, alarmStr, updating>>
settingVars == <<threshold, setting, inbox, nanSent>>
readingVars == <<reading, got>>
nodeVars == <<updateVars, settingVars, readingVars, calm, told, changed>>

Nothing == [current |-> 0, typical |-> 0]

NodeInit ==
    /\ last60 = [i \in 0..Window-1 |-> 0]   \* read only once it is written
    /\ pointer = 0 /\ amount = 0
    /\ current_value = 40 /\ typical = 0 /\ threshold = 100
    /\ updating = "measure" /\ setting = "receive" /\ reading = "receive"
    /\ inbox = {}
    /\ got = Nothing /\ alarmStr = Nothing /\ told = Nothing
    /\ calm = TRUE /\ changed = FALSE /\ nanSent = FALSE
-----------------------------------------------------------------------------
(* updating_values_thread.                                                  *)

\* Mutant: the upper of the two middle values.
calculate_median_upper(array, size) ==
    Sorted([i \in 1..size |-> array[i-1]])[size \div 2 + 1]

\* Element i of the sorted vector is at place i + 1 of a sequence.
calculate_median(array, size) ==
    LET medianVec == Sorted([i \in 1..size |-> array[i-1]])
    IN  IF size % 2 = 1
        THEN medianVec[size \div 2 + 1]
        ELSE (medianVec[size \div 2] + medianVec[size \div 2 + 1]) \div 2

NextAmount == IF amount < Window THEN amount + 1 ELSE amount

\* read_current_value, after the sleep.
Measure(v) ==
    /\ updating = "measure"
    /\ current_value' = v
    /\ last60' = [last60 EXCEPT ![pointer] = v]
    /\ pointer' = (pointer + 1) % Window
    /\ amount' = NextAmount
    /\ updating' = "median"
    /\ calm' = FALSE /\ told' = Nothing
    /\ UNCHANGED <<typical, alarmStr, settingVars, readingVars, changed>>

StoreMedian ==
    /\ updating = "median"
    /\ typical' = calculate_median(last60, amount)
    /\ updating' = "compare"
    /\ UNCHANGED <<ring, current_value, alarmStr, settingVars, readingVars, calm, changed, told>>

\* Mutant: the text is put together once, and sent again after that.
AlarmTextKept ==
    IF alarmStr = Nothing THEN [current |-> current_value, typical |-> typical] ELSE alarmStr

AlarmText == [current |-> current_value, typical |-> typical]

\* A value that is too large is put into the text of an alarm.
Compare ==
    /\ updating = "compare"
    /\ IF current_value > threshold
       THEN updating' = "alarm" /\ alarmStr' = AlarmText
       ELSE updating' = "measure" /\ UNCHANGED alarmStr
    /\ changed' = FALSE
    /\ UNCHANGED <<ring, current_value, typical, settingVars, readingVars, calm, told>>

AlarmDone ==
    /\ updating = "alarm"
    /\ updating' = "measure"
    /\ UNCHANGED <<ring, current_value, typical, alarmStr, settingVars, readingVars,
                   calm, changed>>

SendAlarm ==
    /\ AlarmDone
    /\ told' = alarmStr

\* sendAndSaveCallback throws: nothing goes out, and the thread goes on.
AlarmFails ==
    /\ AlarmDone
    /\ UNCHANGED told
-----------------------------------------------------------------------------
(* set_threshold: central's checks and the sensor's thread.                 *)

\* The range checks of Communicator: every comparison with NaN is false.
PassesCentral(t) == t # NaN => t <= 1000

CentralSends(t) ==
    /\ PassesCentral(t)
    /\ inbox = {}   \* bound: one text at a time
    /\ inbox' = {t}
    /\ nanSent' = (nanSent \/ t = NaN)
    /\ UNCHANGED <<updateVars, threshold, setting, readingVars, calm, changed, told>>

LoseText(t) ==
    /\ t \in inbox
    /\ inbox' = inbox \ {t}
    /\ UNCHANGED <<updateVars, threshold, setting, nanSent, readingVars, calm, changed, told>>

\* Mutant: a threshold out of range is an exception as well.
EndsThreadOutOfRange(t) == t \notin 10..999

\* stoi of "nan" is an exception.
EndsThread(t) == t = NaN

\* stoi reads the whole part; a number out of range is only printed.
set_threshold(t) ==
    /\ setting = "receive"
    /\ t \in inbox
    /\ inbox' = inbox \ {t}
    /\ \/ /\ EndsThread(t)
          /\ setting' = "ended"
          /\ UNCHANGED <<threshold, changed>>
       \/ /\ ~EndsThread(t)
          /\ IF t \div 10 > 0 /\ t \div 10 < 100
             THEN threshold' = t \div 10 /\ changed' = TRUE
             ELSE UNCHANGED <<threshold, changed>>
          /\ UNCHANGED setting
    /\ UNCHANGED <<updateVars, nanSent, readingVars, calm, told>>
-----------------------------------------------------------------------------
(* main: the two atomics are read in an order that C++ leaves open.         *)

ReadFirst(x) ==
    /\ reading = "receive"
    /\ reading' = x
    /\ got' = [got EXCEPT ![x] = IF x = "current" THEN current_value ELSE typical]
    /\ calm' = (updating # "median")
    /\ UNCHANGED <<updateVars, settingVars, changed, told>>

\* Mutant: the two values in the wrong places.
AnswerSwapped ==
    IF reading = "current" THEN [current |-> typical, typical |-> got.current]
    ELSE [current |-> got.typical, typical |-> current_value]

\* The answer, of the value read before and the other one as it is now.
Answer ==
    IF reading = "current" THEN [got EXCEPT !.typical = typical]
    ELSE [got EXCEPT !.current = current_value]

SendAnswer ==
    /\ reading # "receive"
    /\ reading' = "receive"
    /\ got' = Nothing
    /\ UNCHANGED <<updateVars, settingVars, calm, changed, told>>

NodeNext ==
    \/ \E v \in Value : Measure(v)
    \/ StoreMedian \/ Compare \/ SendAlarm \/ AlarmFails
    \/ \E t \in Asked \cup {NaN} : CentralSends(t) \/ LoseText(t) \/ set_threshold(t)
    \/ \E x \in {"current", "typical"} : ReadFirst(x)
    \/ SendAnswer

\* Fairness: set_threshold_receive_thread takes what has arrived at its socket.
NodeSpec ==
    /\ NodeInit /\ [][NodeNext]_nodeVars
    /\ WF_nodeVars(\E t \in Asked \cup {NaN} : set_threshold(t))
-----------------------------------------------------------------------------
(* Properties.                                                              *)

\* The ring and the sort of updating_values_thread implement a median over the
\* latest Window measurements.
SM == INSTANCE SlidingMedian WITH
    current <- current_value,
    FirstCurrent <- 40, FirstTypical <- 0,
    window <- [i \in 1..amount |-> last60[(pointer + Window - amount + i - 1) % Window]]

TypicalIsMedian == SM!MedianSpec

\* An answer during which nothing is measured tells the current and the typical
\* value of one and the same measurement (of none, before the first): only a
\* measurement that main meets in the middle tears the pair apart.
CalmAnswerIsOnePair ==
    [][SendAnswer /\ calm =>
         Answer = [current |-> current_value,
                   typical |-> IF amount = 0 THEN 0
                               ELSE calculate_median(last60, amount)]]_nodeVars

\* An alarm tells the current and the typical value of one and the same
\* measurement, the latest, and this value is above the threshold, unless the other
\* thread stored a new one between the comparison and the alarm.
AlarmIsOnePair ==
    [][SendAlarm =>
         /\ told' = [current |-> current_value, typical |-> calculate_median(last60, amount)]
         /\ told'.current > threshold \/ changed]_nodeVars

\* A threshold that reaches the sensor is taken from its socket, however many came
\* before, as long as no "nan" did: the numbers that central lets through and the
\* sensor does not accept (0, 0.5, 100) are refused, and do not end the thread.
ThresholdsAreTaken == (inbox # {}) ~> (inbox = {} \/ nanSent)
================================================================================
