------------------------------ MODULE Persistence ------------------------------
(***************************************************************************)
(* ~/.RoSA/data.txt: SensorList::write_to_file, which the polling thread   *)
(* calls after every round and main once more at the end, and              *)
(* init_from_file of central/src/main.cpp, which reads the file when       *)
(* central starts.  Central may end at any moment.                         *)
(*                                                                         *)
(* write_to_file copies the list under the mutex and then writes without   *)
(* it: the file is truncated when it is opened, and every line is flushed  *)
(* (std::endl), so that what a crash leaves is a number of whole lines.    *)
(* A Communicator call is one step here (its steps are those of Central);  *)
(* thresholds are whole, as the sensors confirm them.  100, the threshold  *)
(* of a new entry, is one that no sensor accepts.                          *)
(***************************************************************************)
EXTENDS Naturals, Sequences, SequencesExt, Sorting

CONSTANTS
    Addr,           \* addresses: numbers, in the order of std::map
    Threshold,      \* the thresholds in use
    DefaultThreshold,
    NoSave          \* no snapshot is waiting to be written

ASSUME PersistenceAssumption ==
    /\ Addr \subseteq Nat
    /\ DefaultThreshold \in Threshold
    /\ NoSave \notin UNION {[S -> Threshold] : S \in SUBSET Addr}

VARIABLES
    phase,     \* "down", "init" (init_from_file), "run", "last" (threads joined)
    list,      \* SensorList: the registered addresses, with their thresholds
    flight,    \* per address: thresholds asked for whose answers may still come
    waiting,   \* addresses with a saved callback for such an answer
    file,      \* data.txt: a sequence of lines, each an address and a threshold
    save,      \* write_to_file: "idle", "open" (list copied) or "lines"
    lines,     \* the lines it has not written yet
    rest,      \* init_from_file: the lines it has not read yet
    fresh      \* history: entries no sensor has confirmed a threshold of

vars == <<phase, list, flight, waiting, file, save, lines, rest, fresh>>

Nobody == [a \in {} |-> DefaultThreshold]

\* The loop over the map in write_to_file.
LinesOf(l) == [i \in 1..Cardinality(DOMAIN l) |->
                 LET a == Ascending(DOMAIN l)[i] IN <<a, l[a]>>]

\* The list a sequence of lines describes.
ListOf(s) == [a \in {s[i][1] : i \in DOMAIN s} |->
                LET i == CHOOSE j \in DOMAIN s : s[j][1] = a IN s[i][2]]

Init ==
    /\ phase = "down"
    /\ list = Nobody
    /\ flight = [a \in Addr |-> {}]
    /\ waiting = {}
    /\ file = <<>>
    /\ save = "idle" /\ lines = <<>> /\ rest = <<>>
    /\ fresh = {}

fileVars == <<file, save, lines>>
-----------------------------------------------------------------------------
(* Communicator calls.                                                      *)

\* set_threshold: sends a question and saves a callback; the answer, if the
\* sensor accepts the threshold, may come at any later time.
Ask(a, t) ==
    /\ flight' = IF t = DefaultThreshold THEN flight
                 ELSE [flight EXCEPT ![a] = @ \cup {t}]
    /\ waiting' = waiting \cup {a}

\* Mutant: a sensor that is registered gets a new entry.
EmplaceAnew(a) == [b \in DOMAIN list \cup {a} |->
                     IF b = a THEN DefaultThreshold ELSE list[b]]

\* sensors.emplace: a sensor that is registered keeps its entry.
Emplace(a) == [b \in DOMAIN list \cup {a} |->
                 IF b \in DOMAIN list THEN list[b] ELSE DefaultThreshold]

\* Communicator::add_sensor: a registered sensor gets no question when it got one
\* less than max_answer_time ago.
add_sensor(a, t) ==
    /\ list' = Emplace(a)
    /\ fresh' = fresh \cup ({a} \ DOMAIN list)
    /\ Ask(a, t) \/ (a \in DOMAIN list /\ UNCHANGED <<flight, waiting>>)

UserAdds(a, t) ==
    /\ phase = "run"
    /\ add_sensor(a, t)
    /\ UNCHANGED <<phase, fileVars, rest>>

UserSetsThreshold(a, t) ==
    /\ phase = "run"
    /\ a \in DOMAIN list
    /\ Ask(a, t)
    /\ UNCHANGED <<phase, list, fileVars, rest, fresh>>

UserErases(a) ==
    /\ phase = "run"
    /\ a \in DOMAIN list
    /\ list' = [b \in DOMAIN list \ {a} |-> list[b]]
    /\ UNCHANGED <<phase, flight, waiting, fileVars, rest, fresh>>

\* An answer, to the latest question or to an older one, arrives while central
\* runs: a saved callback stores it if the sensor is registered.
Answered(a, t) ==
    /\ phase # "down"
    /\ t \in flight[a]
    /\ flight' = [flight EXCEPT ![a] = @ \ {t}]
    /\ waiting' = waiting \ {a}
    /\ IF a \in waiting /\ a \in DOMAIN list
       THEN list' = [list EXCEPT ![a] = t] /\ fresh' = fresh \ {a}
       ELSE UNCHANGED <<list, fresh>>
    /\ UNCHANGED <<phase, fileVars, rest>>

\* An answer, or the question, is lost.
Lose(a, t) ==
    /\ t \in flight[a]
    /\ flight' = [flight EXCEPT ![a] = @ \ {t}]
    /\ UNCHANGED <<phase, list, waiting, fileVars, rest, fresh>>
-----------------------------------------------------------------------------
(* SensorList::write_to_file.                                               *)

\* Mutant: the polling thread does not save, only main does.
SavesOnlyAtTheEnd == phase = "last"

\* The polling thread saves after every round, main at the end.
Saves == phase \in {"run", "last"}

\* The copy under the mutex.
CopyList ==
    /\ Saves
    /\ save = "idle"
    /\ lines' = LinesOf(list)
    /\ save' = "open"
    /\ UNCHANGED <<phase, list, flight, waiting, file, rest, fresh>>

OpenFile ==
    /\ save = "open"
    /\ file' = <<>>
    /\ save' = "lines"
    /\ UNCHANGED <<phase, list, flight, waiting, lines, rest, fresh>>

\* write_to_file returns; the save that main makes at the end is the last thing it
\* does.
SaveReturns ==
    /\ save' = "idle"
    /\ IF phase = "last"
       THEN phase' = "down" /\ list' = Nobody /\ waiting' = {} /\ fresh' = {}
       ELSE UNCHANGED <<phase, list, waiting, fresh>>

\* open fails, which nobody looks at: the lines go nowhere, the file stays as it is.
OpenFails ==
    /\ save = "open"
    /\ lines' = <<>>
    /\ SaveReturns
    /\ UNCHANGED <<flight, file, rest>>

\* Mutant: the thresholds are read from the list while the file is written.
NextLineLive ==
    LET a == Head(lines)[1] IN <<a, IF a \in DOMAIN list THEN list[a] ELSE Head(lines)[2]>>

NextLine == Head(lines)

WriteLine ==
    /\ save = "lines"
    /\ lines # <<>>
    /\ file' = Append(file, NextLine)
    /\ lines' = Tail(lines)
    /\ UNCHANGED <<phase, list, flight, waiting, save, rest, fresh>>

CloseFile ==
    /\ save = "lines"
    /\ lines = <<>>
    /\ SaveReturns
    /\ UNCHANGED <<flight, file, lines, rest>>
-----------------------------------------------------------------------------
(* main and init_from_file.                                                 *)

StartEmpty ==
    /\ phase = "down"
    /\ phase' = "run"
    /\ UNCHANGED <<list, flight, waiting, fileVars, rest, fresh>>

StartFromFile ==
    /\ phase = "down"
    /\ phase' = IF file = <<>> THEN "run" ELSE "init"
    /\ rest' = file
    /\ UNCHANGED <<list, flight, waiting, fileVars, fresh>>

ReadLine ==
    /\ phase = "init"
    /\ rest # <<>>
    /\ add_sensor(Head(rest)[1], Head(rest)[2])
    /\ rest' = Tail(rest)
    /\ UNCHANGED <<phase, fileVars>>

\* After the last line the stream holds a newline, not yet eof: the failing >>
\* leaves address and threshold as they are, and the last line counts twice.
ReadLastLineAgain ==
    /\ phase = "init"
    /\ rest = <<>>
    /\ add_sensor(Last(file)[1], Last(file)[2])
    /\ phase' = "run"
    /\ UNCHANGED <<fileVars, rest>>

\* "exit" has been executed and the polling thread is joined (see Shutdown).
ThreadsJoined ==
    /\ phase = "run"
    /\ save = "idle"
    /\ phase' = "last"
    /\ UNCHANGED <<list, flight, waiting, fileVars, rest, fresh>>

\* The process ends before it is through.
Crash ==
    /\ phase # "down"
    /\ phase' = "down"
    /\ list' = Nobody /\ waiting' = {} /\ fresh' = {}
    /\ save' = "idle" /\ lines' = <<>> /\ rest' = <<>>
    /\ UNCHANGED <<flight, file>>

Saver == CopyList \/ OpenFile \/ OpenFails \/ WriteLine \/ CloseFile
Reader == ReadLine \/ ReadLastLineAgain

Next ==
    \/ \E a \in Addr, t \in Threshold :
          UserAdds(a, t) \/ UserSetsThreshold(a, t) \/ Answered(a, t) \/ Lose(a, t)
    \/ \E a \in Addr : UserErases(a)
    \/ Saver \/ Reader
    \/ StartEmpty \/ StartFromFile \/ ThreadsJoined \/ Crash

\* Central's main thread and its polling thread are never kept from running.
Spec == Init /\ [][Next]_vars /\ WF_vars(Saver) /\ WF_vars(Reader)
-----------------------------------------------------------------------------
(* Properties.                                                              *)

\* The file that write_to_file rewrites line by line keeps the promises of
\* DurableList: a save takes effect as the copy it made, whatever happens to
\* the list meanwhile, when open truncates the file.
Durable == INSTANCE DurableList WITH
    mode <- CASE phase = "down" -> "down" [] phase = "init" -> "restoring"
              [] OTHER -> "running",
    snap <- IF save = "open" THEN ListOf(lines) ELSE NoSave,
    durable <- ListOf(IF save = "lines" THEN file \o lines ELSE file),
    settled <- save # "lines"

SavesAreAtomic == Durable!DurableSpec

\* An entry shows (and write_to_file saves) the threshold 100 only as long as
\* its sensor has not confirmed another one since it was registered, at this
\* start or later: adding it again, or reading its line twice, resets nothing.
DefaultMeansUnconfirmed ==
    \A a \in DOMAIN list : list[a] = DefaultThreshold => a \in fresh

\* A sensor that stays in the list with a threshold is in the file with that
\* threshold again and again: the polling thread's rounds do save, unless the file
\* cannot be opened again and again.
KeptIsSaved ==
    \A a \in Addr, t \in Threshold :
        <>[](a \in DOMAIN list /\ list[a] = t)
            => []<>(<<a, t>> \in ToSet(file)) \/ []<><<OpenFails>>_vars
================================================================================
