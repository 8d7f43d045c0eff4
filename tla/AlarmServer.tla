------------------------------- MODULE AlarmServer -------------------------------
(***************************************************************************)
(* server() of central/src/main.cpp, the alarms that sensors send to it    *)
(* and its buffer, on top of the addresses and datagrams of Addresses (its *)
(* end by a kill datagram is in Shutdown).                                 *)
(*                                                                         *)
(* The buffer is read as a text up to the first zero byte.  It is filled   *)
(* with zeros after every message, but not after one that raised an        *)
(* exception (the alarm of a sensor that is not registered), and not       *)
(* before the first one: then the text is the alarm followed by what the   *)
(* buffer held behind it.                                                  *)
(*                                                                         *)
(* An alarm is "alarm current_value: C typical_value: T", both numbers     *)
(* with six decimals that are zeros, since sensors measure whole numbers.  *)
(* Its length is that of the digits before the points, and a constant.     *)
(***************************************************************************)
EXTENDS Addresses

CONSTANT Pair      \* the pairs <<current, typical>> sensors send

ASSUME AlarmAssumption == Pair \subseteq (1..99) \X (1..99)

VARIABLES
    length,       \* characters of earlier alarms still in the buffer
    junk,         \* TRUE: behind those the buffer was never written
    misstored,    \* history: values were stored that the sensor had not sent
                  \* in this alarm, or under another address
    unstored      \* history: an alarm was sent back, but not stored

alarmVars == <<length, junk, misstored, unstored>>
vars == <<addressVars, alarmVars>>

Wrong == <<0, 0>>     \* a pair that no sensor sends
NoAlarm == <<>>       \* a text that is no alarm
NoNumber == <<0>>     \* one for which stof throws

\* Mutant: std::to_string of an int, which writes no decimals.
NoDecimals == 0

Decimals == 6

Digits(n) == IF n < 10 THEN 1 ELSE 2
Length(p) == Digits(p[1]) + Digits(p[2]) + 2 * Decimals

\* What stof makes of the typical value with `extra` characters of an older
\* alarm behind it: they are decimals as long as there are no more than these.
Parsed(p, extra) ==
    IF extra <= Decimals THEN {p} ELSE Pair \cup {Wrong}

\* What the buffer may be read as; junk may make anything of it.
Outcomes(p) ==
    IF junk THEN Pair \cup {Wrong, NoAlarm, NoNumber}
    ELSE Parsed(p, IF length > Length(p) THEN length - Length(p) ELSE 0)

Init ==
    /\ AddressesInit
    /\ length = 0
    /\ junk \in BOOLEAN
    /\ misstored = FALSE /\ unstored = FALSE

Alarm(h, p) ==
    [kind |-> "alarm", pair |-> p, from |-> h, fromPort |-> SensorAlarmPort,
     to |-> Here(h), toPort |-> AlarmPort]

\* updating_values_thread, with its own UDPClient.
SensorAlarms(h, p) ==
    /\ Send(Alarm(h, p))
    /\ UNCHANGED <<list, callbacks, adding, asked, alarmVars>>

\* set_values, for the address of the sender.
Stores(d, p) == IF p \in Pair \cup {Wrong} THEN {<<hostToString(ReceivedFrom(d)), p>>} ELSE {}

\* Mutant: an alarm is sent back whoever sent it.
ThrowsNever(d, p) == p = NoNumber

\* set_values throws for an address that is not in the list, stof for some texts.
Throws(d, p) ==
    \/ p = NoNumber
    \/ \E entry \in Stores(d, p) : entry[1] \notin list

\* Mutant: what an unknown sensor sent stays in front of the next message.
LeftAppended(d) == length + Length(d.pair)

\* What is in the buffer after a message that was put over an older one.
Left(d) == IF length > Length(d.pair) THEN length ELSE Length(d.pair)

\* Values are stored if the address is known; without an exception the message
\* is sent back, an alarm or not, and the buffer is cleared.
HandleAlarm(d, p) ==
    LET done == {entry \in Stores(d, p) : entry[1] \in list} IN
    /\ misstored' = (misstored \/ (~junk /\ ~(done \subseteq {<< <<d.from>>, d.pair>>})))
    /\ \/ /\ Throws(d, p)
          /\ length' = Left(d)
          /\ UNCHANGED <<junk, unstored>>
       \/ /\ ~Throws(d, p)
          /\ unstored' = (unstored \/ (~junk /\ done = {}))
          /\ length' = 0 /\ junk' = FALSE

\* One turn of the loop.
ReceiveAlarm(d) ==
    /\ d.kind = "alarm"
    /\ net' = net \ {d}
    /\ \E p \in Outcomes(d.pair) : HandleAlarm(d, p)
    /\ UNCHANGED <<list, callbacks, adding, asked>>

Next ==
    \/ AddressesNext /\ UNCHANGED alarmVars
    \/ \E h \in V4 \cup V6, p \in Pair : SensorAlarms(h, p)
    \/ \E d \in net : ReceiveAlarm(d)

Spec == Init /\ [][Next]_vars
-----------------------------------------------------------------------------
(* Properties.                                                              *)

\* Type invariant; the buffer never holds more than the longest alarm.
AlarmTypeOK ==
    /\ AddressesTypeOK
    /\ length \in {0} \cup {Length(p) : p \in Pair}
    /\ {junk, misstored, unstored} \subseteq BOOLEAN

\* What is stored for a sensor is what this sensor sent in the alarm at hand,
\* although the buffer may still hold a longer alarm of an unknown sensor; only
\* bytes that were in the buffer before anything was received can change it.
StoredIsSent == ~misstored

\* An alarm that comes back to its sensor (which prints "alarm confirmed by") has
\* been stored, except for bytes as above.
ConfirmedIsStored == ~unstored
================================================================================
