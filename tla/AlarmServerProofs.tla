--------------------------- MODULE AlarmServerProofs ---------------------------
(***************************************************************************)
(* Addresses and alarms, for any set of hosts and names, any ports from    *)
(* the sixteen bits and any alarms.  The properties are about datagrams    *)
(* when they arrive; DatagramOK says what holds of each kind of datagram   *)
(* all the way from its sender, and CallOK what an add_sensor call may     *)
(* rely on between its two questions to the resolver.                      *)
(***************************************************************************)
EXTENDS AlarmServer, FiniteSetTheorems, TLAPS

Sensors == V4 \cup V6
Port == 0..MaxPort

PlainDatagram ==
    [kind: {"question", "answer", "kill"}, from: Host, fromPort: Port, to: Host, toPort: Port]
AlarmDatagram ==
    [kind: {"alarm"}, pair: Pair, from: Host, fromPort: Port, to: Host, toPort: Port]

\* A question is on its way to a sensor that is on record, an answer on its way back to
\* the receiver's port, and only kills leave central's send port for itself.
DatagramOK(d) ==
    /\ d \in PlainDatagram \cup AlarmDatagram
    /\ d.kind = "question" =>
           /\ d.fromPort = SendPort /\ d.toPort = SensorPort /\ d.to \in Sensors
           /\ << <<d.to>>, << <<d.to>>, SensorPort>> >> \in asked
    /\ d.kind = "answer" =>
           /\ d.fromPort = SensorPort /\ d.toPort = ReceivePort /\ d.from \in Sensors
           /\ << <<d.from>>, << <<d.from>>, SensorPort>> >> \in asked
    /\ d.kind = "kill" => d.from = Loopback6 /\ d.fromPort = SendPort
    /\ d.kind = "alarm" =>
           /\ d \in AlarmDatagram /\ d.from \in Sensors
           /\ d.fromPort = SensorAlarmPort /\ d.toPort = AlarmPort

\* What an add_sensor call has registered stays registered until it asks again, unless
\* another thread erases it.
CallOK(call) ==
    /\ call \in [who: Caller, text: Text, erased: BOOLEAN]
    /\ ~call.erased => \E h \in Meanings(call.text) : <<h>> \in list

AddressesInv ==
    /\ AddressesTypeOK
    /\ \A d \in net : DatagramOK(d)
    /\ \A call \in adding : CallOK(call)

AlarmInv ==
    /\ AddressesInv
    /\ AlarmTypeOK
    /\ StoredIsSent
    /\ ConfirmedIsStored
-----------------------------------------------------------------------------
(* Addresses as texts.                                                      *)

\* The text of a host is the same for a user's address and for a received one.
LEMMA HostText ==
    ASSUME NEW a, a.host \in Sensors
    PROVE  hostToString(a) = <<a.host>> /\ toString(a) = << <<a.host>>, a.port>>
<1>1. a.host # "::ffff:"
  BY AddressesAssumption DEF Sensors
<1>2. CASE a.family = "AF_INET6" /\ a.host \in V4
  <2>1. Numeric(a) = <<"::ffff:", a.host>>
    BY <1>2 DEF Numeric
  <2>2. Tail(<<"::ffff:", a.host>>) = <<a.host>>
    OBVIOUS
  <2> QED BY <2>1, <2>2 DEF hostToString, toString
<1>3. CASE ~(a.family = "AF_INET6" /\ a.host \in V4)
  BY <1>1, <1>3 DEF Numeric, hostToString, toString
<1> QED BY <1>2, <1>3

\* Whatever a user wrote means hosts that sensors run on, finitely many.
LEMMA MeaningsAreSensors ==
    ASSUME NEW text \in Text
    PROVE  Meanings(text) \subseteq Sensors /\ IsFiniteSet(Meanings(text))
<1>1. CASE text \in [form: {"name"}, name: Name]
  BY <1>1, AddressesAssumption DEF Meanings, Sensors
<1>2. CASE text \in [form: {"dots", "mapped"}, host: V4] \cup [form: {"colons"}, host: V6]
  <2>1. Meanings(text) = {text.host} /\ text.host \in Sensors
    BY <1>2 DEF Meanings, Sensors
  <2> QED BY <2>1, FS_Singleton
<1> QED BY <1>1, <1>2 DEF Text

\* The address made from a text and a meaning of it.
LEMMA AddressText ==
    ASSUME NEW text \in Text, NEW h \in Meanings(text)
    PROVE  /\ h \in Sensors
           /\ hostToString(Address(text, h, SensorPort)) = <<h>>
           /\ toString(Address(text, h, SensorPort)) = << <<h>>, SensorPort>>
           /\ KeyOf(text, h) = <<h>>
<1>1. h \in Sensors
  BY MeaningsAreSensors
<1>2. Address(text, h, SensorPort).host = h /\ Address(text, h, SensorPort).port = SensorPort
  BY DEF Address
<1> QED BY <1>1, <1>2, HostText DEF KeyOf

\* Two different members make a finite set of more than one.
LEMMA TwoMembers ==
    ASSUME NEW S, IsFiniteSet(S), NEW x \in S, NEW y \in S, x # y
    PROVE  Cardinality(S) > 1
<1>1. IsFiniteSet({x}) /\ Cardinality({x}) = 1
  BY FS_Singleton
<1>2. IsFiniteSet({x} \cup {y}) /\ Cardinality({x} \cup {y}) = 2
  BY <1>1, FS_AddElement
<1>3. {x} \cup {y} \subseteq S
  OBVIOUS
<1>4. Cardinality({x} \cup {y}) <= Cardinality(S) /\ Cardinality(S) \in Nat
  BY <1>3, FS_Subset, FS_CardinalityType
<1> QED BY <1>2, <1>4
-----------------------------------------------------------------------------
(* The steps of Addresses.                                                  *)

\* A datagram keeps what holds of it as long as nothing is forgotten.
LEMMA DatagramsStay ==
    ASSUME \A d \in net : DatagramOK(d), NEW D, D \subseteq net,
           asked \subseteq asked'
    PROVE  \A d \in D : DatagramOK(d)'
BY DEF DatagramOK

\* The types of the network follow from what holds of each datagram.
LEMMA NetTypes ==
    ASSUME NEW d, DatagramOK(d)
    PROVE  {d.from, d.to} \subseteq Host /\ {d.fromPort, d.toPort} \subseteq 0..MaxPort
BY DEF DatagramOK, PlainDatagram, AlarmDatagram, Port

\* The ports of the program are ports.
LEMMA Ports == {SensorPort, SendPort, ReceivePort, AlarmPort, SensorAlarmPort} \subseteq Port
BY AddressesAssumption DEF SensorPort, SendPort, ReceivePort, AlarmPort, SensorAlarmPort, Port

\* Communicator::add_sensor.
LEMMA AddSensorInv ==
    ASSUME AddressesInv, NEW who \in Caller, NEW text \in Text, add_sensor(who, text)
    PROVE  AddressesInv'
<1>1. PICK h \in Meanings(text) : list' = list \cup {<<h>>}
  BY AddressText DEF add_sensor
<1>2. h \in Sensors
  BY AddressText
<1> DEFINE new == [who |-> who, text |-> text, erased |-> FALSE]
<1>3. adding' = adding \cup {new} /\ UNCHANGED <<callbacks, net, asked>>
  BY DEF add_sensor
<1>4. new \in [who: Caller, text: Text, erased: BOOLEAN] /\ new.text = text
  OBVIOUS
<1> HIDE DEF new
<1>5. AddressesTypeOK'
  BY <1>1, <1>2, <1>3, <1>4 DEF AddressesInv, AddressesTypeOK, Sensors, Key
<1>6. \A d \in net' : DatagramOK(d)'
  BY <1>3, DatagramsStay DEF AddressesInv
<1>7. \A c \in adding' : CallOK(c)'
  BY <1>1, <1>3, <1>4 DEF AddressesInv, CallOK
<1> QED BY <1>5, <1>6, <1>7 DEF AddressesInv

\* Communicator::erase_sensor, also between the two halves of another add_sensor.
LEMMA EraseSensorInv ==
    ASSUME AddressesInv, NEW who \in Caller, NEW text \in Text, erase_sensor(who, text)
    PROVE  AddressesInv'
<1> DEFINE concerned(key) ==
        {call \in adding : \E g \in Meanings(call.text) : KeyOf(call.text, g) = key}
<1>1. PICK key : /\ list' = list \ {key}
                 /\ adding' = (adding \ concerned(key))
                                \cup {[call EXCEPT !.erased = TRUE] : call \in concerned(key)}
  BY DEF erase_sensor
<1>2. UNCHANGED <<callbacks, net, asked>>
  BY DEF erase_sensor
<1>3. \A d \in net' : DatagramOK(d)'
  BY <1>2, DatagramsStay DEF AddressesInv
<1>4. ASSUME NEW c \in adding' PROVE CallOK(c)'
  <2>1. CASE c \in adding \ concerned(key)
    <3>1. CallOK(c)
      BY <2>1 DEF AddressesInv
    <3>2. \A g \in Meanings(c.text) : <<g>> # key
      BY <2>1, <3>1, AddressText DEF CallOK
    <3> QED BY <1>1, <3>1, <3>2 DEF CallOK
  <2>2. CASE c \in {[call EXCEPT !.erased = TRUE] : call \in concerned(key)}
    <3>1. PICK call \in adding : c = [call EXCEPT !.erased = TRUE]
      BY <2>2
    <3>2. call \in [who: Caller, text: Text, erased: BOOLEAN]
      BY <3>1 DEF AddressesInv, CallOK
    <3> QED BY <3>1, <3>2 DEF CallOK
  <2> QED BY <1>1, <1>4, <2>1, <2>2
<1>5. AddressesTypeOK'
  <2>1. adding' \subseteq [who: Caller, text: Text, erased: BOOLEAN]
    BY <1>4 DEF CallOK
  <2> QED BY <1>1, <1>2, <2>1 DEF AddressesInv, AddressesTypeOK
<1> QED BY <1>3, <1>4, <1>5 DEF AddressesInv

\* Communicator::set_threshold of a known sensor, on its own or as the end of an
\* add_sensor call.
LEMMA AsksInv ==
    ASSUME AddressesInv, NEW text \in Text, Asks(text), adding' \subseteq adding
    PROVE  AddressesInv'
<1> DEFINE a(h) == Address(text, h, SensorPort)
           q(h) == Datagram("question", Here(h), SendPort, h, SensorPort)
<1>1. UNCHANGED list
  BY DEF Asks
<1>2. PICK h \in Meanings(text) :
        \/ /\ Send(q(h))
           /\ callbacks' = callbacks \cup {toString(a(h))}
           /\ asked' = asked \cup {<<hostToString(a(h)), toString(a(h))>>}
        \/ UNCHANGED <<callbacks, net, asked>>
  BY DEF Asks
<1>3. /\ h \in Sensors /\ hostToString(a(h)) = <<h>> /\ toString(a(h)) = << <<h>>, SensorPort>>
  BY AddressText
<1> HIDE DEF a
<1>4. \A c \in adding' : CallOK(c)'
  BY <1>1 DEF AddressesInv, CallOK
<1>5. CASE Send(q(h)) /\ ~UNCHANGED <<callbacks, net, asked>>
  <2>1. /\ net' = net \cup {q(h)}
        /\ callbacks' = callbacks \cup {<< <<h>>, SensorPort>>}
        /\ asked' = asked \cup {<< <<h>>, << <<h>>, SensorPort>> >>}
    BY <1>2, <1>3, <1>5 DEF Send
  <2>2. DatagramOK(q(h))'
    <3>1. q(h) \in PlainDatagram
      BY <1>3, Ports DEF Datagram, PlainDatagram, Here, Host, Sensors
    <3> QED BY <1>3, <2>1, <3>1 DEF DatagramOK, Datagram
  <2> HIDE DEF q
  <2>3. \A d \in net' : DatagramOK(d)'
    BY <2>1, <2>2, DatagramsStay DEF AddressesInv
  <2>4. AddressesTypeOK'
    <3>1. <<h>> \in Key
      BY <1>3 DEF Sensors, Key
    <3>2. /\ callbacks' \subseteq Key \X {SensorPort}
          /\ asked' \subseteq {<<key, <<key, SensorPort>> >> : key \in Key}
      BY <2>1, <3>1 DEF AddressesInv, AddressesTypeOK
    <3>3. \A d \in net' : /\ {d.from, d.to} \subseteq Host
                          /\ {d.fromPort, d.toPort} \subseteq 0..MaxPort
      BY <2>1, <2>2, NetTypes
         DEF AddressesInv, AddressesTypeOK, DatagramOK, PlainDatagram, AlarmDatagram, Port
    <3> QED BY <1>1, <3>2, <3>3 DEF AddressesInv, AddressesTypeOK
  <2> QED BY <1>4, <2>3, <2>4 DEF AddressesInv
<1>6. CASE UNCHANGED <<callbacks, net, asked>>
  <2>1. AddressesTypeOK'
    BY <1>1, <1>6 DEF AddressesInv, AddressesTypeOK
  <2>2. \A d \in net' : DatagramOK(d)'
    BY <1>6, DatagramsStay DEF AddressesInv
  <2> QED BY <1>4, <2>1, <2>2 DEF AddressesInv
<1> QED BY <1>2, <1>5, <1>6

\* A step of the network, which may take callbacks away, or the end of a call.
LEMMA NetInv ==
    ASSUME AddressesInv, UNCHANGED <<list, asked>>, adding' \subseteq adding,
           callbacks' \subseteq callbacks,
           \A d \in net' : DatagramOK(d)
    PROVE  AddressesInv'
<1>1. \A d \in net' : DatagramOK(d)'
  BY DEF DatagramOK
<1>2. AddressesTypeOK'
  <2>1. \A d \in net' : {d.from, d.to} \subseteq Host /\ {d.fromPort, d.toPort} \subseteq 0..MaxPort
    BY NetTypes
  <2> QED BY <2>1 DEF AddressesInv, AddressesTypeOK
<1>3. \A t \in adding' : CallOK(t)'
  BY DEF AddressesInv, CallOK
<1> QED BY <1>1, <1>2, <1>3 DEF AddressesInv

\* The port after the one central sends from is the one it receives on: the addition
\* does not wrap there.
LEMMA NextPort == (SendPort + 1) % (MaxPort + 1) = ReceivePort
<1>1. MaxPort \in Nat /\ MaxPort >= 4
  BY AddressesAssumption
<1>2. \A n \in Nat : n > 3 => 3 % n = 3
  OBVIOUS
<1>3. MaxPort + 1 \in Nat /\ MaxPort + 1 > 3
  BY <1>1
<1> QED BY <1>2, <1>3 DEF SendPort, ReceivePort

\* The sensor answers the question at hand.
LEMMA SensorAnswersInv ==
    ASSUME AddressesInv, NEW d \in net, SensorAnswers(d)
    PROVE  AddressesInv'
<1> DEFINE client == incrementPort(ReceivedFrom(d))
           answer == Datagram("answer", d.to, SensorPort, client.host, client.port)
<1>1. /\ net' = (net \ {d}) \cup {answer} /\ d.kind = "question"
      /\ UNCHANGED <<list, callbacks, adding, asked>>
  BY DEF SensorAnswers
<1>2. DatagramOK(d)
  BY DEF AddressesInv
<1>3. client.host = d.from /\ client.port = ReceivePort
  BY <1>1, <1>2, NextPort DEF incrementPort, ReceivedFrom, DatagramOK
<1>4. d.to \in Sensors /\ d.to \in Host /\ d.from \in Host
  BY <1>1, <1>2, NetTypes DEF DatagramOK
<1>5. answer \in PlainDatagram
  BY <1>3, <1>4, Ports DEF Datagram, PlainDatagram
<1>6. DatagramOK(answer)
  BY <1>1, <1>2, <1>3, <1>4, <1>5 DEF DatagramOK, Datagram
<1> HIDE DEF answer
<1>7. (\A e \in net' : DatagramOK(e)) /\ callbacks' \subseteq callbacks
  BY <1>1, <1>6 DEF AddressesInv
<1> QED BY <1>1, <1>7, NetInv

\* Every step of Addresses preserves its invariant.
LEMMA AddressesNextInv ==
    ASSUME AddressesInv, AddressesNext
    PROVE  AddressesInv'
<1>1. ASSUME NEW who \in Caller, NEW text \in Text,
             add_sensor(who, text) \/ set_threshold(who, text) \/ erase_sensor(who, text)
      PROVE  AddressesInv'
  BY <1>1, AddSensorInv, AsksInv, EraseSensorInv DEF set_threshold
<1>2. ASSUME NEW d \in net, SensorAnswers(d)
      PROVE  AddressesInv'
  BY <1>2, SensorAnswersInv
<1>3. ASSUME NEW d \in net, Received(d)
      PROVE  AddressesInv'
  <2>1. /\ UNCHANGED <<list, adding, asked>> /\ callbacks' \subseteq callbacks
        /\ \A e \in net' : DatagramOK(e)
    BY <1>3 DEF Received, AddressesInv
  <2> QED BY <2>1, NetInv
<1>4. ASSUME NEW port \in {AlarmPort, ReceivePort}, SendKill(port)
      PROVE  AddressesInv'
  <2> DEFINE kill == Datagram("kill", Loopback6, SendPort, Loopback6, port)
  <2>1. kill \in PlainDatagram
    BY <1>4, Ports DEF Datagram, PlainDatagram, Host
  <2>2. DatagramOK(kill)
    BY <2>1 DEF DatagramOK, Datagram
  <2>3. /\ UNCHANGED <<list, callbacks, adding, asked>>
        /\ net' \subseteq net \cup {kill} /\ callbacks' \subseteq callbacks
    BY <1>4 DEF SendKill, Send
  <2> HIDE DEF kill
  <2>4. \A e \in net' : DatagramOK(e)
    BY <2>2, <2>3 DEF AddressesInv
  <2> QED BY <2>3, <2>4, NetInv
<1>5. ASSUME NEW call \in adding, AddReturns(call) \/ AddFails(call)
      PROVE  AddressesInv'
  <2>1. call.text \in Text
    BY DEF AddressesInv, CallOK
  <2>2. CASE AddReturns(call)
    BY <2>1, <2>2, AsksInv DEF AddReturns
  <2>3. CASE AddFails(call)
    BY <2>3, NetInv DEF AddFails, AddressesInv
  <2> QED BY <1>5, <2>2, <2>3
<1> QED BY <1>1, <1>2, <1>3, <1>4, <1>5 DEF AddressesNext
-----------------------------------------------------------------------------
(* The alarms.                                                              *)

\* Alarms differ in length by two characters at most.
LEMMA AlarmLength ==
    ASSUME NEW p \in Pair
    PROVE  Length(p) \in 14..16
<1>1. Digits(p[1]) \in 1..2 /\ Digits(p[2]) \in 1..2
  BY DEF Digits
<1> QED BY <1>1 DEF Length, Decimals

\* A buffer that is known holds what was sent: what an older alarm leaves behind it
\* are zeros behind the decimals.
LEMMA KnownBuffer ==
    ASSUME AlarmTypeOK, ~junk, NEW p \in Pair
    PROVE  Outcomes(p) = {p}
<1> DEFINE extraChars == IF length > Length(p) THEN length - Length(p) ELSE 0
<1>1. length \in {0} \cup 14..16
  BY AlarmLength DEF AlarmTypeOK
<1>2. extraChars <= 6
  BY <1>1, AlarmLength
<1>3. Outcomes(p) = Parsed(p, extraChars)
  BY DEF Outcomes
<1> HIDE DEF extraChars
<1> QED BY <1>2, <1>3 DEF Parsed, Decimals

\* One turn of server()'s loop.
LEMMA ReceiveAlarmInv ==
    ASSUME AlarmInv, NEW d \in net, ReceiveAlarm(d)
    PROVE  AlarmInv'
<1>1. /\ d.kind = "alarm" /\ DatagramOK(d) /\ AlarmTypeOK /\ AddressesInv
      /\ UNCHANGED <<list, callbacks, adding, asked>> /\ net' = net \ {d}
  BY DEF AlarmInv, AddressesInv, ReceiveAlarm
<1>2. AddressesInv'
  BY <1>1, NetInv DEF AddressesInv
<1>3. d.pair \in Pair /\ d.from \in Sensors
  BY <1>1 DEF DatagramOK, AlarmDatagram
<1>4. hostToString(ReceivedFrom(d)) = <<d.from>>
  BY <1>3, HostText DEF ReceivedFrom
<1>5. PICK p \in Outcomes(d.pair) : HandleAlarm(d, p)
  BY DEF ReceiveAlarm
<1> DEFINE done == {entry \in Stores(d, p) : entry[1] \in list}
<1>6. /\ misstored' = (misstored \/ (~junk /\ ~(done \subseteq {<< <<d.from>>, d.pair>>})))
      /\ \/ /\ Throws(d, p)
            /\ length' = Left(d)
            /\ UNCHANGED <<junk, unstored>>
         \/ /\ ~Throws(d, p)
            /\ unstored' = (unstored \/ (~junk /\ done = {}))
            /\ length' = 0 /\ junk' = FALSE
  BY <1>5 DEF HandleAlarm
<1>7. ~junk => Stores(d, p) = {<< <<d.from>>, d.pair>>} /\ p = d.pair
  BY <1>1, <1>3, <1>4, KnownBuffer DEF Stores
<1>8. ~junk => done \subseteq {<< <<d.from>>, d.pair>>}
  BY <1>7
<1>9. ~junk /\ ~Throws(d, p) => done # {}
  BY <1>7 DEF Throws
<1> HIDE DEF done
<1>10. ~misstored' /\ ~unstored' /\ junk' \in BOOLEAN
  <2>1. ~misstored /\ ~unstored /\ junk \in BOOLEAN
    BY DEF AlarmInv, AlarmTypeOK, StoredIsSent, ConfirmedIsStored
  <2>2. ~misstored'
    BY <1>6, <1>8, <2>1, Zenon
  <2>3. ~unstored'
    BY <1>6, <1>9, <2>1, Zenon
  <2> QED BY <1>6, <2>1, <2>2, <2>3
<1>11. length' \in {0} \cup {Length(o) : o \in Pair}
  <2>1. Left(d) \in {0} \cup {Length(o) : o \in Pair}
    BY <1>1, <1>3 DEF Left, AlarmTypeOK
  <2> QED BY <1>6, <2>1
<1>12. misstored' \in BOOLEAN /\ unstored' \in BOOLEAN
  BY <1>6 DEF AlarmInv, AlarmTypeOK
<1> QED BY <1>2, <1>10, <1>11, <1>12
        DEF AlarmInv, AlarmTypeOK, AddressesInv, StoredIsSent, ConfirmedIsStored

\* Nothing is registered and nothing on its way at the start.
LEMMA AlarmInitInv == Init => AlarmInv
BY DEF Init, AddressesInit, AlarmInv, AddressesInv, AddressesTypeOK,
       AlarmTypeOK, StoredIsSent, ConfirmedIsStored

\* Every step of the specification preserves the invariant.
LEMMA AlarmNextInv == AlarmInv /\ [Next]_vars => AlarmInv'
<1> SUFFICES ASSUME AlarmInv, [Next]_vars PROVE AlarmInv'
  OBVIOUS
<1>1. ASSUME AddressesInv', UNCHANGED alarmVars
      PROVE  AlarmInv'
  BY <1>1 DEF AlarmInv, AddressesInv, alarmVars, AlarmTypeOK, StoredIsSent, ConfirmedIsStored
<1>2. CASE AddressesNext /\ UNCHANGED alarmVars
  BY <1>1, <1>2, AddressesNextInv DEF AlarmInv
<1>3. ASSUME NEW h \in V4 \cup V6, NEW p \in Pair, SensorAlarms(h, p)
      PROVE  AlarmInv'
  <2>1. Alarm(h, p) \in AlarmDatagram
    BY <1>3, Ports DEF Alarm, AlarmDatagram, Here, Host
  <2>2. DatagramOK(Alarm(h, p))
    BY <1>3, <2>1 DEF DatagramOK, Alarm, Sensors
  <2>3. /\ UNCHANGED <<list, callbacks, adding, asked, alarmVars>>
        /\ net' = net \cup {Alarm(h, p)}
    BY <1>3 DEF SensorAlarms, Send
  <2>4. AddressesInv /\ \A d \in net' : DatagramOK(d)
    BY <2>2, <2>3 DEF AlarmInv, AddressesInv
  <2> QED BY <1>1, <2>3, <2>4, NetInv
<1>4. ASSUME NEW d \in net, ReceiveAlarm(d)
      PROVE  AlarmInv'
  BY <1>4, ReceiveAlarmInv
<1>5. CASE UNCHANGED vars
  <2>1. AddressesInv'
    BY <1>5, NetInv DEF vars, addressVars, AlarmInv, AddressesInv
  <2> QED BY <1>1, <1>5, <2>1 DEF vars
<1> QED BY <1>2, <1>3, <1>4, <1>5 DEF Next

\* The invariant holds in every state of the program.
THEOREM AlarmInvariance == Spec => []AlarmInv
BY AlarmInitInv, AlarmNextInv, PTL DEF Spec

\* Keys are texts without a prefix, ports have sixteen bits, and the alarm buffer
\* never holds more than the longest alarm.
THEOREM AlarmTypes == Spec => []AlarmTypeOK
<1>1. AlarmInv => AlarmTypeOK
  BY DEF AlarmInv
<1> QED BY <1>1, AlarmInvariance, PTL

\* However a user wrote the address of a sensor, its answer comes to the receiver's
\* port and is found under the keys of both tables.
THEOREM AnswerFindsItsKeysTheorem == Spec => []AnswerFindsItsKeys
<1>1. ASSUME AlarmInv, NEW d \in net, d.kind = "answer"
      PROVE  /\ d.toPort = ReceivePort
             /\ <<hostToString(ReceivedFrom(d)), toString(ReceivedFrom(d))>> \in asked
  <2>1. DatagramOK(d) /\ ReceivedFrom(d).host = d.from /\ ReceivedFrom(d).port = d.fromPort
    BY <1>1 DEF AlarmInv, AddressesInv, ReceivedFrom
  <2>2. /\ hostToString(ReceivedFrom(d)) = <<d.from>>
        /\ toString(ReceivedFrom(d)) = << <<d.from>>, d.fromPort>>
    BY <1>1, <2>1, HostText DEF DatagramOK
  <2> QED BY <1>1, <2>1, <2>2 DEF DatagramOK
<1>2. AlarmInv => AnswerFindsItsKeys
  BY <1>1 DEF AnswerFindsItsKeys
<1> QED BY <1>2, AlarmInvariance, PTL

\* The threads of central take a datagram for the one that ends them exactly when
\* central sent it for that.
THEOREM OnlyKillsAreKillsTheorem == Spec => []OnlyKillsAreKills
<1>1. ASSUME AlarmInv, NEW d \in net, d.toPort \in {AlarmPort, ReceivePort}
      PROVE  isLoopback(ReceivedFrom(d), SendPort) <=> d.kind = "kill"
  <2>1. DatagramOK(d) /\ d.kind \in {"question", "answer", "kill", "alarm"}
    BY <1>1 DEF AlarmInv, AddressesInv, DatagramOK, PlainDatagram, AlarmDatagram
  <2> QED BY <1>1, <2>1 DEF DatagramOK, isLoopback, ReceivedFrom, SendPort, SensorPort,
                            ReceivePort, AlarmPort, SensorAlarmPort
<1>2. AlarmInv => OnlyKillsAreKills
  BY <1>1 DEF OnlyKillsAreKills
<1> QED BY <1>2, AlarmInvariance, PTL

\* add_sensor fails after it has registered the sensor only for a name with several
\* addresses, or because another thread has erased the sensor.
THEOREM AddFailsOnlyIfMovedOrErasedTheorem == Spec => AddFailsOnlyIfMovedOrErased
<1>1. ASSUME AlarmInv, NEW call \in adding, AddFails(call)
      PROVE  call.erased \/ Cardinality(Meanings(call.text)) > 1
  <2>1. SUFFICES ASSUME ~call.erased PROVE Cardinality(Meanings(call.text)) > 1
    OBVIOUS
  <2>2. CallOK(call) /\ call.text \in Text
    BY <1>1 DEF AlarmInv, AddressesInv, CallOK
  <2>3. PICK g \in Meanings(call.text) : <<g>> \in list
    BY <2>1, <2>2 DEF CallOK
  <2>4. PICK h \in Meanings(call.text) : ~IsKnown(Address(call.text, h, SensorPort))
    BY <1>1 DEF AddFails, IsRefused
  <2>5. g # h
    BY <2>2, <2>3, <2>4, AddressText DEF IsKnown
  <2> QED BY <2>2, <2>5, TwoMembers, MeaningsAreSensors
<1>2. AlarmInv => [\A call \in adding :
          AddFails(call) => call.erased \/ Cardinality(Meanings(call.text)) > 1]_addressVars
  BY <1>1
<1> QED BY <1>2, AlarmInvariance, PTL DEF AddFailsOnlyIfMovedOrErased

\* What is stored for a sensor is what it sent in this alarm, whatever longer alarm
\* the buffer held before.
THEOREM StoredIsSentTheorem == Spec => []StoredIsSent
<1>1. AlarmInv => StoredIsSent
  BY DEF AlarmInv
<1> QED BY <1>1, AlarmInvariance, PTL

\* An alarm that is sent back has been stored.
THEOREM ConfirmedIsStoredTheorem == Spec => []ConfirmedIsStored
<1>1. AlarmInv => ConfirmedIsStored
  BY DEF AlarmInv
<1> QED BY <1>1, AlarmInvariance, PTL
================================================================================
