------------------------------- MODULE Addresses -------------------------------
(***************************************************************************)
(* common::Address between a user's text, a socket and a key of a table.   *)
(* A socket address has a family and a host: a v4 host appears in family   *)
(* AF_INET when a user wrote it with dots, and in AF_INET6 ("::ffff:...")  *)
(* when a user wrote it so or recvfrom filled it in, because every socket  *)
(* of this program is an AF_INET6 socket.  The tables are keyed by texts,  *)
(* SensorList by hostToString and the callbacks by toString.               *)
(*                                                                         *)
(* The resolver is external: what a name stands for may change between two *)
(* calls, and Communicator::add_sensor asks twice.                         *)
(*                                                                         *)
(* What central does with the alarms is the subject of AlarmServer.        *)
(***************************************************************************)
EXTENDS Naturals, Sequences, FiniteSets

CONSTANTS
    V4, V6,          \* the hosts sensors run on
    Name,            \* host names (they begin with a letter)
    HostsOf,         \* per name: the v6 hosts the resolver may answer with
    Loopback6,       \* ::1
    CentralHost,     \* central's address, as other hosts see it
    Caller,          \* threads that call the Communicator: the script's, the web server's
    MaxPort,         \* the largest port (65535): ports wrap as uint16_t
    MaxDatagrams     \* bound: datagrams on their way at a time

ASSUME AddressesAssumption ==
    /\ V4 \cap V6 = {} /\ Loopback6 \notin V4
    /\ CentralHost \notin V4 \cup V6 \cup {Loopback6}
    /\ "::ffff:" \notin V4 \cup V6      \* a prefix is no host
    /\ HostsOf \in [Name -> SUBSET V6] /\ \A n \in Name : IsFiniteSet(HostsOf[n])
    /\ MaxPort \in Nat /\ MaxPort >= 4

VARIABLES
    list,        \* the keys of SensorList
    callbacks,   \* the keys of callbackMap
    adding,      \* add_sensor calls that have registered a sensor and not yet returned
    net,         \* datagrams on their way
    asked        \* history: whom questions were sent to, as keys of both tables

addressVars == <<list, callbacks, adding, net, asked>>

Host == V4 \cup V6 \cup {Loopback6, CentralHost}

\* sensor_port1, the two ports of central's UDPClient, the port of alarms
SensorPort == 1
SendPort == 2
ReceivePort == 3
AlarmPort == 4
SensorAlarmPort == 0

\* What users write: a v4 host with dots or mapped, a v6 host, a name.
Text == [form: {"dots", "mapped"}, host: V4] \cup [form: {"colons"}, host: V6]
            \cup [form: {"name"}, name: Name]

\* The hosts a text may mean; for names getaddrinfo is asked for AF_INET6.
Meanings(text) == IF text.form = "name" THEN HostsOf[text.name] ELSE {text.host}

\* Address(host, port), for one of the meanings.
Address(text, h, port) ==
    [family |-> IF text.form = "dots" THEN "AF_INET" ELSE "AF_INET6",
     host |-> h, port |-> port]

\* What recvfrom on an AF_INET6 socket says about the sender.
ReceivedFrom(d) == [family |-> "AF_INET6", host |-> d.from, port |-> d.fromPort]

\* getnameinfo with NI_NUMERICHOST: the parts of the text.
Numeric(a) ==
    IF a.family = "AF_INET6" /\ a.host \in V4 THEN <<"::ffff:", a.host>> ELSE <<a.host>>

\* The prefix of a mapped address is cut off.
hostToString(a) == IF Numeric(a)[1] = "::ffff:" THEN Tail(Numeric(a)) ELSE Numeric(a)

toString(a) == <<hostToString(a), a.port>>

\* Mutant: the port is not looked at.
isLoopbackAnyPort(a, port) == a.family = "AF_INET6" /\ a.host = Loopback6

\* Received addresses are AF_INET6; 127.0.0.1 does not count.
isLoopback(a, port) ==
    a.family = "AF_INET6" /\ a.host = Loopback6 /\ a.port = port

\* Mutant: the answer goes back to where the question came from.
incrementPortNot(a) == a

incrementPort(a) == [a EXCEPT !.port = (@ + 1) % (MaxPort + 1)]
-----------------------------------------------------------------------------
Datagram(kind, from, fromPort, to, toPort) ==
    [kind |-> kind, from |-> from, fromPort |-> fromPort, to |-> to, toPort |-> toPort]

Send(d) ==
    /\ Cardinality(net) < MaxDatagrams
    /\ net' = net \cup {d}

\* The address central has for a host: on its own machine, loopback.
Here(h) == IF h = Loopback6 THEN Loopback6 ELSE CentralHost

AddressesInit ==
    /\ list = {} /\ callbacks = {} /\ adding = {} /\ net = {} /\ asked = {}

\* A thread makes one call after the other.
Idle(who) == \A call \in adding : call.who # who

\* The key of SensorList that a text stands for.
KeyOf(text, h) == hostToString(Address(text, h, SensorPort))

\* Communicator::add_sensor up to its call of set_threshold.  A call keeps its text;
\* erased is a history: another thread has since erased a sensor the text stands for.
add_sensor(who, text) ==
    /\ Idle(who)
    /\ \E h \in Meanings(text) :
          list' = list \cup {KeyOf(text, h)}
    /\ adding' = adding \cup {[who |-> who, text |-> text, erased |-> FALSE]}
    /\ UNCHANGED <<callbacks, net, asked>>

\* Mutant: the sensor is looked up with the prefix of a mapped address.
IsKnownNumeric(a) == Numeric(a) \in list

\* get_last_threshold_question of translated_address does not throw.
IsKnown(a) == hostToString(a) \in list

\* set_threshold of a known sensor: it is asked, unless it was a short time ago.
Asks(text) ==
    /\ \E h \in Meanings(text) :
          LET a == Address(text, h, SensorPort) IN
          /\ IsKnown(a)
          /\ \/ /\ Send(Datagram("question", Here(h), SendPort, h, SensorPort))
                /\ callbacks' = callbacks \cup {toString(a)}
                /\ asked' = asked \cup {<<hostToString(a), toString(a)>>}
             \/ /\ <<hostToString(a), toString(a)>> \in asked
                /\ UNCHANGED <<callbacks, net, asked>>
    /\ UNCHANGED list

\* set_threshold of an unknown one throws.
IsRefused(text) ==
    \E h \in Meanings(text) : ~IsKnown(Address(text, h, SensorPort))

\* set_threshold on its own; one that is refused changes nothing.
set_threshold(who, text) ==
    /\ Idle(who)
    /\ Asks(text)
    /\ UNCHANGED adding

\* The rest of add_sensor, which calls set_threshold with its text.
AddReturns(call) ==
    /\ Asks(call.text)
    /\ adding' = adding \ {call}

AddFails(call) ==
    /\ IsRefused(call.text)
    /\ adding' = adding \ {call}
    /\ UNCHANGED <<list, callbacks, net, asked>>

\* Also between the two halves of another thread's add_sensor.
erase_sensor(who, text) ==
    /\ Idle(who)
    /\ \E h \in Meanings(text) :
          LET key == KeyOf(text, h)
              concerned == {call \in adding :
                               \E g \in Meanings(call.text) : KeyOf(call.text, g) = key}
          IN  /\ key \in list
              /\ list' = list \ {key}
              /\ adding' = (adding \ concerned)
                              \cup {[call EXCEPT !.erased = TRUE] : call \in concerned}
    /\ UNCHANGED <<callbacks, net, asked>>

\* UDPServer in the sensor: receive, then send to the port after the sender's.
SensorAnswers(d) ==
    /\ d \in net /\ d.kind = "question"
    /\ LET client == incrementPort(ReceivedFrom(d))
       IN  net' = (net \ {d}) \cup
             {Datagram("answer", d.to, SensorPort, client.host, client.port)}
    /\ UNCHANGED <<list, callbacks, adding, asked>>

\* send_server_terminating_msg and ~UDPClient, to a port of this machine.
SendKill(port) ==
    /\ Send(Datagram("kill", Loopback6, SendPort, Loopback6, port))
    /\ UNCHANGED <<list, callbacks, adding, asked>>

\* handleReceiveAndCheckIfEnd takes the callback of the sender, if there is one.
\* A datagram may also be lost, or go to a socket that ignores it.
Received(d) ==
    /\ d \in net
    /\ net' = net \ {d}
    /\ callbacks' = IF d.toPort = ReceivePort
                    THEN callbacks \ {toString(ReceivedFrom(d))} ELSE callbacks
    /\ UNCHANGED <<list, adding, asked>>

AddressesNext ==
    \/ \E who \in Caller, text \in Text :
          add_sensor(who, text) \/ set_threshold(who, text) \/ erase_sensor(who, text)
    \/ \E call \in adding : AddReturns(call) \/ AddFails(call)
    \/ \E d \in net : SensorAnswers(d) \/ Received(d)
    \/ \E port \in {AlarmPort, ReceivePort} : SendKill(port)
-----------------------------------------------------------------------------
(* Properties.                                                              *)

\* The texts of hosts, without a prefix.
Key == {<<h>> : h \in V4 \cup V6}

\* Type invariant: keys are texts without a prefix, ports have sixteen bits.
AddressesTypeOK ==
    /\ list \subseteq Key
    /\ callbacks \subseteq Key \X {SensorPort}
    /\ asked \subseteq {<<key, <<key, SensorPort>> >> : key \in Key}
    /\ adding \subseteq [who: Caller, text: Text, erased: BOOLEAN]
    /\ \A d \in net : {d.from, d.to} \subseteq Host /\ {d.fromPort, d.toPort} \subseteq 0..MaxPort

\* However a user wrote the address of a sensor, its answer comes to the port of
\* central's receiver, under the key its callback was saved with, and names the
\* sensor as the list did when it was asked.
AnswerFindsItsKeys ==
    \A d \in net : d.kind = "answer" =>
        /\ d.toPort = ReceivePort
        /\ <<hostToString(ReceivedFrom(d)), toString(ReceivedFrom(d))>> \in asked

\* The threads that wait for the datagram which ends them take those of central
\* itself for it, and neither alarms nor answers of a sensor on the same machine.
OnlyKillsAreKills ==
    \A d \in net : d.toPort \in {AlarmPort, ReceivePort} =>
        (isLoopback(ReceivedFrom(d), SendPort) <=> d.kind = "kill")

\* add_sensor, which resolves the text once to register the sensor and once more
\* to ask it, fails after it has registered the sensor only if the name has several
\* addresses, or another thread erased the sensor meanwhile.
AddFailsOnlyIfMovedOrErased ==
    [][\A call \in adding :
          AddFails(call) => call.erased \/ Cardinality(Meanings(call.text)) > 1]_addressVars
================================================================================
