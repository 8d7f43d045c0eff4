-------------------------------- MODULE Shutdown --------------------------------
(***************************************************************************)
(* The threads of central from their start to the end of main              *)
(* (central/src/main.cpp): main starts the HTTP, the alarm and the polling *)
(* thread, executes scripts until "exit", sends a datagram that ends the   *)
(* alarm and the polling thread, stops the HTTP server, joins the three,   *)
(* saves the list, and destroys the Communicator (whose UDPClient ends and *)
(* joins its receiver thread) before the SensorList.                       *)
(*                                                                         *)
(* Each thread makes its own socket.  Until then its datagrams have nobody *)
(* to go to, and a socket buffer that is full takes no more.  What threads *)
(* do with the list is left out, except when they save it.                 *)
(***************************************************************************)
EXTENDS Naturals, Sequences

CONSTANTS
    LoopTime,      \* loop_time * 1000, in milliseconds (40000 in main)
    MaxSensors,    \* bound: the largest number of sensors registered
    Buffer,        \* bound: datagrams a socket holds
    StartFaults    \* what goes wrong: "inuse" (a port is taken), "sendfail",
                   \* "unresolved" (localhost has no v6 address), "receivefail"

ASSUME ShutdownAssumption ==
    /\ LoopTime \in Nat \ {0}
    /\ MaxSensors \in Nat
    /\ Buffer \in Nat \ {0}
    /\ StartFaults \subseteq {"inuse", "sendfail", "unresolved", "receivefail"}

Served == {"alarm", "polling", "receiver"}   \* the threads that own a UDP socket

VARIABLES
    main,       \* the statement main is about to execute
    thread,     \* per thread of Served: what it is about to do
    queue,      \* per thread of Served: the datagrams in its socket
    size,       \* the number of registered sensors
    left,       \* receives left in the polling thread's loop over the sensors
    forever,    \* TRUE: the polling thread receives without a timeout
    http,       \* the HTTP thread, inside httpServer.start()
    acceptor,   \* TRUE: the acceptor is open
    stopped,    \* TRUE: io_service->stop() has been called
    spins,      \* TRUE: accept() found the acceptor closed and calls itself again
    missed      \* history: a kill datagram was lost or stop() came too early

vars == <<main, thread, queue, size, left, forever, http, acceptor, stopped,
          spins, missed>>

polling == thread["polling"]

Init ==
    /\ main = "scripts"
    /\ thread = [t \in Served |-> IF t = "receiver" THEN "receive" ELSE "bind"]
    /\ queue = [t \in Served |-> <<>>]
    /\ size = 0 /\ left = 0 /\ forever = FALSE
    /\ http = "create" /\ acceptor = FALSE /\ stopped = FALSE /\ spins = FALSE
    /\ missed = FALSE

httpVars == <<http, acceptor, stopped, spins>>
pollVars == <<size, left, forever>>

Goto(t, pc) == thread' = [thread EXCEPT ![t] = pc]

\* An exception that nobody catches: std::terminate ends the process.
Die ==
    /\ main' = "dead"
    /\ thread' = [t \in Served |-> "ended"]
    /\ http' = "ended"
    /\ UNCHANGED <<queue, pollVars, acceptor, stopped, spins, missed>>
-----------------------------------------------------------------------------
(* Datagrams.                                                               *)

Takes(t) == thread[t] \notin {"bind", "ended"} /\ Len(queue[t]) < Buffer

\* A datagram of a sensor: an alarm, an answer, or anything else.
DatagramArrives(t) ==
    /\ Takes(t)
    /\ queue' = [queue EXCEPT ![t] = Append(@, "other")]
    /\ UNCHANGED <<main, thread, pollVars, httpVars, missed>>

\* send(): a kill datagram that cannot be delivered is gone, with a warning at
\* most, and main goes on.  It is missed unless the thread has ended already.
SendKill(t, next) ==
    /\ \/ /\ Takes(t)
          /\ queue' = [queue EXCEPT ![t] = Append(@, "kill")]
          /\ UNCHANGED missed
       \/ /\ ~Takes(t) \/ "sendfail" \in StartFaults
          /\ missed' = (missed \/ thread[t] # "ended")
          /\ UNCHANGED queue
    /\ main' = next
    /\ UNCHANGED <<thread, pollVars, httpVars>>
-----------------------------------------------------------------------------
(* server() and polling(), and receiverThreadFunction().                    *)

BindSocket(t) ==
    /\ thread[t] = "bind"
    /\ \/ /\ Goto(t, IF t = "alarm" THEN "receive" ELSE "round")
          /\ UNCHANGED <<main, queue, pollVars, httpVars, missed>>
       \/ "inuse" \in StartFaults /\ Die

\* The alarm and the receiver thread receive without a timeout; a thread that
\* gets the kill datagram returns, after any other one it goes on.
Receive(t) ==
    /\ thread[t] = "receive"
    /\ queue[t] # <<>>
    /\ queue' = [queue EXCEPT ![t] = Tail(@)]
    /\ Goto(t, IF Head(queue[t]) = "kill" THEN "ended" ELSE "receive")
    /\ UNCHANGED <<main, pollVars, httpVars, missed>>

\* recvfrom fails: the alarm thread returns, the others receive again.
ReceiveFails ==
    /\ "receivefail" \in StartFaults
    /\ thread["alarm"] = "receive"
    /\ Goto("alarm", "ended")
    /\ UNCHANGED <<main, queue, pollVars, httpVars, missed>>

SensorsChange ==
    /\ polling # "ended"
    /\ size' \in 0..MaxSensors
    /\ UNCHANGED <<main, thread, queue, left, forever, httpVars, missed>>

\* Mutant: one more than the number of sensors.
WaitShorter(n) == LoopTime \div (n + 1)

\* The timeout of one receive, in milliseconds.
Wait(n) == LoopTime \div n

\* The receives of a round: one per sensor, or one if there is none.
Receives == IF size = 0 THEN 1 ELSE size

\* A timeout of zero milliseconds means to setsockopt that there is none.
StartRound ==
    /\ polling = "round"
    /\ left' = Receives
    /\ forever' = (Wait(left') = 0)
    /\ Goto("polling", "receive")
    /\ UNCHANGED <<main, queue, size, httpVars, missed>>

\* Mutant: a round that asks sensors pays no attention to the datagrams.
EndsPollingIdle == size = 0 /\ queue["polling"] # <<>> /\ Head(queue["polling"]) = "kill"

EndsPolling == queue["polling"] # <<>> /\ Head(queue["polling"]) = "kill"

PollReceives ==
    /\ polling = "receive"
    /\ queue["polling"] # <<>> \/ ~forever
    /\ queue' = [queue EXCEPT !["polling"] = IF @ = <<>> THEN @ ELSE Tail(@)]
    /\ left' = left - 1
    /\ Goto("polling", CASE EndsPolling -> "ended"
                         [] ~EndsPolling /\ left' = 0 -> "save"
                         [] OTHER -> "receive")
    /\ UNCHANGED <<main, size, forever, httpVars, missed>>

\* write_to_file; the file is open between the two.
PollSaves ==
    /\ polling \in {"save", "writing"}
    /\ Goto("polling", IF polling = "save" THEN "writing" ELSE "round")
    /\ UNCHANGED <<main, queue, pollVars, httpVars, missed>>
-----------------------------------------------------------------------------
(* httpServer.start(), in its thread.                                       *)

otherVars == <<main, thread, queue, pollVars, missed>>

\* bind(), until the acceptor object exists.
CreateAcceptor ==
    /\ http = "create"
    /\ http' = "open"
    /\ UNCHANGED <<otherVars, acceptor, stopped, spins>>

\* bind(), the rest.
OpenAcceptor ==
    /\ http = "open"
    /\ \/ /\ http' = "listen"
          /\ acceptor' = TRUE
          /\ UNCHANGED <<otherVars, stopped, spins>>
       \/ "inuse" \in StartFaults /\ Die

\* accept_and_run(): listen throws when the acceptor has been closed.
Listen ==
    /\ http = "listen"
    /\ \/ acceptor /\ http' = "accept" /\ UNCHANGED <<otherVars, acceptor, stopped, spins>>
       \/ ~acceptor /\ Die

\* accept(): on a closed acceptor async_accept fails with another error than
\* operation_aborted, and its handler calls accept() again.
AcceptFirst ==
    /\ http = "accept"
    /\ http' = "run"
    /\ spins' = ~acceptor
    /\ UNCHANGED <<otherVars, acceptor, stopped>>

\* A service that was stopped before it ran is reset.
RunService ==
    /\ http = "run"
    /\ http' = "running"
    /\ stopped' = FALSE
    /\ UNCHANGED <<otherVars, acceptor, spins>>

\* run() returns when it is stopped, or when the accept was aborted: nothing is
\* left to do, since the connections are closed as well.
ServiceReturns ==
    /\ http = "running"
    /\ stopped \/ (~acceptor /\ ~spins)
    /\ http' = "ended"
    /\ UNCHANGED <<otherVars, acceptor, stopped, spins>>
-----------------------------------------------------------------------------
(* main.                                                                    *)

MainStep(pc, next) ==
    /\ main = pc
    /\ main' = next
    /\ UNCHANGED <<thread, queue, pollVars, httpVars, missed>>

\* "exit", or no FIFO could be made (executeScripts returns at once).
ExitExecuted == MainStep("scripts", "kill_alarm")

\* Address("localhost", port) may throw; the threads are not joined then, and
\* leaving main's block ends the process.
Unresolved == "unresolved" \in StartFaults /\ Die

KillAlarm ==
    main = "kill_alarm" /\ (SendKill("alarm", "kill_polling") \/ Unresolved)

KillPolling ==
    main = "kill_polling" /\ (SendKill("polling", "stop_http") \/ Unresolved)

\* stop() up to the connections; it does nothing when there is no acceptor yet.
CloseAcceptor ==
    /\ main = "stop_http"
    /\ main' = IF http = "create" THEN "join_alarm" ELSE "stop_service"
    /\ acceptor' = FALSE
    /\ missed' = (missed \/ http \in {"create", "open", "accept"})
    /\ UNCHANGED <<thread, queue, pollVars, http, stopped, spins>>

\* stop(), the rest.
StopService ==
    /\ main = "stop_service"
    /\ main' = "join_alarm"
    /\ stopped' = TRUE
    /\ UNCHANGED <<thread, queue, pollVars, http, acceptor, spins, missed>>

JoinAlarm == thread["alarm"] = "ended" /\ MainStep("join_alarm", "join_http")

\* Mutant: the HTTP thread is detached.
DetachHttp == MainStep("join_http", "join_polling")

JoinHttp == http = "ended" /\ MainStep("join_http", "join_polling")

\* Mutant: main saves the list without waiting for the polling thread.
JoinPollingLate == MainStep("join_polling", "save")

JoinPolling == polling = "ended" /\ MainStep("join_polling", "save")

MainSaves == MainStep("save", "writing") \/ MainStep("writing", "destroy_client")

\* The destructor of UDPClient.
KillReceiver == main = "destroy_client" /\ SendKill("receiver", "join_receiver")

JoinReceiver ==
    thread["receiver"] = "ended" /\ MainStep("join_receiver", "destroy_list")

DestroyList == MainStep("destroy_list", "ended")

Main ==
    \/ KillAlarm \/ KillPolling \/ CloseAcceptor \/ StopService
    \/ JoinAlarm \/ JoinHttp \/ JoinPolling
    \/ MainSaves \/ KillReceiver \/ JoinReceiver \/ DestroyList

Poll == StartRound \/ PollReceives \/ PollSaves

Http == CreateAcceptor \/ OpenAcceptor \/ Listen \/ AcceptFirst \/ RunService \/ ServiceReturns

Next ==
    \/ ExitExecuted \/ Main \/ Poll \/ Http \/ SensorsChange \/ ReceiveFails
    \/ \E t \in Served : BindSocket(t) \/ Receive(t) \/ DatagramArrives(t)

\* Every thread gets to run; nothing makes users type "exit".
Spec ==
    /\ Init /\ [][Next]_vars
    /\ WF_vars(Main) /\ WF_vars(Poll) /\ WF_vars(Http)
    /\ \A t \in Served : WF_vars(BindSocket(t) \/ Receive(t))
-----------------------------------------------------------------------------
(* Properties.                                                              *)

\* main's save of the list is the last one, and never meets a save of the
\* polling thread in the middle: write_to_file holds no lock while it writes.
LastSaveIsMains ==
    main \in {"save", "writing", "destroy_client", "join_receiver", "destroy_list", "ended"}
        => polling = "ended"

\* No thread is left that uses the Communicator when main has destroyed it, or
\* the SensorList when main has destroyed that.
OwnersOutliveThreads ==
    /\ main \in {"destroy_list", "ended"} => http = "ended" /\ polling = "ended"
    /\ main = "ended" => \A t \in Served : thread[t] = "ended"

\* Once "exit" is executed the program ends, or an exception ends it, unless a
\* kill datagram was lost, or stop() closed the acceptor before the HTTP thread
\* had opened it or between listen() and accept(): then main waits in a join.
ExitEnds == (main = "kill_alarm") ~> (main \in {"ended", "dead"} \/ missed)

\* As long as there are no more sensors than milliseconds in loop_time, the
\* polling thread's receives time out: it starts rounds for ever, or ends.
PollingGoesOn ==
    [](size <= LoopTime) => []<>(polling \in {"bind", "round", "ended"})
================================================================================
