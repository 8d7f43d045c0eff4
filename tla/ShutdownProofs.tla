----------------------------- MODULE ShutdownProofs -----------------------------
(***************************************************************************)
(* The end of central, for any number of sensors, any loop time and any    *)
(* size of socket buffers.  What main may rely on after a join is that the *)
(* thread stays ended: JoinedHaveEnded says which threads have ended at    *)
(* which statement of main.  EveryJoinIsPrepared is the part of ExitEnds   *)
(* that no fairness is needed for.                                         *)
(***************************************************************************)
EXTENDS Shutdown, TLAPS

Datagram == {"kill", "other"}

\* The statements of main from the one after a join, a kill or the stop on.
AfterReceiver == {"destroy_list", "ended"}
AfterPolling == {"save", "writing", "destroy_client", "join_receiver"} \cup AfterReceiver
AfterHttp == {"join_polling"} \cup AfterPolling
AfterAlarm == {"join_http"} \cup AfterHttp
AfterStop == {"stop_service", "join_alarm"} \cup AfterAlarm
AfterKillPolling == {"stop_http"} \cup AfterStop
AfterKillAlarm == {"kill_polling"} \cup AfterKillPolling
AfterKillReceiver == {"join_receiver"} \cup AfterReceiver
BeforeStop == {"scripts", "kill_alarm", "kill_polling", "stop_http"}

\* Type invariant; left counts the receives of a round and never underruns.
ShutdownTypeOK ==
    /\ main \in {"scripts", "kill_alarm", "kill_polling", "stop_http", "stop_service",
                 "join_alarm", "dead"} \cup AfterAlarm
    /\ thread \in [Served -> {"bind", "round", "receive", "save", "writing", "ended"}]
    /\ thread["alarm"] \in {"bind", "receive", "ended"}
    /\ thread["receiver"] \in {"receive", "ended"}
    /\ queue \in [Served -> Seq(Datagram)]
    /\ \A t \in Served : Len(queue[t]) <= Buffer
    /\ size \in 0..MaxSensors
    /\ left \in Nat /\ (polling = "receive" => left > 0)
    /\ http \in {"create", "open", "listen", "accept", "run", "running", "ended"}
    /\ forever \in BOOLEAN /\ acceptor \in BOOLEAN /\ stopped \in BOOLEAN
    /\ spins \in BOOLEAN /\ missed \in BOOLEAN

\* At every statement after a join the thread that was joined has ended.
JoinedHaveEnded ==
    /\ main \in AfterAlarm => thread["alarm"] = "ended"
    /\ main \in AfterHttp => http = "ended"
    /\ main \in AfterPolling => thread["polling"] = "ended"
    /\ main \in AfterReceiver => thread["receiver"] = "ended"

\* A thread that will end without main's help: it has ended, or a kill datagram
\* is in its socket.
KillIsUnderway(t) ==
    thread[t] = "ended" \/ \E i \in DOMAIN queue[t] : queue[t][i] = "kill"

\* From the kill datagram for a thread on, unless one was lost.
KillsAreUnderway ==
    ~missed =>
        /\ main \in AfterKillAlarm => KillIsUnderway("alarm")
        /\ main \in AfterKillPolling => KillIsUnderway("polling")
        /\ main \in AfterKillReceiver => KillIsUnderway("receiver")

\* Until stop() the acceptor that the HTTP thread has opened stays open; after it
\* start() has returned, or will: run() has nothing to do, or listen() throws.
HttpIsStopped ==
    /\ spins => http \in {"run", "running", "ended"}
    /\ ~missed =>
        /\ main \in AfterStop =>
               http = "ended" \/ (http \in {"listen", "run", "running"} /\ ~acceptor /\ ~spins)
        /\ main \in BeforeStop /\ http \in {"listen", "accept", "run", "running"} =>
               acceptor /\ ~spins

ShutdownInv == ShutdownTypeOK /\ JoinedHaveEnded /\ KillsAreUnderway /\ HttpIsStopped

\* When main waits in a join, the thread it waits for has ended, or has what makes
\* it end: the kill datagram in its socket, or a service with nothing left to do;
\* unless a datagram was lost or stop() came too early.
EveryJoinIsPrepared ==
    ~missed =>
        /\ main = "join_alarm" => KillIsUnderway("alarm")
        /\ main = "join_http" => \/ http = "ended"
                                 \/ http \in {"listen", "run", "running"} /\ ~acceptor /\ ~spins
        /\ main = "join_polling" => KillIsUnderway("polling")
        /\ main = "join_receiver" => KillIsUnderway("receiver")

\* A datagram that is put into a socket leaves the ones that are there.
LEMMA AppendDatagram ==
    ASSUME NEW s \in Seq(Datagram), NEW d \in Datagram
    PROVE  /\ Append(s, d) \in Seq(Datagram)
           /\ Len(Append(s, d)) = Len(s) + 1
           /\ (d = "kill" \/ \E i \in DOMAIN s : s[i] = "kill")
                  => \E i \in DOMAIN Append(s, d) : Append(s, d)[i] = "kill"
<1>1. Append(s, d) \in Seq(Datagram) /\ Len(Append(s, d)) = Len(s) + 1
  OBVIOUS
<1>2. /\ DOMAIN s = 1..Len(s) /\ DOMAIN Append(s, d) = 1..(Len(s) + 1)
      /\ Append(s, d)[Len(s) + 1] = d
      /\ \A i \in DOMAIN s : Append(s, d)[i] = s[i]
  OBVIOUS
<1> QED BY <1>1, <1>2

\* Taking the first datagram leaves a kill in the socket, unless it is that one.
LEMMA TailDatagram ==
    ASSUME NEW s \in Seq(Datagram), s # <<>>
    PROVE  /\ Head(s) \in Datagram /\ Tail(s) \in Seq(Datagram)
           /\ Len(Tail(s)) = Len(s) - 1
           /\ (\E i \in DOMAIN s : s[i] = "kill") /\ Head(s) # "kill"
                  => \E i \in DOMAIN Tail(s) : Tail(s)[i] = "kill"
<1>1. /\ Head(s) \in Datagram /\ Tail(s) \in Seq(Datagram) /\ Len(Tail(s)) = Len(s) - 1
      /\ Head(s) = s[1] /\ Len(s) \in Nat
  OBVIOUS
<1>2. ASSUME NEW i \in DOMAIN s, s[i] = "kill", Head(s) # "kill"
      PROVE  \E j \in DOMAIN Tail(s) : Tail(s)[j] = "kill"
  <2>1. i \in 2..Len(s)
    BY <1>1, <1>2
  <2>2. i - 1 \in DOMAIN Tail(s) /\ Tail(s)[i - 1] = s[i]
    BY <2>1, <1>1
  <2> QED BY <2>2, <1>2
<1> QED BY <1>1, <1>2

\* A socket changes by one datagram that is added.
LEMMA PutInv ==
    ASSUME ShutdownTypeOK, NEW t \in Served, NEW d \in Datagram, Takes(t),
           queue' = [queue EXCEPT ![t] = Append(@, d)], UNCHANGED thread
    PROVE  /\ queue' \in [Served -> Seq(Datagram)]
           /\ \A u \in Served : Len(queue'[u]) <= Buffer
           /\ \A u \in Served : KillIsUnderway(u) => KillIsUnderway(u)'
           /\ d = "kill" => KillIsUnderway(t)'
<1>1. queue \in [Served -> Seq(Datagram)] /\ queue[t] \in Seq(Datagram)
  BY DEF ShutdownTypeOK, Datagram
<1>2. Len(queue[t]) < Buffer /\ Len(queue[t]) \in Nat /\ Buffer \in Nat
  BY <1>1, ShutdownAssumption DEF Takes
<1>3. /\ queue'[t] = Append(queue[t], d)
      /\ \A u \in Served : u # t => queue'[u] = queue[u]
  BY <1>1
<1>4. queue' \in [Served -> Seq(Datagram)]
  BY <1>1, AppendDatagram
<1>5. \A u \in Served : Len(queue'[u]) <= Buffer
  BY <1>1, <1>2, <1>3, AppendDatagram DEF ShutdownTypeOK
<1>6. /\ \A u \in Served : KillIsUnderway(u) => KillIsUnderway(u)'
      /\ d = "kill" => KillIsUnderway(t)'
  BY <1>1, <1>3, AppendDatagram DEF KillIsUnderway
<1> QED BY <1>4, <1>5, <1>6

\* A socket changes by one datagram that is taken, and its thread ends if that is
\* the kill.
LEMMA TakeInv ==
    ASSUME ShutdownTypeOK, NEW t \in Served, queue[t] # <<>>,
           queue' = [queue EXCEPT ![t] = Tail(@)],
           Head(queue[t]) = "kill" => thread'[t] = "ended",
           \A u \in Served : u # t => thread'[u] = thread[u],
           thread[t] # "ended"
    PROVE  /\ queue' \in [Served -> Seq(Datagram)]
           /\ \A u \in Served : Len(queue'[u]) <= Buffer
           /\ \A u \in Served : KillIsUnderway(u) => KillIsUnderway(u)'
<1>1. queue \in [Served -> Seq(Datagram)] /\ queue[t] \in Seq(Datagram)
  BY DEF ShutdownTypeOK, Datagram
<1>2. /\ queue'[t] = Tail(queue[t])
      /\ \A u \in Served : u # t => queue'[u] = queue[u]
  BY <1>1
<1>3. queue' \in [Served -> Seq(Datagram)]
  BY <1>1, TailDatagram
<1>4. \A u \in Served : Len(queue'[u]) <= Buffer
  <2>1. Len(queue[t]) <= Buffer /\ Len(Tail(queue[t])) = Len(queue[t]) - 1
    BY <1>1, TailDatagram DEF ShutdownTypeOK
  <2>2. Len(queue[t]) \in Nat /\ Buffer \in Nat
    BY <1>1, ShutdownAssumption
  <2> QED BY <1>2, <2>1, <2>2 DEF ShutdownTypeOK
<1>5. ASSUME NEW u \in Served, KillIsUnderway(u)
      PROVE  KillIsUnderway(u)'
  <2>1. CASE u # t
    BY <2>1, <1>2, <1>5 DEF KillIsUnderway
  <2>2. CASE u = t
    BY <2>2, <1>1, <1>2, <1>5, TailDatagram DEF KillIsUnderway
  <2> QED BY <2>1, <2>2
<1> QED BY <1>3, <1>4, <1>5

\* The threads have not started when main reaches executeScripts.
LEMMA ShutdownInitInv == Init => ShutdownInv
<1> SUFFICES ASSUME Init PROVE ShutdownInv
  OBVIOUS
<1> USE DEF Init, AfterAlarm, AfterHttp, AfterPolling, AfterReceiver, AfterStop, AfterKillAlarm,
            AfterKillPolling, AfterKillReceiver
<1>1. ShutdownTypeOK
  <2>1. \A t \in Served : queue[t] = <<>> /\ Len(<<>>) = 0 /\ queue[t] \in Seq(Datagram)
    BY DEF Datagram
  <2>2. queue \in [Served -> Seq(Datagram)] /\ \A t \in Served : Len(queue[t]) <= Buffer
    BY <2>1, ShutdownAssumption
  <2>3. /\ thread \in [Served -> {"bind", "round", "receive", "save", "writing", "ended"}]
        /\ thread["alarm"] = "bind" /\ thread["receiver"] = "receive" /\ thread["polling"] = "bind"
    BY DEF Served
  <2>4. size \in 0..MaxSensors
    BY ShutdownAssumption
  <2> QED BY <2>2, <2>3, <2>4 DEF ShutdownTypeOK, polling
<1>2. JoinedHaveEnded /\ KillsAreUnderway /\ HttpIsStopped
  BY DEF JoinedHaveEnded, KillsAreUnderway, HttpIsStopped
<1> QED BY <1>1, <1>2 DEF ShutdownInv

\* The process that an exception ends has no thread left.
LEMMA DieInv ==
    ASSUME ShutdownInv, Die
    PROVE  ShutdownInv'
<1> USE DEF ShutdownInv, Die, AfterAlarm, AfterHttp, AfterPolling, AfterReceiver, AfterStop,
            AfterKillAlarm, AfterKillPolling, AfterKillReceiver, BeforeStop
<1>1. ShutdownTypeOK'
  BY DEF ShutdownTypeOK, Served, pollVars, polling
<1>2. JoinedHaveEnded' /\ KillsAreUnderway' /\ HttpIsStopped'
  BY DEF JoinedHaveEnded, KillsAreUnderway, HttpIsStopped
<1> QED BY <1>1, <1>2 DEF ShutdownInv

\* A kill datagram that main sends is underway, or it is missed.
LEMMA SendKillInv ==
    ASSUME ShutdownTypeOK, NEW t \in Served, NEW next, SendKill(t, next)
    PROVE  /\ main' = next /\ UNCHANGED <<thread, pollVars, httpVars>>
           /\ queue' \in [Served -> Seq(Datagram)]
           /\ \A u \in Served : Len(queue'[u]) <= Buffer
           /\ missed' \in BOOLEAN /\ (missed => missed')
           /\ \A u \in Served : KillIsUnderway(u) => KillIsUnderway(u)'
           /\ ~missed' => KillIsUnderway(t)'
<1>1. main' = next /\ UNCHANGED <<thread, pollVars, httpVars>>
  BY DEF SendKill
<1>2. CASE Takes(t) /\ queue' = [queue EXCEPT ![t] = Append(@, "kill")] /\ UNCHANGED missed
  BY <1>1, <1>2, PutInv DEF ShutdownTypeOK, Datagram
<1>3. CASE UNCHANGED queue /\ missed' = (missed \/ thread[t] # "ended")
  BY <1>1, <1>3 DEF ShutdownTypeOK, KillIsUnderway
<1> QED BY <1>1, <1>2, <1>3 DEF SendKill

\* What a step that leaves main alone has to keep, for the kills.
LEMMA KillsStay ==
    ASSUME ShutdownInv, UNCHANGED <<main, missed>>,
           \A u \in Served : KillIsUnderway(u) => KillIsUnderway(u)'
    PROVE  KillsAreUnderway'
BY DEF ShutdownInv, KillsAreUnderway, Served

\* A thread of Served that goes from one statement to the next, not from its end,
\* and leaves its socket alone.
LEMMA GotoInv ==
    ASSUME ShutdownTypeOK, UNCHANGED queue, NEW t \in Served, NEW pc, Goto(t, pc),
           thread[t] # "ended"
    PROVE  /\ thread' = [thread EXCEPT ![t] = pc]
           /\ \A u \in Served : KillIsUnderway(u) => KillIsUnderway(u)'
BY DEF ShutdownTypeOK, Goto, KillIsUnderway

\* Every statement of main preserves the invariant.
LEMMA MainInv ==
    ASSUME ShutdownInv, ExitExecuted \/ Main
    PROVE  ShutdownInv'
<1> USE DEF AfterAlarm, AfterHttp, AfterPolling, AfterReceiver, AfterStop, AfterKillAlarm,
            AfterKillPolling, AfterKillReceiver, BeforeStop, pollVars, httpVars
<1>1. CASE ExitExecuted
  BY <1>1 DEF ShutdownInv, ExitExecuted, MainStep, ShutdownTypeOK, polling, JoinedHaveEnded,
              KillsAreUnderway, KillIsUnderway, HttpIsStopped
<1>2. CASE KillAlarm
  <2>1. CASE Unresolved
    BY <2>1, DieInv DEF Unresolved
  <2>2. CASE main = "kill_alarm" /\ SendKill("alarm", "kill_polling")
    BY <2>2, SendKillInv DEF ShutdownInv, ShutdownTypeOK, polling, JoinedHaveEnded,
                             KillsAreUnderway, HttpIsStopped, Served
  <2> QED BY <1>2, <2>1, <2>2 DEF KillAlarm
<1>3. CASE KillPolling
  <2>1. CASE Unresolved
    BY <2>1, DieInv DEF Unresolved
  <2>2. CASE main = "kill_polling" /\ SendKill("polling", "stop_http")
    BY <2>2, SendKillInv DEF ShutdownInv, ShutdownTypeOK, polling, JoinedHaveEnded,
                             KillsAreUnderway, HttpIsStopped, Served
  <2> QED BY <1>3, <2>1, <2>2 DEF KillPolling
<1>4. CASE CloseAcceptor
  <2>1. missed' \in BOOLEAN /\ (missed => missed')
    BY <1>4 DEF ShutdownInv, ShutdownTypeOK, CloseAcceptor
  <2>2. ShutdownTypeOK'
    BY <1>4, <2>1 DEF ShutdownInv, CloseAcceptor, ShutdownTypeOK, polling
  <2>3. JoinedHaveEnded' /\ KillsAreUnderway'
    BY <1>4, <2>1 DEF ShutdownInv, CloseAcceptor, JoinedHaveEnded, KillsAreUnderway, KillIsUnderway
  <2>4. ~missed' => ~missed /\ http \notin {"create", "open", "accept"}
    BY <1>4 DEF CloseAcceptor
  <2>5. HttpIsStopped'
    BY <1>4, <2>4 DEF ShutdownInv, ShutdownTypeOK, CloseAcceptor, HttpIsStopped
  <2> QED BY <2>2, <2>3, <2>5 DEF ShutdownInv
<1>5. CASE StopService
  BY <1>5 DEF ShutdownInv, StopService, ShutdownTypeOK, polling, JoinedHaveEnded,
              KillsAreUnderway, KillIsUnderway, HttpIsStopped
<1>6. CASE JoinAlarm \/ JoinHttp \/ JoinPolling
  BY <1>6 DEF ShutdownInv, JoinAlarm, JoinHttp, JoinPolling, MainStep, ShutdownTypeOK, polling,
              JoinedHaveEnded, KillsAreUnderway, KillIsUnderway, HttpIsStopped
<1>7. CASE MainSaves
  BY <1>7 DEF ShutdownInv, MainSaves, MainStep, ShutdownTypeOK, polling,
              JoinedHaveEnded, KillsAreUnderway, KillIsUnderway, HttpIsStopped
<1>8. CASE KillReceiver
  BY <1>8, SendKillInv DEF ShutdownInv, KillReceiver, ShutdownTypeOK, polling, JoinedHaveEnded,
                           KillsAreUnderway, HttpIsStopped, Served
<1>9. CASE JoinReceiver \/ DestroyList
  BY <1>9 DEF ShutdownInv, JoinReceiver, DestroyList, MainStep, ShutdownTypeOK, polling,
              JoinedHaveEnded, KillsAreUnderway, KillIsUnderway, HttpIsStopped
<1> QED BY <1>1, <1>2, <1>3, <1>4, <1>5, <1>6, <1>7, <1>8, <1>9 DEF Main

\* Every step of the polling thread preserves the invariant.
LEMMA PollInv ==
    ASSUME ShutdownInv, Poll \/ SensorsChange
    PROVE  ShutdownInv'
<1>0. ShutdownTypeOK /\ "polling" \in Served
  BY DEF ShutdownInv, Served
<1>1. CASE StartRound
  <2>1. \A u \in Served : KillIsUnderway(u) => KillIsUnderway(u)'
    BY <1>0, <1>1, GotoInv DEF StartRound, polling
  <2>2. thread' = [thread EXCEPT !["polling"] = "receive"] /\ thread["polling"] = "round"
    BY <1>1 DEF StartRound, Goto, polling
  <2>3. ShutdownTypeOK'
    <3>1. left' \in Nat /\ left' > 0
      BY <1>0, <1>1, ShutdownAssumption DEF StartRound, Receives, ShutdownTypeOK
    <3> QED BY <1>0, <1>1, <2>2, <3>1
            DEF StartRound, ShutdownTypeOK, Served, httpVars, polling
  <2>4. JoinedHaveEnded' /\ HttpIsStopped'
    BY <1>0, <1>1, <2>2 DEF StartRound, ShutdownInv, ShutdownTypeOK, JoinedHaveEnded,
                            HttpIsStopped, Served, httpVars
  <2>5. KillsAreUnderway'
    BY <1>1, <2>1, KillsStay DEF StartRound
  <2> QED BY <2>3, <2>4, <2>5 DEF ShutdownInv
<1>2. CASE PollReceives
  <2> DEFINE pc == CASE EndsPolling -> "ended"
                     [] ~EndsPolling /\ left' = 0 -> "save"
                     [] OTHER -> "receive"
  <2>1. thread' = [thread EXCEPT !["polling"] = pc] /\ thread["polling"] = "receive"
    BY <1>2 DEF PollReceives, Goto, polling
  <2>2. /\ thread' \in [Served -> {"bind", "round", "receive", "save", "writing", "ended"}]
        /\ thread'["polling"] = pc
        /\ \A u \in Served : u # "polling" => thread'[u] = thread[u]
    BY <1>0, <2>1 DEF ShutdownTypeOK
  <2>3. /\ queue' \in [Served -> Seq(Datagram)]
        /\ \A u \in Served : Len(queue'[u]) <= Buffer
        /\ \A u \in Served : KillIsUnderway(u) => KillIsUnderway(u)'
    <3>1. CASE queue["polling"] = <<>>
      <4>1. queue' = queue
        BY <1>0, <1>2, <3>1 DEF PollReceives, ShutdownTypeOK
      <4> QED BY <1>0, <2>1, <2>2, <4>1 DEF ShutdownTypeOK, KillIsUnderway
    <3>2. CASE queue["polling"] # <<>>
      <4>1. queue' = [queue EXCEPT !["polling"] = Tail(@)]
        BY <1>0, <1>2, <3>2 DEF PollReceives, ShutdownTypeOK
      <4>2. Head(queue["polling"]) = "kill" => thread'["polling"] = "ended"
        BY <2>2, <3>2 DEF EndsPolling
      <4> QED BY <1>0, <2>1, <2>2, <3>2, <4>1, <4>2, TakeInv
    <3> QED BY <3>1, <3>2
  <2>4. left' \in Nat /\ (thread'["polling"] = "receive" => left' > 0)
    BY <1>0, <1>2, <2>1, <2>2 DEF PollReceives, ShutdownTypeOK, polling
  <2>5. ShutdownTypeOK'
    BY <1>0, <1>2, <2>2, <2>3, <2>4 DEF PollReceives, ShutdownTypeOK, Served, httpVars, polling
  <2>6. JoinedHaveEnded' /\ HttpIsStopped'
    BY <1>0, <1>2, <2>1, <2>2 DEF PollReceives, ShutdownInv, JoinedHaveEnded,
                                  HttpIsStopped, Served, httpVars
  <2>7. KillsAreUnderway'
    BY <1>2, <2>3, KillsStay DEF PollReceives
  <2> QED BY <2>5, <2>6, <2>7 DEF ShutdownInv
<1>3. CASE PollSaves
  <2> DEFINE pc == IF polling = "save" THEN "writing" ELSE "round"
  <2>1. thread' = [thread EXCEPT !["polling"] = pc] /\ thread["polling"] \in {"save", "writing"}
    BY <1>3 DEF PollSaves, Goto, polling
  <2>2. \A u \in Served : KillIsUnderway(u) => KillIsUnderway(u)'
    BY <1>0, <1>3, GotoInv DEF PollSaves, polling
  <2>3. ShutdownTypeOK'
    BY <1>0, <1>3, <2>1 DEF PollSaves, ShutdownTypeOK, Served, httpVars, pollVars, polling
  <2>4. JoinedHaveEnded' /\ HttpIsStopped'
    BY <1>0, <1>3, <2>1 DEF PollSaves, ShutdownInv, ShutdownTypeOK, JoinedHaveEnded,
                            HttpIsStopped, Served, httpVars
  <2>5. KillsAreUnderway'
    BY <1>3, <2>2, KillsStay DEF PollSaves
  <2> QED BY <2>3, <2>4, <2>5 DEF ShutdownInv
<1>4. CASE SensorsChange
  BY <1>4 DEF SensorsChange, ShutdownInv, ShutdownTypeOK, polling, JoinedHaveEnded,
              KillsAreUnderway, KillIsUnderway, HttpIsStopped, httpVars
<1> QED BY <1>1, <1>2, <1>3, <1>4 DEF Poll

\* Every step of the HTTP thread preserves the invariant.
LEMMA HttpInv ==
    ASSUME ShutdownInv, Http
    PROVE  ShutdownInv'
<1> USE DEF otherVars, pollVars, AfterAlarm, AfterHttp, AfterPolling, AfterReceiver, AfterStop,
            BeforeStop
<1>0. CASE Die
  BY <1>0, DieInv
<1>1. CASE UNCHANGED otherVars /\ ~Die
  <2>1. acceptor' \in BOOLEAN /\ stopped' \in BOOLEAN /\ spins' \in BOOLEAN
    BY <1>1 DEF ShutdownInv, ShutdownTypeOK, Http, CreateAcceptor, OpenAcceptor, Listen,
                AcceptFirst, RunService, ServiceReturns
  <2>2. http' \in {"create", "open", "listen", "accept", "run", "running", "ended"}
    BY <1>1 DEF Http, CreateAcceptor, OpenAcceptor, Listen, AcceptFirst, RunService,
                ServiceReturns
  <2>3. ShutdownTypeOK'
    BY <1>1, <2>1, <2>2 DEF ShutdownInv, ShutdownTypeOK, polling
  <2>4. JoinedHaveEnded'
    BY <1>1 DEF ShutdownInv, JoinedHaveEnded, Http, CreateAcceptor, OpenAcceptor, Listen,
                AcceptFirst, RunService, ServiceReturns
  <2>5. KillsAreUnderway'
    BY <1>1 DEF ShutdownInv, KillsAreUnderway, KillIsUnderway
  <2>6. HttpIsStopped'
    <3>1. CASE CreateAcceptor
      BY <1>1, <3>1 DEF ShutdownInv, HttpIsStopped, CreateAcceptor
    <3>2. CASE OpenAcceptor
      BY <1>1, <3>2 DEF ShutdownInv, HttpIsStopped, OpenAcceptor
    <3>3. CASE Listen
      BY <1>1, <3>3 DEF ShutdownInv, HttpIsStopped, Listen
    <3>4. CASE AcceptFirst
      <4>1. spins' = ~acceptor /\ UNCHANGED <<main, missed, acceptor>>
        BY <3>4 DEF AcceptFirst
      <4> QED BY <3>4, <4>1 DEF ShutdownInv, ShutdownTypeOK, HttpIsStopped, AcceptFirst
    <3>5. CASE RunService
      BY <1>1, <3>5 DEF ShutdownInv, HttpIsStopped, RunService
    <3>6. CASE ServiceReturns
      BY <1>1, <3>6 DEF ShutdownInv, HttpIsStopped, ServiceReturns
    <3> QED BY <3>1, <3>2, <3>3, <3>4, <3>5, <3>6 DEF Http
  <2> QED BY <2>3, <2>4, <2>5, <2>6 DEF ShutdownInv
<1> QED BY <1>0, <1>1 DEF Http, CreateAcceptor, OpenAcceptor, Listen, AcceptFirst, RunService,
                          ServiceReturns

\* The sockets and the threads that serve them preserve the invariant.
LEMMA SocketInv ==
    ASSUME ShutdownInv, NEW t \in Served,
           BindSocket(t) \/ Receive(t) \/ DatagramArrives(t) \/ ReceiveFails
    PROVE  ShutdownInv'
<1>0. ShutdownTypeOK
  BY DEF ShutdownInv
<1>1. CASE BindSocket(t) /\ ~Die
  <2> DEFINE pc == IF t = "alarm" THEN "receive" ELSE "round"
  <2>1. thread' = [thread EXCEPT ![t] = pc] /\ thread[t] = "bind"
    BY <1>1 DEF BindSocket, Goto
  <2>2. UNCHANGED <<main, queue, pollVars, httpVars, missed>>
    BY <1>1 DEF BindSocket
  <2>3. \A u \in Served : KillIsUnderway(u) => KillIsUnderway(u)'
    BY <1>0, <2>1, <2>2, GotoInv DEF Goto
  <2>4. ShutdownTypeOK'
    BY <1>0, <2>1, <2>2 DEF ShutdownTypeOK, Served, httpVars, pollVars, polling
  <2>5. JoinedHaveEnded' /\ HttpIsStopped'
    BY <1>0, <2>1, <2>2 DEF ShutdownInv, ShutdownTypeOK, JoinedHaveEnded,
                            HttpIsStopped, Served, httpVars
  <2>6. KillsAreUnderway'
    BY <2>2, <2>3, KillsStay
  <2> QED BY <2>4, <2>5, <2>6 DEF ShutdownInv
<1>2. CASE Receive(t)
  <2> DEFINE pc == IF Head(queue[t]) = "kill" THEN "ended" ELSE "receive"
  <2>1. thread' = [thread EXCEPT ![t] = pc] /\ thread[t] = "receive" /\ queue[t] # <<>>
    BY <1>2 DEF Receive, Goto
  <2>2. UNCHANGED <<main, pollVars, httpVars, missed>>
    BY <1>2 DEF Receive
  <2>3. thread'[t] = pc /\ \A u \in Served : u # t => thread'[u] = thread[u]
    BY <1>0, <2>1 DEF ShutdownTypeOK
  <2>4. /\ queue' \in [Served -> Seq(Datagram)]
        /\ \A u \in Served : Len(queue'[u]) <= Buffer
        /\ \A u \in Served : KillIsUnderway(u) => KillIsUnderway(u)'
    BY <1>0, <1>2, <2>1, <2>3, TakeInv DEF Receive
  <2>5. ShutdownTypeOK'
    BY <1>0, <2>1, <2>2, <2>4 DEF ShutdownTypeOK, Served, httpVars, pollVars, polling
  <2>6. JoinedHaveEnded' /\ HttpIsStopped'
    BY <1>0, <2>1, <2>2 DEF ShutdownInv, ShutdownTypeOK, JoinedHaveEnded,
                            HttpIsStopped, Served, httpVars
  <2>7. KillsAreUnderway'
    BY <2>2, <2>4, KillsStay
  <2> QED BY <2>5, <2>6, <2>7 DEF ShutdownInv
<1>3. CASE DatagramArrives(t)
  <2>1. UNCHANGED <<main, thread, pollVars, httpVars, missed>>
    BY <1>3 DEF DatagramArrives
  <2>2. /\ queue' \in [Served -> Seq(Datagram)]
        /\ \A u \in Served : Len(queue'[u]) <= Buffer
        /\ \A u \in Served : KillIsUnderway(u) => KillIsUnderway(u)'
    BY <1>0, <1>3, PutInv DEF DatagramArrives, Datagram
  <2>3. ShutdownTypeOK'
    BY <1>0, <2>1, <2>2 DEF ShutdownTypeOK, httpVars, pollVars, polling
  <2>4. JoinedHaveEnded' /\ HttpIsStopped'
    BY <2>1 DEF ShutdownInv, JoinedHaveEnded, HttpIsStopped, httpVars
  <2>5. KillsAreUnderway'
    BY <2>1, <2>2, KillsStay
  <2> QED BY <2>3, <2>4, <2>5 DEF ShutdownInv
<1>4. CASE ReceiveFails
  <2>1. thread' = [thread EXCEPT !["alarm"] = "ended"] /\ thread["alarm"] = "receive"
    BY <1>4 DEF ReceiveFails, Goto
  <2>2. \A u \in Served : KillIsUnderway(u) => KillIsUnderway(u)'
    BY <1>0, <1>4, GotoInv DEF ReceiveFails, Served
  <2>3. ShutdownTypeOK'
    BY <1>0, <1>4, <2>1 DEF ReceiveFails, ShutdownTypeOK, Served, httpVars, pollVars, polling
  <2>4. JoinedHaveEnded' /\ HttpIsStopped'
    BY <1>0, <1>4, <2>1 DEF ReceiveFails, ShutdownInv, ShutdownTypeOK, JoinedHaveEnded,
                            HttpIsStopped, Served, httpVars
  <2>5. KillsAreUnderway'
    BY <1>4, <2>2, KillsStay DEF ReceiveFails
  <2> QED BY <2>3, <2>4, <2>5 DEF ShutdownInv
<1> QED BY <1>1, <1>2, <1>3, <1>4, DieInv DEF BindSocket

\* Every step of the specification preserves the invariant.
LEMMA ShutdownNextInv == ShutdownInv /\ [Next]_vars => ShutdownInv'
<1> SUFFICES ASSUME ShutdownInv, [Next]_vars PROVE ShutdownInv'
  OBVIOUS
<1>1. CASE ExitExecuted \/ Main
  BY <1>1, MainInv
<1>2. CASE Poll \/ SensorsChange
  BY <1>2, PollInv
<1>3. CASE Http
  BY <1>3, HttpInv
<1>4. CASE ReceiveFails
  BY <1>4, SocketInv DEF Served
<1>5. CASE \E t \in Served : BindSocket(t) \/ Receive(t) \/ DatagramArrives(t)
  BY <1>5, SocketInv
<1>6. CASE UNCHANGED vars
  BY <1>6 DEF vars, ShutdownInv, ShutdownTypeOK, polling, JoinedHaveEnded, KillsAreUnderway,
              KillIsUnderway, HttpIsStopped
<1> QED BY <1>1, <1>2, <1>3, <1>4, <1>5, <1>6 DEF Next

\* The invariant holds in every state of the program.
THEOREM ShutdownInvariance == Spec => []ShutdownInv
BY ShutdownInitInv, ShutdownNextInv, PTL DEF Spec

\* Every variable keeps its type: no socket overflows its buffer, and the polling
\* thread never receives in a round that has no receive left.
THEOREM ShutdownTypes == Spec => []ShutdownTypeOK
<1>1. ShutdownInv => ShutdownTypeOK
  BY DEF ShutdownInv
<1> QED BY <1>1, ShutdownInvariance, PTL

\* main's save of the list after the joins is the last one, and meets no save of the
\* polling thread.
THEOREM LastSaveIsMainsTheorem == Spec => []LastSaveIsMains
<1>1. ShutdownInv => LastSaveIsMains
  BY DEF ShutdownInv, JoinedHaveEnded, LastSaveIsMains, AfterPolling, AfterReceiver, polling
<1> QED BY <1>1, ShutdownInvariance, PTL

\* No thread is left that uses the Communicator or the SensorList when main has
\* destroyed it.
THEOREM OwnersOutliveThreadsTheorem == Spec => []OwnersOutliveThreads
<1>1. ShutdownInv => OwnersOutliveThreads
  BY DEF ShutdownInv, JoinedHaveEnded, OwnersOutliveThreads, AfterAlarm, AfterHttp,
         AfterPolling, AfterReceiver, polling, Served
<1> QED BY <1>1, ShutdownInvariance, PTL

\* main waits in no join for a thread that nothing will end, unless a kill datagram
\* was lost or stop() came too early: the safety part of ExitEnds.
THEOREM EveryJoinIsPreparedTheorem == Spec => []EveryJoinIsPrepared
<1>1. ShutdownInv => EveryJoinIsPrepared
  BY DEF ShutdownInv, EveryJoinIsPrepared, KillsAreUnderway, HttpIsStopped, AfterAlarm,
         AfterHttp, AfterPolling, AfterReceiver, AfterStop, AfterKillAlarm, AfterKillPolling,
         AfterKillReceiver
<1> QED BY <1>1, ShutdownInvariance, PTL
================================================================================
