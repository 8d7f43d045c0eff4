---------------------------- MODULE ChannelsProofs ----------------------------
(***************************************************************************)
(* The two channels central exchanges messages through.                    *)
(*                                                                         *)
(* UDPClient, for any number of threads, peers and callbacks, and whatever *)
(* the network repeats, reorders or loses: a callback that has not run is  *)
(* held by one call or saved for one peer.                                 *)
(*                                                                         *)
(* The named pipes, for any number of config programs: what execute()      *)
(* holds in its buffer, and, as long as config programs come one at a      *)
(* time, where the command and the reply of the one at work are.           *)
(***************************************************************************)
EXTENDS Callbacks, ScriptPipe, TLAPS
-----------------------------------------------------------------------------
(* Ownership of callbacks in UDPClient.                                     *)

\* What is saved for a peer was handed over for it and has not run.
SavedIsOwned ==
    \A p \in Peer : callbackMap[p] # NoCallback =>
        asked[callbackMap[p]] = p /\ callbackMap[p] \notin ran

\* What a call has not saved yet was handed over by this call, for its peer,
\* and is nowhere else.
SentIsOwned ==
    \A c \in Caller : sending[c] # NotSending =>
        /\ asked[sending[c][2]] = sending[c][1]
        /\ sending[c][2] \notin ran
        /\ \A p \in Peer : callbackMap[p] # sending[c][2]
        /\ \A d \in Caller \ {c} :
              sending[d] # NotSending => sending[d][2] # sending[c][2]

\* Only callbacks that were handed over have run.
RanWasAsked == \A cb \in ran : asked[cb] # NoPeer

CallbacksInv ==
    /\ CallbacksTypeOK
    /\ SavedIsOwned
    /\ SentIsOwned
    /\ RanWasAsked
    /\ CallbackMeetsItsPeer

\* A client that was just constructed owns nothing.
LEMMA CallbacksInitInv == CallbacksInit => CallbacksInv
BY CallbacksAssumption, UDPClientAssumption
DEF CallbacksInit, UDPInit, CallbacksInv, CallbacksTypeOK, UDPTypeOK, SavedIsOwned,
    SentIsOwned, RanWasAsked, CallbackMeetsItsPeer, NotSending, Nothing

\* Every step of a caller, of the receiver thread, of a peer and of the network
\* keeps the invariant.
LEMMA CallbacksNextInv == CallbacksInv /\ [CallbacksNext]_callbacksVars => CallbacksInv'
<1> SUFFICES ASSUME CallbacksInv, [CallbacksNext]_callbacksVars PROVE CallbacksInv'
  OBVIOUS
<1> USE CallbacksAssumption, UDPClientAssumption
<1>t. /\ CallbacksTypeOK
      /\ SavedIsOwned
      /\ SentIsOwned
      /\ RanWasAsked
      /\ CallbackMeetsItsPeer
  BY DEF CallbacksInv
<1>1. ASSUME NEW c \in Caller, NEW p \in Peer, NEW q \in Question, NEW cb \in Callback,
             sendAndSaveCallback(c, p, q, cb)
      PROVE  CallbacksInv'
  <2> USE <1>1, <1>t DEF sendAndSaveCallback, SendQuestion
  <2>1. CallbacksTypeOK'
    BY DEF CallbacksTypeOK, UDPTypeOK, Sending
  <2>2. SavedIsOwned'
    BY DEF CallbacksTypeOK, UDPTypeOK, SavedIsOwned
  <2>3. SentIsOwned'
    <3>1. /\ \A r \in Peer : callbackMap[r] # cb
          /\ \A d \in Caller : sending[d] # NotSending => sending[d][2] # cb
          /\ cb \notin ran
      BY DEF CallbacksTypeOK, UDPTypeOK, Sending, SavedIsOwned, SentIsOwned, RanWasAsked
    <3>2. /\ sending'[c] = <<p, cb>>
          /\ asked'[cb] = p
          /\ \A d \in Caller \ {c} : sending'[d] = sending[d]
          /\ \A x \in Callback \ {cb} : asked'[x] = asked[x]
      BY DEF CallbacksTypeOK, UDPTypeOK
    <3>3. \A d \in Caller : sending[d] # NotSending => sending[d][2] \in Callback
      BY DEF CallbacksTypeOK, UDPTypeOK, Sending
    <3> QED BY <3>1, <3>2, <3>3 DEF SentIsOwned
  <2>4. RanWasAsked'
    BY DEF CallbacksTypeOK, RanWasAsked
  <2>5. CallbackMeetsItsPeer'
    BY DEF CallbacksTypeOK, UDPTypeOK, Handling, CallbackMeetsItsPeer
  <2> QED BY <2>1, <2>2, <2>3, <2>4, <2>5 DEF CallbacksInv
<1>2. ASSUME NEW c \in Caller, Save(c) PROVE CallbacksInv'
  <2> USE <1>2, <1>t DEF Save, SaveCallback
  <2>0. sending[c][1] \in Peer /\ sending[c][2] \in Callback
    BY DEF CallbacksTypeOK, UDPTypeOK, Sending
  <2>1. CallbacksTypeOK'
    BY <2>0 DEF CallbacksTypeOK, UDPTypeOK
  <2>2. SavedIsOwned'
    BY <2>0 DEF CallbacksTypeOK, UDPTypeOK, SavedIsOwned, SentIsOwned
  <2>3. SentIsOwned'
    BY <2>0 DEF CallbacksTypeOK, UDPTypeOK, SentIsOwned
  <2>4. RanWasAsked' /\ CallbackMeetsItsPeer'
    BY DEF RanWasAsked, CallbackMeetsItsPeer
  <2> QED BY <2>1, <2>2, <2>3, <2>4 DEF CallbacksInv
<1>3. ASSUME NEW p \in Peer, NEW m \in Answer, handleReceiveAndCheckIfEnd(p, m)
      PROVE  CallbacksInv'
  <2> USE <1>3, <1>t DEF handleReceiveAndCheckIfEnd, Receive
  <2>1. CallbacksTypeOK'
    BY DEF CallbacksTypeOK, UDPTypeOK, Handling
  <2>2. SavedIsOwned'
    BY DEF CallbacksTypeOK, UDPTypeOK, SavedIsOwned
  <2>3. SentIsOwned'
    BY DEF CallbacksTypeOK, UDPTypeOK, Sending, SentIsOwned
  <2>4. RanWasAsked'
    BY DEF CallbacksTypeOK, UDPTypeOK, SavedIsOwned, RanWasAsked
  <2>5. CallbackMeetsItsPeer'
    BY DEF CallbacksTypeOK, UDPTypeOK, SavedIsOwned, CallbackMeetsItsPeer
  <2> QED BY <2>1, <2>2, <2>3, <2>4, <2>5 DEF CallbacksInv
<1>4. ASSUME callbackOnReceive PROVE CallbacksInv'
  BY <1>4, <1>t
  DEF callbackOnReceive, CallbackReturns, CallbacksInv, CallbacksTypeOK, UDPTypeOK,
      SavedIsOwned, SentIsOwned, RanWasAsked, CallbackMeetsItsPeer
<1>5. ASSUME NEW p \in Peer, NEW q \in Question, PeerAnswers(p, q) PROVE CallbacksInv'
  BY <1>5, <1>t
  DEF PeerAnswers, PeerTakes, CallbacksInv, CallbacksTypeOK, UDPTypeOK,
      SavedIsOwned, SentIsOwned, RanWasAsked, CallbackMeetsItsPeer
<1>6. ASSUME NEW p \in Peer, Lose(p) PROVE CallbacksInv'
  BY <1>6, <1>t
  DEF Lose, LoseQuestion, LoseAnswer, CallbacksInv, CallbacksTypeOK, UDPTypeOK,
      SavedIsOwned, SentIsOwned, RanWasAsked, CallbackMeetsItsPeer
<1>7. CASE UNCHANGED callbacksVars
  BY <1>7, <1>t
  DEF callbacksVars, CallbacksInv, CallbacksTypeOK, UDPTypeOK,
      SavedIsOwned, SentIsOwned, RanWasAsked, CallbackMeetsItsPeer
<1> QED BY <1>1, <1>2, <1>3, <1>4, <1>5, <1>6, <1>7 DEF CallbacksNext

\* The invariant holds throughout.
THEOREM CallbacksInvariance == CallbacksSpec => []CallbacksInv
BY CallbacksInitInv, CallbacksNextInv, PTL DEF CallbacksSpec

\* A callback runs only on a datagram of the peer it was handed over for.
THEOREM CallbacksMeetTheirPeers == CallbacksSpec => []CallbackMeetsItsPeer
<1>1. CallbacksInv => CallbackMeetsItsPeer
  BY DEF CallbacksInv
<1> QED BY <1>1, CallbacksInvariance, PTL

\* No callback runs twice.
THEOREM CallbacksStartOnce == CallbacksSpec => []StartedOnce
<1>1. CallbacksInv => StartedOnce
  BY UDPClientAssumption
  DEF CallbacksInv, CallbacksTypeOK, SavedIsOwned, SentIsOwned, StartedOnce
<1> QED BY <1>1, CallbacksInvariance, PTL
-----------------------------------------------------------------------------
(* The named pipes between config programs and central.                     *)

\* Who holds which end follows from the statements the processes are at.
EndsAreHeld ==
    /\ pipe["in"].readers =
         {p \in {Central} : at \in {"open_out", "read", "execute", "write", "close_in",
                                    "unlink_in", "unlink_out", "stopping"}}
    /\ pipe["out"].writers =
         {p \in {Central} : at \in {"read", "execute", "write", "close_in", "close_out",
                                    "unlink_in", "unlink_out", "stopping"}}
    /\ pipe["in"].writers =
         {c \in Config : pc[c] \in {"open_out", "write", "close_in"}}
    /\ pipe["out"].readers =
         {c \in Config : pc[c] \in {"write", "close_in", "read", "close_out"}}

\* The buffer is blank between two rounds, and what replaces it is a command.
BufferIsSent ==
    /\ pipe["in"].data \in Seq(Config)
    /\ ~firstBuf /\ at \in {"open_in", "open_out", "read", "close_out"} => buf = Blank
    /\ ~firstBuf /\ at = "execute" => buf \in Config \cup {Blank}
    /\ at = "write" => buf \notin Exiting \cup {Blank}
    /\ ~firstBuf /\ at = "write" => buf \in Config

\* A config program that has opened a pipe and not written yet.
Early(c) == pc[c] \in {"open_out", "write"}

\* Central has the command of c before it, or has read it and not answered yet.
Serves(c) ==
    \/ at = "read" /\ pipe["in"].data = <<c>>
    \/ at \in {"execute", "write"} /\ buf = c /\ pipe["in"].data = <<>>

\* At most one config program is at work.
OneAtWork == \A c, d \in Config : Active(c) /\ Active(d) => c = d

NoneLost ==
    /\ at # "killed"
    /\ at \notin {"unlink_out", "stopping", "ended"} => linked = Fifo
    /\ \A c \in Config : pc[c] \notin {"killed", "failed"}

\* A config program that has yet to write meets a central that has yet to read.
EarlyMeets ==
    \A c \in Config : Early(c) =>
        /\ pipe["in"].data = <<>> /\ pipe["out"].data = <<>>
        /\ got[c] = Unread
        /\ at \in {"open_in", "open_out", "read"}
        /\ pc[c] = "write" => at # "open_in"
        /\ at = "open_in" => c \in pipe["in"].waiting
        /\ pc[c] = "write" /\ at = "open_out" => c \in pipe["out"].waiting

\* Who is served waits for the reply, unless the command is "exit".
ServedWaits ==
    /\ \A c \in Config : Serves(c) =>
        /\ pipe["out"].data = <<>>
        /\ got[c] = Unread
        /\ \/ pc[c] \in {"close_in", "read"}
           \/ c \in Exiting /\ pc[c] \in {"close_out", "done"}
        /\ at = "write" => c \in executed
    /\ pipe["in"].data # <<>> => \E c \in Config : pipe["in"].data = <<c>> /\ at = "read"
    /\ at = "write" => \E c \in Config : Serves(c)

\* A pipe holds a reply to c, and nothing else.
ReplyTo(c, data) == \E r \in Replies(c) : data = <<r>>

\* Who waits for a reply is served or has it in the pipe; who has finished got it.
RepliesReach ==
    /\ pipe["out"].data # <<>> =>
         \E c \in Config \ Exiting :
            ReplyTo(c, pipe["out"].data) /\ pc[c] \in {"close_in", "read"}
    /\ \A c \in Config \ Exiting :
         /\ pc[c] \in {"close_in", "read"} =>
              \/ Serves(c)
              \/ ReplyTo(c, pipe["out"].data) /\ c \in executed /\ got[c] = Unread
         /\ pc[c] \in {"close_out", "done"} => got[c] \in Replies(c) /\ c \in executed
    /\ \A c \in Exiting : pc[c] # "read"
    /\ \A c \in Config : c \in Exiting \/ pc[c] = "open_in" => got[c] = Unread

\* Before central has read for the first time somebody is about to write: read
\* does not meet the end of the file with an uninitialised buffer.
FirstRound ==
    firstBuf =>
        /\ at \in {"open_in", "open_out", "read"}
        /\ \A c \in Config : pc[c] \notin {"open_in", "open_out", "write"} =>
              at = "read" /\ pipe["in"].data # <<>>
        /\ at = "read" \/ (at = "open_out" /\ Central \notin pipe["in"].waiting) =>
              pipe["in"].data # <<>> \/ \E c \in Config : Early(c)

Calm ==
    OneAtWork /\ NoneLost /\ EarlyMeets /\ ServedWaits /\ RepliesReach /\ FirstRound

PipeInv == PipeTypeOK /\ EndsAreHeld /\ BufferIsSent /\ (~crowded => Calm)
-----------------------------------------------------------------------------
(* What the system calls do to a pipe.                                      *)

\* open(2) changes one end and who waits.
LEMMA OpenForReadingFields ==
    ASSUME pipe \in [Fifo -> PipeRecord], NEW f \in Fifo, NEW p \in Process,
           OpenForReading(f, p)
    PROVE  /\ pipe' \in [Fifo -> PipeRecord]
           /\ pipe'[f].readers = pipe[f].readers \cup {p}
           /\ pipe'[f].writers = pipe[f].writers
           /\ pipe'[f].data = pipe[f].data
           /\ pipe[f].writers = {} => pipe'[f].waiting = pipe[f].waiting \cup {p}
           /\ pipe[f].writers # {} => pipe'[f].waiting = pipe[f].waiting \ pipe[f].writers
           /\ \A g \in Fifo : g # f => pipe'[g] = pipe[g]
<1>1. pipe[f] \in PipeRecord
  OBVIOUS
<1>2. pipe[f].readers \cup {p} \in SUBSET Process
  BY <1>1 DEF PipeRecord
<1>3. PICK w \in SUBSET Process :
          w = IF pipe[f].writers = {} THEN pipe[f].waiting \cup {p}
              ELSE pipe[f].waiting \ pipe[f].writers
  BY <1>1 DEF PipeRecord
<1>4. pipe'[f] = [pipe[f] EXCEPT !.readers = pipe[f].readers \cup {p}, !.waiting = w]
  BY <1>1, <1>3 DEF OpenForReading, Opened
<1>5. /\ pipe'[f].readers = pipe[f].readers \cup {p}
      /\ pipe'[f].writers = pipe[f].writers
      /\ pipe'[f].data = pipe[f].data
      /\ pipe'[f].waiting = w
      /\ pipe'[f] \in PipeRecord
  BY <1>1, <1>2, <1>4 DEF PipeRecord
<1>6. /\ \A g \in Fifo : g # f => pipe'[g] = pipe[g]
      /\ pipe' \in [Fifo -> PipeRecord]
  BY <1>5 DEF OpenForReading, Opened
<1> QED BY <1>3, <1>5, <1>6

\* The same for writing.
LEMMA OpenForWritingFields ==
    ASSUME pipe \in [Fifo -> PipeRecord], NEW f \in Fifo, NEW p \in Process,
           OpenForWriting(f, p)
    PROVE  /\ pipe' \in [Fifo -> PipeRecord]
           /\ pipe'[f].writers = pipe[f].writers \cup {p}
           /\ pipe'[f].readers = pipe[f].readers
           /\ pipe'[f].data = pipe[f].data
           /\ pipe[f].readers = {} => pipe'[f].waiting = pipe[f].waiting \cup {p}
           /\ pipe[f].readers # {} => pipe'[f].waiting = pipe[f].waiting \ pipe[f].readers
           /\ \A g \in Fifo : g # f => pipe'[g] = pipe[g]
<1>1. pipe[f] \in PipeRecord
  OBVIOUS
<1>2. pipe[f].writers \cup {p} \in SUBSET Process
  BY <1>1 DEF PipeRecord
<1>3. PICK w \in SUBSET Process :
          w = IF pipe[f].readers = {} THEN pipe[f].waiting \cup {p}
              ELSE pipe[f].waiting \ pipe[f].readers
  BY <1>1 DEF PipeRecord
<1>4. pipe'[f] = [pipe[f] EXCEPT !.writers = pipe[f].writers \cup {p}, !.waiting = w]
  BY <1>1, <1>3 DEF OpenForWriting, Opened
<1>5. /\ pipe'[f].writers = pipe[f].writers \cup {p}
      /\ pipe'[f].readers = pipe[f].readers
      /\ pipe'[f].data = pipe[f].data
      /\ pipe'[f].waiting = w
      /\ pipe'[f] \in PipeRecord
  BY <1>1, <1>2, <1>4 DEF PipeRecord
<1>6. /\ \A g \in Fifo : g # f => pipe'[g] = pipe[g]
      /\ pipe' \in [Fifo -> PipeRecord]
  BY <1>5 DEF OpenForWriting, Opened
<1> QED BY <1>3, <1>5, <1>6

\* A process that lets go of a pipe takes its contents along if it is the last.
LEMMA WithoutFields ==
    ASSUME NEW r \in PipeRecord, NEW p \in Process
    PROVE  /\ Without(r, p) \in PipeRecord
           /\ Without(r, p).readers = r.readers \ {p}
           /\ Without(r, p).writers = r.writers \ {p}
           /\ Without(r, p).waiting = r.waiting \ {p}
           /\ Without(r, p).data \in {r.data, <<>>}
           /\ r.readers \ {p} # {} \/ r.writers \ {p} # {} => Without(r, p).data = r.data
BY DEF Without, PipeRecord

\* close(2) lets go of one pipe.
LEMMA CloseFields ==
    ASSUME pipe \in [Fifo -> PipeRecord], NEW f \in Fifo, NEW p \in Process, Close(f, p)
    PROVE  /\ pipe' \in [Fifo -> PipeRecord]
           /\ pipe'[f] = Without(pipe[f], p)
           /\ \A g \in Fifo : g # f => pipe'[g] = pipe[g]
BY WithoutFields DEF Close

\* The end of a process lets go of both.
LEMMA LetGoFields ==
    ASSUME pipe \in [Fifo -> PipeRecord], NEW p \in Process, LetGo(p)
    PROVE  /\ pipe' \in [Fifo -> PipeRecord]
           /\ \A g \in Fifo : pipe'[g] = Without(pipe[g], p)
BY WithoutFields DEF LetGo

\* write(2) appends.
LEMMA WriteFields ==
    ASSUME pipe \in [Fifo -> PipeRecord], NEW f \in Fifo, NEW x \in Config \cup {Blank, Other},
           Write(f, x)
    PROVE  /\ pipe' \in [Fifo -> PipeRecord]
           /\ pipe'[f].data = Append(pipe[f].data, x)
           /\ pipe'[f].readers = pipe[f].readers
           /\ pipe'[f].writers = pipe[f].writers
           /\ pipe'[f].waiting = pipe[f].waiting
           /\ \A g \in Fifo : g # f => pipe'[g] = pipe[g]
<1>1. pipe[f] \in PipeRecord /\ Append(pipe[f].data, x) \in Seq(Config \cup {Blank, Other})
  BY DEF PipeRecord
<1>2. pipe'[f] = [pipe[f] EXCEPT !.data = Append(pipe[f].data, x)]
  BY DEF Write
<1>3. /\ pipe'[f] \in PipeRecord
      /\ pipe'[f].data = Append(pipe[f].data, x)
      /\ pipe'[f].readers = pipe[f].readers
      /\ pipe'[f].writers = pipe[f].writers
      /\ pipe'[f].waiting = pipe[f].waiting
  BY <1>1, <1>2 DEF PipeRecord
<1> QED BY <1>3 DEF Write

\* read(2) takes the first buffer.
LEMMA TakeFields ==
    ASSUME pipe \in [Fifo -> PipeRecord], NEW f \in Fifo, pipe[f].data # <<>>, Take(f)
    PROVE  /\ pipe' \in [Fifo -> PipeRecord]
           /\ pipe'[f].data = Tail(pipe[f].data)
           /\ pipe'[f].readers = pipe[f].readers
           /\ pipe'[f].writers = pipe[f].writers
           /\ pipe'[f].waiting = pipe[f].waiting
           /\ \A g \in Fifo : g # f => pipe'[g] = pipe[g]
<1>1. pipe[f] \in PipeRecord /\ Tail(pipe[f].data) \in Seq(Config \cup {Blank, Other})
  BY DEF PipeRecord
<1>2. pipe'[f] = [pipe[f] EXCEPT !.data = Tail(pipe[f].data)]
  BY DEF Take
<1>3. /\ pipe'[f] \in PipeRecord
      /\ pipe'[f].data = Tail(pipe[f].data)
      /\ pipe'[f].readers = pipe[f].readers
      /\ pipe'[f].writers = pipe[f].writers
      /\ pipe'[f].waiting = pipe[f].waiting
  BY <1>1, <1>2 DEF PipeRecord
<1> QED BY <1>3 DEF Take
-----------------------------------------------------------------------------
(* Types, ends and buffer, whoever meets or is killed.                       *)

Structure == PipeTypeOK /\ EndsAreHeld /\ BufferIsSent

\* Nobody holds a pipe that was just made.
LEMMA PipeInitInv == PipeInit => PipeInv
<1> SUFFICES ASSUME PipeInit PROVE PipeInv
  OBVIOUS
<1>1. <<>> \in Seq(Config \cup {Blank, Other}) /\ <<>> \in Seq(Config)
  OBVIOUS
<1>2. NoPipe \in PipeRecord
  BY <1>1 DEF NoPipe, PipeRecord
<1>3. /\ pipe["in"] = NoPipe /\ pipe["out"] = NoPipe
      /\ pipe \in [Fifo -> PipeRecord]
  BY <1>2 DEF PipeInit, Fifo
<1>4. \A f \in Fifo : /\ pipe[f].readers = {} /\ pipe[f].writers = {}
                      /\ pipe[f].waiting = {} /\ pipe[f].data = <<>>
  BY <1>3 DEF NoPipe, Fifo
<1>5. /\ at = "open_in" /\ firstBuf /\ linked = Fifo
      /\ \A c \in Config : pc[c] = "open_in" /\ got[c] = Unread
  BY DEF PipeInit
<1>6. PipeTypeOK
  BY <1>3 DEF PipeInit, PipeTypeOK
<1>7. EndsAreHeld
  BY <1>4, <1>5 DEF EndsAreHeld, Fifo
<1>8. BufferIsSent
  BY <1>1, <1>4, <1>5 DEF BufferIsSent, Fifo
<1>9. Calm
  BY <1>4, <1>5, PipeAssumption
     DEF Calm, OneAtWork, NoneLost, EarlyMeets, ServedWaits, RepliesReach, FirstRound,
         Active, Early, Serves, Fifo
<1> QED BY <1>6, <1>7, <1>8, <1>9 DEF PipeInv

\* What the steps below use of it.
LEMMA StructureFacts ==
    ASSUME Structure
    PROVE  /\ PipeTypeOK /\ EndsAreHeld /\ BufferIsSent
           /\ pipe \in [Fifo -> PipeRecord] /\ "in" \in Fifo /\ "out" \in Fifo
           /\ pipe["in"] \in PipeRecord /\ pipe["out"] \in PipeRecord
           /\ Central \in Process /\ Config \subseteq Process
           /\ \A p \in Process : Without(pipe["in"], p).data \in Seq(Config)
<1>1. /\ PipeTypeOK /\ EndsAreHeld /\ BufferIsSent
      /\ pipe \in [Fifo -> PipeRecord] /\ "in" \in Fifo /\ "out" \in Fifo
      /\ pipe["in"] \in PipeRecord /\ pipe["out"] \in PipeRecord
      /\ Central \in Process /\ Config \subseteq Process
  BY DEF Structure, PipeTypeOK, Fifo, Process
<1>2. <<>> \in Seq(Config) /\ pipe["in"].data \in Seq(Config)
  BY <1>1 DEF BufferIsSent
<1> QED BY <1>1, <1>2, WithoutFields

\* A step of central.
LEMMA ExecutorStructure ==
    ASSUME Structure, ExecutorStep \/ CentralEnds \/ CentralRestarts
    PROVE  Structure'
<1> USE PipeAssumption
<1>0. /\ PipeTypeOK /\ EndsAreHeld /\ BufferIsSent
      /\ pipe \in [Fifo -> PipeRecord] /\ "in" \in Fifo /\ "out" \in Fifo
      /\ pipe["in"] \in PipeRecord /\ pipe["out"] \in PipeRecord
      /\ Central \in Process
  BY StructureFacts
<1>e. \A p \in Process : Without(pipe["in"], p).data \in Seq(Config)
  BY StructureFacts
<1>1. ASSUME CentralOpensIn PROVE Structure'
  <2>1. /\ pipe' \in [Fifo -> PipeRecord]
        /\ pipe'["in"].readers = pipe["in"].readers \cup {Central}
        /\ pipe'["in"].writers = pipe["in"].writers
        /\ pipe'["in"].data = pipe["in"].data
        /\ pipe'["out"] = pipe["out"]
    BY <1>0, <1>1, OpenForReadingFields DEF CentralOpensIn
  <2>2. PipeTypeOK'
    BY <1>0, <1>1, <2>1 DEF PipeTypeOK, CentralOpensIn, Configs
  <2>3. EndsAreHeld'
    BY <1>0, <1>1, <2>1 DEF EndsAreHeld, CentralOpensIn, Configs
  <2>4. BufferIsSent'
    BY <1>0, <1>1, <2>1 DEF BufferIsSent, CentralOpensIn
  <2> QED BY <2>2, <2>3, <2>4 DEF Structure
<1>2. ASSUME CentralOpensOut PROVE Structure'
  <2>1. /\ pipe' \in [Fifo -> PipeRecord]
        /\ pipe'["out"].writers = pipe["out"].writers \cup {Central}
        /\ pipe'["out"].readers = pipe["out"].readers
        /\ pipe'["in"] = pipe["in"]
    BY <1>0, <1>2, OpenForWritingFields DEF CentralOpensOut
  <2>2. PipeTypeOK'
    BY <1>0, <1>2, <2>1 DEF PipeTypeOK, CentralOpensOut, Configs
  <2>3. EndsAreHeld'
    BY <1>0, <1>2, <2>1 DEF EndsAreHeld, CentralOpensOut, Configs
  <2>4. BufferIsSent'
    BY <1>0, <1>2, <2>1 DEF BufferIsSent, CentralOpensOut
  <2> QED BY <2>2, <2>3, <2>4 DEF Structure
<1>3. ASSUME CentralReads PROVE Structure'
  <2>1. CASE pipe["in"].data # <<>> /\ buf' = Head(pipe["in"].data) /\ firstBuf' = FALSE
             /\ Take("in")
    <3>1. /\ pipe' \in [Fifo -> PipeRecord]
          /\ pipe'["in"].data = Tail(pipe["in"].data)
          /\ pipe'["in"].readers = pipe["in"].readers
          /\ pipe'["in"].writers = pipe["in"].writers
          /\ pipe'["out"] = pipe["out"]
      BY <1>0, <2>1, TakeFields
    <3>2. Head(pipe["in"].data) \in Config /\ Tail(pipe["in"].data) \in Seq(Config)
      BY <1>0, <2>1 DEF BufferIsSent
    <3>3. PipeTypeOK'
      BY <1>0, <1>3, <2>1, <3>1, <3>2 DEF PipeTypeOK, CentralReads, Configs
    <3>4. EndsAreHeld'
      BY <1>0, <1>3, <3>1 DEF EndsAreHeld, CentralReads, Configs
    <3>5. BufferIsSent'
      BY <1>0, <1>3, <2>1, <3>1, <3>2 DEF BufferIsSent, CentralReads
    <3> QED BY <3>3, <3>4, <3>5 DEF Structure
  <2>2. CASE UNCHANGED <<buf, firstBuf, pipe>>
    <3>1. PipeTypeOK'
      BY <1>0, <1>3, <2>2 DEF PipeTypeOK, CentralReads, Configs
    <3>2. EndsAreHeld'
      BY <1>0, <1>3, <2>2 DEF EndsAreHeld, CentralReads, Configs
    <3>3. BufferIsSent'
      BY <1>0, <1>3, <2>2 DEF BufferIsSent, CentralReads
    <3> QED BY <3>1, <3>2, <3>3 DEF Structure
  <2> QED BY <1>3, <2>1, <2>2 DEF CentralReads
<1>4. ASSUME Execute PROVE Structure'
  <2>1. PipeTypeOK'
    BY <1>0, <1>4 DEF PipeTypeOK, Execute, Configs
  <2>2. EndsAreHeld'
    BY <1>0, <1>4 DEF EndsAreHeld, Execute, Configs
  <2>3. BufferIsSent'
    BY <1>0, <1>4 DEF BufferIsSent, Execute
  <2> QED BY <2>1, <2>2, <2>3 DEF Structure
<1>5. ASSUME CentralReplies PROVE Structure'
  <2>1. CASE pipe["out"].readers = {}
    <3>1. LetGo(Central) /\ at' = "killed"
      BY <1>5, <2>1 DEF CentralReplies
    <3>2. /\ pipe' \in [Fifo -> PipeRecord]
          /\ pipe'["in"] = Without(pipe["in"], Central)
          /\ pipe'["out"] = Without(pipe["out"], Central)
      BY <1>0, <3>1, LetGoFields
    <3>3. PipeTypeOK'
      BY <1>0, <1>5, <3>1, <3>2 DEF PipeTypeOK, CentralReplies, Configs
    <3>4. EndsAreHeld'
      BY <1>0, <1>5, <3>1, <3>2, WithoutFields DEF EndsAreHeld, CentralReplies, Configs
    <3>5. BufferIsSent'
      BY <1>0, <1>e, <1>5, <3>1, <3>2 DEF BufferIsSent, CentralReplies
    <3> QED BY <3>3, <3>4, <3>5 DEF Structure
  <2>2. CASE pipe["out"].readers # {}
    <3>1. PICK reply \in Replies(buf) : Write("out", reply) /\ at' = "close_in"
      BY <1>5, <2>2 DEF CentralReplies
    <3>2. reply \in Config \cup {Blank, Other}
      BY <1>0, <3>1 DEF PipeTypeOK, Replies
    <3>3. /\ pipe' \in [Fifo -> PipeRecord]
          /\ pipe'["out"].readers = pipe["out"].readers
          /\ pipe'["out"].writers = pipe["out"].writers
          /\ pipe'["in"] = pipe["in"]
      BY <1>0, <3>1, <3>2, WriteFields
    <3>4. PipeTypeOK'
      BY <1>0, <1>5, <3>1, <3>3 DEF PipeTypeOK, CentralReplies, Configs
    <3>5. EndsAreHeld'
      BY <1>0, <1>5, <3>1, <3>3 DEF EndsAreHeld, CentralReplies, Configs
    <3>6. BufferIsSent'
      BY <1>0, <1>5, <3>1, <3>3 DEF BufferIsSent, CentralReplies
    <3> QED BY <3>4, <3>5, <3>6 DEF Structure
  <2> QED BY <2>1, <2>2
<1>6. ASSUME CentralClosesIn PROVE Structure'
  <2>1. /\ pipe' \in [Fifo -> PipeRecord]
        /\ pipe'["in"] = Without(pipe["in"], Central)
        /\ pipe'["out"] = pipe["out"]
    BY <1>0, <1>6, CloseFields DEF CentralClosesIn
  <2>2. PipeTypeOK'
    BY <1>0, <1>6, <2>1 DEF PipeTypeOK, CentralClosesIn, Configs
  <2>3. EndsAreHeld'
    BY <1>0, <1>6, <2>1, WithoutFields DEF EndsAreHeld, CentralClosesIn, Configs
  <2>4. BufferIsSent'
    BY <1>0, <1>e, <1>6, <2>1 DEF BufferIsSent, CentralClosesIn
  <2> QED BY <2>2, <2>3, <2>4 DEF Structure
<1>7. ASSUME CentralClosesOut PROVE Structure'
  <2>1. /\ pipe' \in [Fifo -> PipeRecord]
        /\ pipe'["out"] = Without(pipe["out"], Central)
        /\ pipe'["in"] = pipe["in"]
    BY <1>0, <1>7, CloseFields DEF CentralClosesOut
  <2>2. PipeTypeOK'
    BY <1>0, <1>7, <2>1 DEF PipeTypeOK, CentralClosesOut, Configs
  <2>3. EndsAreHeld'
    BY <1>0, <1>7, <2>1, WithoutFields DEF EndsAreHeld, CentralClosesOut, Configs
  <2>4. BufferIsSent'
    BY <1>0, <1>7, <2>1 DEF BufferIsSent, CentralClosesOut
  <2> QED BY <2>2, <2>3, <2>4 DEF Structure
<1>8. ASSUME Unlinks PROVE Structure'
  <2>1. PipeTypeOK'
    BY <1>0, <1>8 DEF PipeTypeOK, Unlinks, Configs
  <2>2. EndsAreHeld'
    BY <1>0, <1>8 DEF EndsAreHeld, Unlinks, Configs
  <2>3. BufferIsSent'
    BY <1>0, <1>8 DEF BufferIsSent, Unlinks
  <2> QED BY <2>1, <2>2, <2>3 DEF Structure
<1>9. ASSUME CentralEnds PROVE Structure'
  <2>1. /\ pipe' \in [Fifo -> PipeRecord]
        /\ pipe'["in"] = Without(pipe["in"], Central)
        /\ pipe'["out"] = Without(pipe["out"], Central)
    BY <1>0, <1>9, LetGoFields DEF CentralEnds
  <2>2. PipeTypeOK'
    BY <1>0, <1>9, <2>1 DEF PipeTypeOK, CentralEnds, Configs
  <2>3. EndsAreHeld'
    BY <1>0, <1>9, <2>1, WithoutFields DEF EndsAreHeld, CentralEnds, Configs
  <2>4. BufferIsSent'
    BY <1>0, <1>e, <1>9, <2>1 DEF BufferIsSent, CentralEnds
  <2> QED BY <2>2, <2>3, <2>4 DEF Structure
<1>10. ASSUME CentralRestarts PROVE Structure'
  <2>1. PipeTypeOK'
    BY <1>0, <1>10 DEF PipeTypeOK, CentralRestarts, Configs
  <2>2. EndsAreHeld'
    BY <1>0, <1>10 DEF EndsAreHeld, CentralRestarts, Configs
  <2>3. BufferIsSent'
    BY <1>0, <1>10 DEF BufferIsSent, CentralRestarts
  <2> QED BY <2>1, <2>2, <2>3 DEF Structure
<1> QED BY <1>1, <1>2, <1>3, <1>4, <1>5, <1>6, <1>7, <1>8, <1>9, <1>10 DEF ExecutorStep

\* A step of a config program.
LEMMA ConfigStructure ==
    ASSUME Structure, NEW c \in Config, ConfigStep(c) \/ ConfigIsKilled(c)
    PROVE  Structure'
<1> USE PipeAssumption
<1>0. /\ PipeTypeOK /\ EndsAreHeld /\ BufferIsSent
      /\ pipe \in [Fifo -> PipeRecord] /\ "in" \in Fifo /\ "out" \in Fifo
      /\ pipe["in"] \in PipeRecord /\ pipe["out"] \in PipeRecord
      /\ c \in Process
      /\ Without(pipe["in"], c).data \in Seq(Config)
  BY StructureFacts
<1>g. ASSUME NEW s, Goto(c, s)
      PROVE  pc'[c] = s /\ \A d \in Config : d # c => pc'[d] = pc[d]
  BY <1>0, <1>g DEF PipeTypeOK, Goto
<1>l. ASSUME LetGo(c), NEW s \in {"failed", "killed"}, Goto(c, s), crowded' \in BOOLEAN,
             UNCHANGED <<got, Executor>>
      PROVE  Structure'
  <2>1. /\ pipe' \in [Fifo -> PipeRecord]
        /\ pipe'["in"] = Without(pipe["in"], c)
        /\ pipe'["out"] = Without(pipe["out"], c)
    BY <1>0, <1>l, LetGoFields
  <2>2. PipeTypeOK'
    BY <1>0, <1>l, <2>1 DEF PipeTypeOK, Executor, Goto
  <2>3. EndsAreHeld'
    BY <1>0, <1>l, <1>g, <2>1, WithoutFields DEF EndsAreHeld, Executor
  <2>4. BufferIsSent'
    BY <1>0, <1>l, <2>1 DEF BufferIsSent, Executor
  <2> QED BY <2>2, <2>3, <2>4 DEF Structure
<1>1. ASSUME ConfigOpensIn(c) PROVE Structure'
  <2>0. crowded' \in BOOLEAN /\ UNCHANGED <<got, Executor>> /\ pc[c] = "open_in"
    BY <1>1 DEF ConfigOpensIn
  <2>1. CASE "in" \in linked
    <3>1. OpenForWriting("in", c) /\ Goto(c, "open_out")
      BY <1>1, <2>1 DEF ConfigOpensIn
    <3>2. /\ pipe' \in [Fifo -> PipeRecord]
          /\ pipe'["in"].writers = pipe["in"].writers \cup {c}
          /\ pipe'["in"].readers = pipe["in"].readers
          /\ pipe'["in"].data = pipe["in"].data
          /\ pipe'["out"] = pipe["out"]
      BY <1>0, <3>1, OpenForWritingFields
    <3>3. PipeTypeOK'
      BY <1>0, <2>0, <3>1, <3>2 DEF PipeTypeOK, Executor, Goto
    <3>4. EndsAreHeld'
      BY <1>0, <1>g, <2>0, <3>1, <3>2 DEF EndsAreHeld, Executor
    <3>5. BufferIsSent'
      BY <1>0, <2>0, <3>2 DEF BufferIsSent, Executor
    <3> QED BY <3>3, <3>4, <3>5 DEF Structure
  <2>2. CASE "in" \notin linked
    <3>1. UNCHANGED pipe /\ Goto(c, "failed")
      BY <1>1, <2>2 DEF ConfigOpensIn
    <3>2. PipeTypeOK'
      BY <1>0, <2>0, <3>1 DEF PipeTypeOK, Executor, Goto
    <3>3. EndsAreHeld'
      BY <1>0, <1>g, <2>0, <3>1 DEF EndsAreHeld, Executor
    <3>4. BufferIsSent'
      BY <1>0, <2>0, <3>1 DEF BufferIsSent, Executor
    <3> QED BY <3>2, <3>3, <3>4 DEF Structure
  <2> QED BY <2>1, <2>2
<1>2. ASSUME ConfigOpensOut(c) PROVE Structure'
  <2>0. UNCHANGED <<got, crowded, Executor>> /\ pc[c] = "open_out" /\ crowded' \in BOOLEAN
    BY <1>0, <1>2 DEF ConfigOpensOut, PipeTypeOK
  <2>1. CASE "out" \in linked
    <3>1. OpenForReading("out", c) /\ Goto(c, "write")
      BY <1>2, <2>1 DEF ConfigOpensOut
    <3>2. /\ pipe' \in [Fifo -> PipeRecord]
          /\ pipe'["out"].readers = pipe["out"].readers \cup {c}
          /\ pipe'["out"].writers = pipe["out"].writers
          /\ pipe'["in"] = pipe["in"]
      BY <1>0, <3>1, OpenForReadingFields
    <3>3. PipeTypeOK'
      BY <1>0, <2>0, <3>1, <3>2 DEF PipeTypeOK, Executor, Goto
    <3>4. EndsAreHeld'
      BY <1>0, <1>g, <2>0, <3>1, <3>2 DEF EndsAreHeld, Executor
    <3>5. BufferIsSent'
      BY <1>0, <2>0, <3>2 DEF BufferIsSent, Executor
    <3> QED BY <3>3, <3>4, <3>5 DEF Structure
  <2>2. CASE "out" \notin linked
    BY <1>2, <1>l, <2>0, <2>2 DEF ConfigOpensOut
  <2> QED BY <2>1, <2>2
<1>3. ASSUME ConfigWrites(c) PROVE Structure'
  <2>0. UNCHANGED <<got, crowded, Executor>> /\ pc[c] = "write" /\ crowded' \in BOOLEAN
    BY <1>0, <1>3 DEF ConfigWrites, PipeTypeOK
  <2>1. CASE pipe["in"].readers = {}
    BY <1>3, <1>l, <2>0, <2>1 DEF ConfigWrites
  <2>2. CASE pipe["in"].readers # {}
    <3>1. Write("in", c) /\ Goto(c, "close_in")
      BY <1>3, <2>2 DEF ConfigWrites
    <3>2. /\ pipe' \in [Fifo -> PipeRecord]
          /\ pipe'["in"].data = Append(pipe["in"].data, c)
          /\ pipe'["in"].readers = pipe["in"].readers
          /\ pipe'["in"].writers = pipe["in"].writers
          /\ pipe'["out"] = pipe["out"]
      BY <1>0, <3>1, WriteFields
    <3>3. pipe'["in"].data \in Seq(Config)
      BY <1>0, <3>2 DEF BufferIsSent
    <3>4. PipeTypeOK'
      BY <1>0, <2>0, <3>1, <3>2 DEF PipeTypeOK, Executor, Goto
    <3>5. EndsAreHeld'
      BY <1>0, <1>g, <2>0, <3>1, <3>2 DEF EndsAreHeld, Executor
    <3>6. BufferIsSent'
      BY <1>0, <2>0, <3>3 DEF BufferIsSent, Executor
    <3> QED BY <3>4, <3>5, <3>6 DEF Structure
  <2> QED BY <2>1, <2>2
<1>4. ASSUME ConfigClosesIn(c) PROVE Structure'
  <2>0. /\ UNCHANGED <<got, crowded, Executor>> /\ pc[c] = "close_in"
        /\ \/ Goto(c, "close_out") /\ pc'[c] = "close_out"
           \/ Goto(c, "read") /\ pc'[c] = "read"
    BY <1>4, <1>g DEF ConfigClosesIn
  <2>1. /\ pipe' \in [Fifo -> PipeRecord]
        /\ pipe'["in"] = Without(pipe["in"], c)
        /\ pipe'["out"] = pipe["out"]
    BY <1>0, <1>4, CloseFields DEF ConfigClosesIn
  <2>2. PipeTypeOK'
    BY <1>0, <2>0, <2>1 DEF PipeTypeOK, Executor, Goto
  <2>a. /\ pipe'["in"].readers = pipe["in"].readers \ {c}
        /\ pipe'["in"].writers = pipe["in"].writers \ {c}
    BY <1>0, <2>1, WithoutFields
  <2>b. pc'[c] \in {"close_out", "read"} /\ \A d \in Config : d # c => pc'[d] = pc[d]
    BY <1>g, <2>0
  <2>3. EndsAreHeld'
    BY <1>0, <2>0, <2>1, <2>a, <2>b DEF EndsAreHeld, Executor
  <2>4. BufferIsSent'
    BY <1>0, <2>0, <2>1 DEF BufferIsSent, Executor
  <2> QED BY <2>2, <2>3, <2>4 DEF Structure
<1>5. ASSUME ConfigReads(c) PROVE Structure'
  <2>0. UNCHANGED <<crowded, Executor>> /\ pc[c] = "read" /\ Goto(c, "close_out")
    BY <1>5 DEF ConfigReads
  <2>1. CASE pipe["out"].data # <<>> /\ got' = [got EXCEPT ![c] = Head(pipe["out"].data)]
             /\ Take("out")
    <3>1. /\ pipe' \in [Fifo -> PipeRecord]
          /\ pipe'["out"].readers = pipe["out"].readers
          /\ pipe'["out"].writers = pipe["out"].writers
          /\ pipe'["in"] = pipe["in"]
      BY <1>0, <2>1, TakeFields
    <3>2. Head(pipe["out"].data) \in Config \cup {Blank, Other}
      BY <1>0, <2>1 DEF PipeRecord
    <3>3. PipeTypeOK'
      BY <1>0, <2>0, <2>1, <3>1, <3>2 DEF PipeTypeOK, Executor, Goto
    <3>4. EndsAreHeld'
      BY <1>0, <1>g, <2>0, <3>1 DEF EndsAreHeld, Executor
    <3>5. BufferIsSent'
      BY <1>0, <2>0, <3>1 DEF BufferIsSent, Executor
    <3> QED BY <3>3, <3>4, <3>5 DEF Structure
  <2>2. CASE UNCHANGED <<got, pipe>>
    <3>1. PipeTypeOK'
      BY <1>0, <2>0, <2>2 DEF PipeTypeOK, Executor, Goto
    <3>2. EndsAreHeld'
      BY <1>0, <1>g, <2>0, <2>2 DEF EndsAreHeld, Executor
    <3>3. BufferIsSent'
      BY <1>0, <2>0, <2>2 DEF BufferIsSent, Executor
    <3> QED BY <3>1, <3>2, <3>3 DEF Structure
  <2> QED BY <1>5, <2>1, <2>2 DEF ConfigReads
<1>6. ASSUME ConfigClosesOut(c) PROVE Structure'
  <2>0. UNCHANGED <<got, crowded, Executor>> /\ pc[c] = "close_out" /\ Goto(c, "done")
    BY <1>6 DEF ConfigClosesOut
  <2>1. /\ pipe' \in [Fifo -> PipeRecord]
        /\ pipe'["out"] = Without(pipe["out"], c)
        /\ pipe'["in"] = pipe["in"]
    BY <1>0, <1>6, CloseFields DEF ConfigClosesOut
  <2>2. PipeTypeOK'
    BY <1>0, <2>0, <2>1 DEF PipeTypeOK, Executor, Goto
  <2>a. /\ pipe'["out"].readers = pipe["out"].readers \ {c}
        /\ pipe'["out"].writers = pipe["out"].writers \ {c}
    BY <1>0, <2>1, WithoutFields
  <2>b. pc'[c] = "done" /\ \A d \in Config : d # c => pc'[d] = pc[d]
    BY <1>g, <2>0
  <2>3. EndsAreHeld'
    BY <1>0, <2>0, <2>1, <2>a, <2>b DEF EndsAreHeld, Executor
  <2>4. BufferIsSent'
    BY <1>0, <2>0, <2>1 DEF BufferIsSent, Executor
  <2> QED BY <2>2, <2>3, <2>4 DEF Structure
<1>7. ASSUME ConfigIsKilled(c) PROVE Structure'
  BY <1>7, <1>l DEF ConfigIsKilled
<1> QED BY <1>1, <1>2, <1>3, <1>4, <1>5, <1>6, <1>7 DEF ConfigStep
-----------------------------------------------------------------------------
(* Config programs that come one at a time.                                  *)

\* A pipe never holds more than one buffer then.
LEMMA OneBuffer ==
    /\ \A x, y : <<x>> = <<y>> => x = y
    /\ \A x : <<x>> # <<>> /\ Head(<<x>>) = x /\ Tail(<<x>>) = <<>> /\ Append(<<>>, x) = <<x>>
OBVIOUS

\* A step of central.
LEMMA ExecutorCalm ==
    ASSUME Structure, Calm, ExecutorStep \/ CentralEnds \/ CentralRestarts
    PROVE  Calm'
<1> USE PipeAssumption, OneBuffer
<1>0. /\ PipeTypeOK /\ EndsAreHeld /\ BufferIsSent
      /\ pipe \in [Fifo -> PipeRecord] /\ "in" \in Fifo /\ "out" \in Fifo
      /\ pipe["in"] \in PipeRecord /\ pipe["out"] \in PipeRecord
      /\ Central \in Process
  BY StructureFacts
<1>c. OneAtWork /\ NoneLost /\ EarlyMeets /\ ServedWaits /\ RepliesReach /\ FirstRound
  BY DEF Calm
<1>u. ASSUME UNCHANGED Configs
      PROVE  UNCHANGED <<pc, got>> /\ OneAtWork'
  BY <1>c, <1>u DEF Configs, OneAtWork, Active, Finished
<1>1. ASSUME CentralOpensIn PROVE Calm'
  <2>1. /\ at = "open_in" /\ at' = "open_out" /\ UNCHANGED <<linked, buf, executed, firstBuf, Configs>>
        /\ pipe'["in"].data = pipe["in"].data
        /\ pipe'["out"] = pipe["out"]
        /\ pipe["in"].writers = {} => Central \in pipe'["in"].waiting
    BY <1>0, <1>1, OpenForReadingFields DEF CentralOpensIn
  <2>2. NoneLost'
    BY <1>0, <1>c, <1>u, <2>1 DEF NoneLost, EndsAreHeld, BufferIsSent
  <2>3. EarlyMeets'
    BY <1>0, <1>c, <1>u, <2>1 DEF EarlyMeets, Early, EndsAreHeld, BufferIsSent
  <2>4. ServedWaits'
    BY <1>0, <1>c, <1>u, <2>1 DEF ServedWaits, Serves, EndsAreHeld, BufferIsSent
  <2>5. RepliesReach'
    BY <1>0, <1>c, <1>u, <2>1 DEF RepliesReach, Serves, EndsAreHeld, BufferIsSent
  <2>6. FirstRound'
    BY <1>0, <1>c, <1>u, <2>1 DEF FirstRound, Early, EndsAreHeld, BufferIsSent
  <2> QED BY <1>u, <2>1, <2>2, <2>3, <2>4, <2>5, <2>6 DEF Calm
<1>2. ASSUME CentralOpensOut PROVE Calm'
  <2>1. /\ at = "open_out" /\ at' = "read" /\ UNCHANGED <<linked, buf, executed, firstBuf, Configs>>
        /\ Central \notin pipe["in"].waiting
        /\ pipe'["out"].data = pipe["out"].data
        /\ pipe'["in"] = pipe["in"]
    BY <1>0, <1>2, OpenForWritingFields DEF CentralOpensOut, Runs
  <2>2. NoneLost'
    BY <1>0, <1>c, <1>u, <2>1 DEF NoneLost, EndsAreHeld, BufferIsSent
  <2>3. EarlyMeets'
    BY <1>0, <1>c, <1>u, <2>1 DEF EarlyMeets, Early, EndsAreHeld, BufferIsSent
  <2>4. ServedWaits'
    BY <1>0, <1>c, <1>u, <2>1 DEF ServedWaits, Serves, EndsAreHeld, BufferIsSent
  <2>5. RepliesReach'
    BY <1>0, <1>c, <1>u, <2>1 DEF RepliesReach, Serves, EndsAreHeld, BufferIsSent
  <2>6. FirstRound'
    BY <1>0, <1>c, <1>u, <2>1 DEF FirstRound, Early, EndsAreHeld, BufferIsSent
  <2> QED BY <1>u, <2>1, <2>2, <2>3, <2>4, <2>5, <2>6 DEF Calm
<1>3. ASSUME CentralReads PROVE Calm'
  <2>0. at = "read" /\ at' = "execute" /\ UNCHANGED <<linked, executed, Configs>>
    BY <1>3 DEF CentralReads
  <2>1. CASE pipe["in"].data # <<>> /\ buf' = Head(pipe["in"].data) /\ firstBuf' = FALSE
             /\ Take("in")
    <3>1. PICK c \in Config : pipe["in"].data = <<c>>
      BY <1>c, <2>1 DEF ServedWaits
    <3>2. /\ pipe'["in"].data = <<>> /\ buf' = c /\ ~firstBuf'
          /\ pipe'["out"] = pipe["out"]
      <4>1. pipe'["in"].data = Tail(pipe["in"].data) /\ pipe'["out"] = pipe["out"]
        BY <1>0, <2>1, TakeFields
      <4> QED BY <2>1, <3>1, <4>1
    <3>3. Serves(c) /\ \A d \in Config : Serves(d) => d = c
      BY <2>0, <3>1 DEF Serves
    <3>4. NoneLost'
      BY <1>0, <1>c, <1>u, <2>0 DEF NoneLost
    <3>5. EarlyMeets'
      BY <1>c, <1>u, <2>0, <3>1 DEF EarlyMeets, Early
    <3>6. ServedWaits'
      BY <1>c, <1>u, <2>0, <3>1, <3>2, <3>3 DEF ServedWaits, Serves
    <3>7. RepliesReach'
      BY <1>c, <1>u, <2>0, <3>1, <3>2, <3>3 DEF RepliesReach, Serves
    <3>8. FirstRound'
      BY <3>2 DEF FirstRound
    <3> QED BY <1>u, <2>0, <3>4, <3>5, <3>6, <3>7, <3>8 DEF Calm
  <2>2. CASE AtEndOfFile("in") /\ UNCHANGED <<buf, firstBuf, pipe>>
    <3>1. pipe["in"].data = <<>> /\ \A c \in Config : ~Early(c) /\ pc[c] # "close_in"
      BY <1>0, <2>2 DEF AtEndOfFile, EndsAreHeld, Early
    <3>2. ~firstBuf /\ buf = Blank
      BY <1>0, <1>c, <2>0, <3>1 DEF FirstRound, BufferIsSent
    <3>3. \A c \in Config : ~Serves(c) /\ ~Serves(c)'
      BY <2>0, <2>2, <3>1, <3>2 DEF Serves
    <3>4. NoneLost'
      BY <1>0, <1>c, <1>u, <2>0 DEF NoneLost
    <3>5. EarlyMeets'
      BY <1>u, <2>0, <3>1 DEF EarlyMeets, Early
    <3>6. ServedWaits'
      BY <1>c, <2>0, <2>2, <3>1, <3>3 DEF ServedWaits
    <3>7. RepliesReach'
      BY <1>c, <1>u, <2>0, <2>2, <3>3 DEF RepliesReach
    <3>8. FirstRound'
      BY <2>2, <3>2 DEF FirstRound
    <3> QED BY <1>u, <2>0, <3>4, <3>5, <3>6, <3>7, <3>8 DEF Calm
  <2> QED BY <1>3, <2>1, <2>2 DEF CentralReads
<1>4. ASSUME Execute PROVE Calm'
  <2>0. at = "execute" /\ UNCHANGED <<pipe, linked, buf, firstBuf, Configs>> /\ ~firstBuf
    BY <1>4, <1>c DEF Execute, FirstRound
  <2>1. pipe["in"].data = <<>> /\ buf \in Config \cup {Blank} /\ \A c \in Config : ~Early(c)
    BY <1>0, <1>c, <2>0 DEF ServedWaits, BufferIsSent, EarlyMeets
  <2>2. NoneLost'
    BY <1>4, <1>c, <1>u, <2>0 DEF NoneLost, Execute
  <2>3. EarlyMeets'
    BY <1>u, <2>0, <2>1 DEF EarlyMeets, Early
  <2>4. FirstRound'
    BY <2>0 DEF FirstRound
  <2>5. CASE buf \in Exiting /\ at' = "unlink_in" /\ UNCHANGED executed
    <3>1. \A c \in Config : ~Serves(c)' /\ (Serves(c) => c \in Exiting)
      BY <2>0, <2>5 DEF Serves
    <3>2. ServedWaits'
      BY <2>0, <2>1, <2>5, <3>1 DEF ServedWaits
    <3>3. RepliesReach'
      BY <1>c, <1>u, <2>0, <2>5, <3>1 DEF RepliesReach
    <3> QED BY <1>u, <2>0, <2>2, <2>3, <2>4, <3>2, <3>3 DEF Calm
  <2>6. CASE buf \notin Exiting \cup {Blank} /\ at' = "write" /\ executed' = executed \cup {buf}
    <3>1. \A c \in Config : Serves(c)' <=> Serves(c)
      BY <2>0, <2>6 DEF Serves
    <3>2. buf \in Config /\ Serves(buf) /\ \A c \in Config : Serves(c) => c = buf
      BY <2>0, <2>1, <2>6 DEF Serves
    <3>3. ServedWaits'
      BY <1>c, <1>u, <2>0, <2>1, <2>6, <3>1, <3>2 DEF ServedWaits
    <3>4. RepliesReach'
      BY <1>c, <1>u, <2>0, <2>6, <3>1 DEF RepliesReach
    <3> QED BY <1>u, <2>0, <2>2, <2>3, <2>4, <3>3, <3>4 DEF Calm
  <2>7. CASE buf = Blank /\ at' = "close_in" /\ UNCHANGED executed
    <3>1. \A c \in Config : ~Serves(c)' /\ ~Serves(c)
      BY <2>0, <2>7 DEF Serves
    <3>2. ServedWaits'
      BY <2>0, <2>1, <2>7, <3>1 DEF ServedWaits
    <3>3. RepliesReach'
      BY <1>c, <1>u, <2>0, <2>7, <3>1 DEF RepliesReach
    <3> QED BY <1>u, <2>0, <2>2, <2>3, <2>4, <3>2, <3>3 DEF Calm
  <2> QED BY <1>4, <2>5, <2>6, <2>7 DEF Execute
<1>5. ASSUME CentralReplies PROVE Calm'
  <2>0. at = "write" /\ UNCHANGED <<linked, executed, firstBuf, Configs>> /\ ~firstBuf
    BY <1>5, <1>c DEF CentralReplies, FirstRound
  <2>1. PICK c \in Config : Serves(c)
    BY <1>c, <2>0 DEF ServedWaits
  <2>2. buf = c /\ c \notin Exiting /\ pipe["in"].data = <<>>
    BY <1>0, <2>0, <2>1 DEF Serves, BufferIsSent
  <2>3. /\ pc[c] \in {"close_in", "read"} /\ got[c] = Unread /\ c \in executed
        /\ pipe["out"].data = <<>> /\ c \in pipe["out"].readers
    BY <1>0, <1>c, <2>0, <2>1, <2>2 DEF ServedWaits, EndsAreHeld
  <2>4. PICK reply \in Replies(c) : Write("out", reply) /\ at' = "close_in"
    BY <1>5, <2>2, <2>3 DEF CentralReplies
  <2>5. ReplyTo(c, pipe'["out"].data) /\ pipe'["in"].data = <<>>
    <3>1. reply \in Config \cup {Blank, Other}
      BY <2>4 DEF Replies
    <3>2. pipe'["out"].data = Append(<<>>, reply) /\ pipe'["in"].data = <<>>
      BY <1>0, <2>2, <2>3, <2>4, <3>1, WriteFields
    <3>3. pipe'["out"].data = <<reply>>
      BY <3>2
    <3> QED BY <2>4, <3>2, <3>3 DEF ReplyTo
  <2>6. /\ \A d \in Config : ~Early(d) /\ ~Serves(d)'
        /\ \A d \in Config : Serves(d) => d = c
    BY <1>c, <2>0, <2>2, <2>4 DEF EarlyMeets, Serves
  <2>7. NoneLost'
    BY <1>c, <1>u, <2>0, <2>4 DEF NoneLost
  <2>8. EarlyMeets'
    BY <1>u, <2>0, <2>6 DEF EarlyMeets, Early
  <2>9. ServedWaits'
    BY <2>4, <2>5, <2>6 DEF ServedWaits
  <2>10. RepliesReach'
    <3>1. \A d \in Config : ~ReplyTo(d, <<>>)
      BY DEF ReplyTo
    <3> QED BY <1>c, <1>u, <2>0, <2>2, <2>3, <2>5, <2>6, <3>1 DEF RepliesReach
  <2>11. FirstRound'
    BY <2>0 DEF FirstRound
  <2> QED BY <1>u, <2>0, <2>7, <2>8, <2>9, <2>10, <2>11 DEF Calm
<1>6. ASSUME CentralClosesIn PROVE Calm'
  <2>0. /\ at = "close_in" /\ at' = "close_out" /\ UNCHANGED <<linked, executed, Configs>>
        /\ ~firstBuf /\ ~firstBuf'
    BY <1>c, <1>6 DEF CentralClosesIn, FirstRound
  <2>1. /\ \A c \in Config : ~Early(c) /\ ~Serves(c) /\ ~Serves(c)'
        /\ pipe'["in"].data = <<>> /\ pipe'["out"].data = pipe["out"].data
    <3>1. /\ pipe["in"].data = <<>>
          /\ \A c \in Config : ~Early(c) /\ ~Serves(c) /\ ~Serves(c)'
      BY <1>c, <2>0 DEF EarlyMeets, ServedWaits, Serves
    <3>2. pipe["out"].data # <<>> => pipe["out"].readers # {} /\ Central \notin pipe["out"].readers
      BY <1>0, <1>c DEF RepliesReach, EndsAreHeld
    <3> QED BY <1>0, <1>6, <2>0, <3>1, <3>2, CloseFields, WithoutFields DEF CentralClosesIn
  <2>2. NoneLost'
    BY <1>c, <1>u, <2>0 DEF NoneLost
  <2>3. EarlyMeets'
    BY <1>u, <2>0, <2>1 DEF EarlyMeets, Early
  <2>4. ServedWaits'
    BY <2>0, <2>1 DEF ServedWaits
  <2>5. RepliesReach'
    BY <1>c, <1>u, <2>0, <2>1 DEF RepliesReach
  <2>6. FirstRound'
    BY <2>0 DEF FirstRound
  <2> QED BY <1>u, <2>0, <2>2, <2>3, <2>4, <2>5, <2>6 DEF Calm
<1>7. ASSUME CentralClosesOut PROVE Calm'
  <2>0. /\ at = "close_out" /\ at' = "open_in" /\ UNCHANGED <<linked, executed, Configs>>
        /\ ~firstBuf /\ ~firstBuf'
    BY <1>c, <1>7 DEF CentralClosesOut, FirstRound
  <2>1. /\ \A c \in Config : ~Early(c) /\ ~Serves(c) /\ ~Serves(c)'
        /\ pipe'["in"].data = <<>> /\ pipe'["out"].data = pipe["out"].data
    <3>1. /\ pipe["in"].data = <<>>
          /\ \A c \in Config : ~Early(c) /\ ~Serves(c) /\ ~Serves(c)'
      BY <1>c, <2>0 DEF EarlyMeets, ServedWaits, Serves
    <3>2. pipe["out"].data # <<>> => pipe["out"].readers # {} /\ Central \notin pipe["out"].readers
      BY <1>0, <1>c DEF RepliesReach, EndsAreHeld
    <3> QED BY <1>0, <1>7, <2>0, <3>1, <3>2, CloseFields, WithoutFields DEF CentralClosesOut
  <2>2. NoneLost'
    BY <1>c, <1>u, <2>0 DEF NoneLost
  <2>3. EarlyMeets'
    BY <1>u, <2>0, <2>1 DEF EarlyMeets, Early
  <2>4. ServedWaits'
    BY <2>0, <2>1 DEF ServedWaits
  <2>5. RepliesReach'
    BY <1>c, <1>u, <2>0, <2>1 DEF RepliesReach
  <2>6. FirstRound'
    BY <2>0 DEF FirstRound
  <2> QED BY <1>u, <2>0, <2>2, <2>3, <2>4, <2>5, <2>6 DEF Calm
<1>8. ASSUME Unlinks PROVE Calm'
  <2>0. /\ at \in {"unlink_in", "unlink_out"} /\ at' \in {"unlink_out", "stopping"}
        /\ UNCHANGED <<pipe, executed, Configs>> /\ ~firstBuf /\ ~firstBuf'
    BY <1>c, <1>8 DEF Unlinks, FirstRound
  <2>1. /\ pipe["in"].data = <<>>
        /\ \A c \in Config : ~Early(c) /\ ~Serves(c) /\ ~Serves(c)'
    BY <1>c, <2>0 DEF EarlyMeets, ServedWaits, Serves
  <2>2. NoneLost'
    BY <1>c, <1>u, <2>0 DEF NoneLost
  <2>3. EarlyMeets'
    BY <1>u, <2>0, <2>1 DEF EarlyMeets, Early
  <2>4. ServedWaits'
    BY <2>0, <2>1 DEF ServedWaits
  <2>5. RepliesReach'
    BY <1>c, <1>u, <2>0, <2>1 DEF RepliesReach
  <2>6. FirstRound'
    BY <2>0 DEF FirstRound
  <2> QED BY <1>u, <2>0, <2>2, <2>3, <2>4, <2>5, <2>6 DEF Calm
<1>9. ASSUME CentralEnds PROVE Calm'
  <2>0. /\ at = "stopping" /\ at' = "ended" /\ UNCHANGED <<linked, executed, Configs>>
        /\ ~firstBuf /\ ~firstBuf'
    BY <1>c, <1>9 DEF CentralEnds, FirstRound
  <2>1. /\ \A c \in Config : ~Early(c) /\ ~Serves(c) /\ ~Serves(c)'
        /\ pipe'["in"].data = <<>> /\ pipe'["out"].data = pipe["out"].data
    <3>1. /\ pipe["in"].data = <<>>
          /\ \A c \in Config : ~Early(c) /\ ~Serves(c) /\ ~Serves(c)'
      BY <1>c, <2>0 DEF EarlyMeets, ServedWaits, Serves
    <3>2. pipe["out"].data # <<>> => pipe["out"].readers # {} /\ Central \notin pipe["out"].readers
      BY <1>0, <1>c DEF RepliesReach, EndsAreHeld
    <3> QED BY <1>0, <1>9, <2>0, <3>1, <3>2, LetGoFields, WithoutFields DEF CentralEnds
  <2>2. NoneLost'
    BY <1>c, <1>u, <2>0 DEF NoneLost
  <2>3. EarlyMeets'
    BY <1>u, <2>0, <2>1 DEF EarlyMeets, Early
  <2>4. ServedWaits'
    BY <2>0, <2>1 DEF ServedWaits
  <2>5. RepliesReach'
    BY <1>c, <1>u, <2>0, <2>1 DEF RepliesReach
  <2>6. FirstRound'
    BY <2>0 DEF FirstRound
  <2> QED BY <1>u, <2>0, <2>2, <2>3, <2>4, <2>5, <2>6 DEF Calm
<1>10. ~CentralRestarts
  BY <1>c DEF CentralRestarts, NoneLost
<1> QED BY <1>1, <1>2, <1>3, <1>4, <1>5, <1>6, <1>7, <1>8, <1>9, <1>10 DEF ExecutorStep

\* A step of a config program that meets no other one.
LEMMA ConfigCalm ==
    ASSUME Structure, Calm, NEW c \in Config, ConfigStep(c) \/ ConfigIsKilled(c), ~crowded'
    PROVE  Calm'
<1> USE PipeAssumption, OneBuffer
<1>0. /\ PipeTypeOK /\ EndsAreHeld /\ BufferIsSent
      /\ pipe \in [Fifo -> PipeRecord] /\ "in" \in Fifo /\ "out" \in Fifo
      /\ pipe["in"] \in PipeRecord /\ pipe["out"] \in PipeRecord
      /\ c \in Process
  BY StructureFacts
<1>c. OneAtWork /\ NoneLost /\ EarlyMeets /\ ServedWaits /\ RepliesReach /\ FirstRound
  BY DEF Calm
<1>g. ASSUME NEW s, Goto(c, s)
      PROVE  pc'[c] = s /\ \A d \in Config : d # c => pc'[d] = pc[d]
  BY <1>0, <1>g DEF Goto, PipeTypeOK
<1>a. ASSUME NEW s, Goto(c, s), Active(c), s \notin {"killed", "failed"}, UNCHANGED Executor
      PROVE  /\ OneAtWork' /\ NoneLost'
             /\ \A d \in Config : d # c => ~Active(d) /\ pc[d] \in {"open_in", "done"}
  BY <1>c, <1>g, <1>a DEF OneAtWork, NoneLost, Active, Finished, Executor
<1>1. ASSUME ConfigOpensIn(c) PROVE Calm'
  <2>0. Quiet /\ pc[c] = "open_in" /\ UNCHANGED <<got, Executor>>
    BY <1>1 DEF ConfigOpensIn
  <2>1. /\ \A d \in Config : pc[d] \in {"open_in", "done"}
        /\ at = "open_in" \/ (at = "open_out" /\ ~Runs(Central))
        /\ linked = Fifo
    BY <1>c, <2>0 DEF Quiet, Active, Finished, NoneLost
  <2>2. OpenForWriting("in", c) /\ Goto(c, "open_out")
    BY <1>0, <1>1, <2>1 DEF ConfigOpensIn
  <2>3. /\ pc'[c] = "open_out" /\ \A d \in Config : d # c => pc'[d] = pc[d]
        /\ pipe'["in"].data = pipe["in"].data /\ pipe'["out"] = pipe["out"]
        /\ at = "open_in" => c \in pipe'["in"].waiting
    BY <1>0, <1>g, <2>2, OpenForWritingFields DEF EndsAreHeld
  <2>4. /\ pipe["in"].data = <<>> /\ pipe["out"].data = <<>> /\ got[c] = Unread
        /\ \A d \in Config : ~Serves(d) /\ ~Serves(d)'
    BY <1>c, <2>0, <2>1, <2>3 DEF ServedWaits, RepliesReach, Serves, Executor
  <2>5. OneAtWork' /\ NoneLost'
    BY <1>c, <2>0, <2>1, <2>3 DEF OneAtWork, Active, Finished, NoneLost, Executor
  <2>6. EarlyMeets'
    BY <2>0, <2>1, <2>3, <2>4 DEF EarlyMeets, Early, Executor
  <2>7. ServedWaits'
    BY <2>0, <2>1, <2>3, <2>4 DEF ServedWaits, Executor
  <2>8. RepliesReach'
    BY <1>c, <2>0, <2>3, <2>4 DEF RepliesReach, Executor
  <2>9. FirstRound'
    BY <1>c, <2>0, <2>1, <2>3 DEF FirstRound, Early, Executor
  <2> QED BY <2>5, <2>6, <2>7, <2>8, <2>9 DEF Calm
<1>2. ASSUME ConfigOpensOut(c) PROVE Calm'
  <2>0. /\ pc[c] = "open_out" /\ Early(c) /\ Active(c) /\ UNCHANGED <<got, Executor>>
        /\ c \notin pipe["in"].waiting
    BY <1>0, <1>2 DEF ConfigOpensOut, Early, Active, Finished, Runs
  <2>1. /\ pipe["in"].data = <<>> /\ pipe["out"].data = <<>> /\ got[c] = Unread
        /\ at \in {"open_out", "read"} /\ linked = Fifo
    BY <1>c, <2>0 DEF EarlyMeets, NoneLost
  <2>2. OpenForReading("out", c) /\ Goto(c, "write")
    BY <1>0, <1>2, <2>1 DEF ConfigOpensOut
  <2>3. /\ pc'[c] = "write" /\ \A d \in Config : d # c => pc'[d] = pc[d]
        /\ pipe'["out"].data = pipe["out"].data /\ pipe'["in"] = pipe["in"]
        /\ at = "open_out" => c \in pipe'["out"].waiting
    BY <1>0, <1>g, <2>2, OpenForReadingFields DEF EndsAreHeld
  <2>4. /\ OneAtWork' /\ NoneLost'
        /\ \A d \in Config : d # c => pc[d] \in {"open_in", "done"}
        /\ \A d \in Config : ~Serves(d) /\ ~Serves(d)'
    BY <1>a, <2>0, <2>1, <2>2, <2>3 DEF Serves, Executor
  <2>5. EarlyMeets'
    BY <2>0, <2>1, <2>3, <2>4 DEF EarlyMeets, Early, Executor
  <2>6. ServedWaits'
    BY <2>0, <2>1, <2>3, <2>4 DEF ServedWaits, Executor
  <2>7. RepliesReach'
    BY <1>c, <2>0, <2>1, <2>3, <2>4 DEF RepliesReach, Executor
  <2>8. FirstRound'
    BY <1>c, <2>0, <2>1, <2>3 DEF FirstRound, Early, Executor
  <2> QED BY <2>4, <2>5, <2>6, <2>7, <2>8 DEF Calm
<1>3. ASSUME ConfigWrites(c) PROVE Calm'
  <2>0. /\ pc[c] = "write" /\ Early(c) /\ Active(c) /\ UNCHANGED <<got, Executor>>
        /\ c \notin pipe["out"].waiting
    BY <1>0, <1>3 DEF ConfigWrites, Early, Active, Finished, Runs
  <2>1. /\ pipe["in"].data = <<>> /\ pipe["out"].data = <<>> /\ got[c] = Unread
        /\ at = "read" /\ Central \in pipe["in"].readers
    BY <1>0, <1>c, <2>0 DEF EarlyMeets, EndsAreHeld
  <2>2. Write("in", c) /\ Goto(c, "close_in")
    BY <1>3, <2>1 DEF ConfigWrites
  <2>3. /\ pc'[c] = "close_in" /\ \A d \in Config : d # c => pc'[d] = pc[d]
        /\ pipe'["in"].data = <<c>> /\ pipe'["out"] = pipe["out"]
    BY <1>0, <1>g, <2>1, <2>2, WriteFields
  <2>4. /\ OneAtWork' /\ NoneLost'
        /\ \A d \in Config : d # c => pc[d] \in {"open_in", "done"}
        /\ \A d \in Config : ~Serves(d) /\ (Serves(d)' <=> d = c)
    BY <1>a, <2>0, <2>1, <2>2, <2>3 DEF Serves, Executor
  <2>5. EarlyMeets'
    BY <2>3, <2>4 DEF EarlyMeets, Early
  <2>6. ServedWaits'
    BY <2>0, <2>1, <2>3, <2>4 DEF ServedWaits, Executor
  <2>7. RepliesReach'
    BY <1>c, <2>0, <2>1, <2>3, <2>4 DEF RepliesReach, Executor
  <2>8. FirstRound'
    BY <2>0, <2>1, <2>3 DEF FirstRound, Executor
  <2> QED BY <2>4, <2>5, <2>6, <2>7, <2>8 DEF Calm
<1>4. ASSUME ConfigClosesIn(c) PROVE Calm'
  <2>0. pc[c] = "close_in" /\ ~Early(c) /\ Active(c) /\ UNCHANGED <<got, Executor>>
    BY <1>4 DEF ConfigClosesIn, Early, Active, Finished
  <2>1. PICK s \in {"close_out", "read"} :
           Goto(c, s) /\ (s = "close_out" <=> c \in Exiting)
    BY <1>4 DEF ConfigClosesIn
  <2>2. pc'[c] = s /\ \A d \in Config : d # c => pc'[d] = pc[d]
    BY <1>g, <2>1
  <2>3. pipe["in"].data # <<>> => Central \in pipe["in"].readers /\ Central # c
    BY <1>0, <1>c DEF ServedWaits, EndsAreHeld
  <2>4. pipe'["in"].data = pipe["in"].data /\ pipe'["out"] = pipe["out"]
    BY <1>0, <1>4, <2>3, CloseFields, WithoutFields DEF ConfigClosesIn
  <2>5. /\ OneAtWork' /\ NoneLost'
        /\ \A d \in Config : d # c => pc[d] \in {"open_in", "done"}
        /\ \A d \in Config : Serves(d)' <=> Serves(d)
    BY <1>a, <2>0, <2>1, <2>4 DEF Serves, Executor
  <2>6. EarlyMeets'
    BY <2>1, <2>2, <2>5 DEF EarlyMeets, Early
  <2>7. ServedWaits'
    BY <1>c, <2>0, <2>1, <2>2, <2>4, <2>5 DEF ServedWaits, Executor
  <2>8. RepliesReach'
    BY <1>c, <2>0, <2>1, <2>2, <2>4, <2>5 DEF RepliesReach, Executor
  <2>9. FirstRound'
    BY <1>c, <2>0, <2>2, <2>4 DEF FirstRound, Executor
  <2> QED BY <2>5, <2>6, <2>7, <2>8, <2>9 DEF Calm
<1>5. ASSUME ConfigReads(c) PROVE Calm'
  <2>0. /\ pc[c] = "read" /\ c \notin Exiting /\ ~Early(c) /\ Active(c) /\ UNCHANGED Executor
        /\ Goto(c, "close_out")
    BY <1>c, <1>5 DEF ConfigReads, RepliesReach, Early, Active, Finished
  <2>1. pc'[c] = "close_out" /\ \A d \in Config : d # c => pc'[d] = pc[d]
    BY <1>g, <2>0
  <2>2. Serves(c) \/ (ReplyTo(c, pipe["out"].data) /\ c \in executed /\ got[c] = Unread)
    BY <1>c, <2>0 DEF RepliesReach
  <2>3. ~AtEndOfFile("out")
    BY <1>0, <2>2 DEF AtEndOfFile, EndsAreHeld, Serves, ReplyTo
  <2>4. pipe["out"].data # <<>> /\ got' = [got EXCEPT ![c] = Head(pipe["out"].data)] /\ Take("out")
    BY <1>5, <2>3 DEF ConfigReads
  <2>5. c \in executed /\ ~Serves(c) /\ ReplyTo(c, pipe["out"].data)
    BY <1>c, <2>2, <2>4 DEF ServedWaits
  <2>5a. PICK reply \in Replies(c) : pipe["out"].data = <<reply>>
    BY <2>5 DEF ReplyTo
  <2>6. pipe'["out"].data = <<>> /\ pipe'["in"] = pipe["in"]
    <3>1. pipe'["out"].data = Tail(pipe["out"].data) /\ pipe'["in"] = pipe["in"]
      BY <1>0, <2>4, TakeFields
    <3> QED BY <2>5a, <3>1
  <2>7. got'[c] \in Replies(c) /\ \A d \in Config : d # c => got'[d] = got[d]
    BY <1>0, <2>4, <2>5a DEF PipeTypeOK
  <2>8. /\ OneAtWork' /\ NoneLost'
        /\ \A d \in Config : d # c => pc[d] \in {"open_in", "done"}
        /\ \A d \in Config : Serves(d)' <=> Serves(d)
    BY <1>a, <2>0, <2>6 DEF Serves, Executor
  <2>9. EarlyMeets'
    BY <2>1, <2>8 DEF EarlyMeets, Early
  <2>10. ServedWaits'
    BY <1>c, <2>0, <2>1, <2>5, <2>6, <2>7, <2>8 DEF ServedWaits, Executor
  <2>11. RepliesReach'
    BY <1>c, <2>0, <2>1, <2>5, <2>6, <2>7, <2>8 DEF RepliesReach, Executor
  <2>12. FirstRound'
    BY <1>c, <2>0, <2>1, <2>6 DEF FirstRound, Executor
  <2> QED BY <2>8, <2>9, <2>10, <2>11, <2>12 DEF Calm
<1>6. ASSUME ConfigClosesOut(c) PROVE Calm'
  <2>0. /\ pc[c] = "close_out" /\ ~Early(c) /\ Active(c) /\ UNCHANGED <<got, Executor>>
        /\ Goto(c, "done")
    BY <1>6 DEF ConfigClosesOut, Early, Active, Finished
  <2>1. pc'[c] = "done" /\ \A d \in Config : d # c => pc'[d] = pc[d]
    BY <1>g, <2>0
  <2>2. /\ OneAtWork' /\ NoneLost'
        /\ \A d \in Config : d # c => pc[d] \in {"open_in", "done"}
    BY <1>a, <2>0
  <2>3. pipe["out"].data = <<>>
    BY <1>c, <2>0, <2>2 DEF RepliesReach
  <2>4. pipe'["out"].data = <<>> /\ pipe'["in"] = pipe["in"]
    BY <1>0, <1>6, <2>3, CloseFields, WithoutFields DEF ConfigClosesOut
  <2>5. \A d \in Config : Serves(d)' <=> Serves(d)
    BY <2>0, <2>4 DEF Serves, Executor
  <2>6. EarlyMeets'
    BY <2>1, <2>2 DEF EarlyMeets, Early
  <2>7. ServedWaits'
    BY <1>c, <2>0, <2>1, <2>4, <2>5 DEF ServedWaits, Executor
  <2>8. RepliesReach'
    BY <1>c, <2>0, <2>1, <2>3, <2>4, <2>5 DEF RepliesReach, Executor
  <2>9. FirstRound'
    BY <1>c, <2>0, <2>1, <2>4 DEF FirstRound, Executor
  <2> QED BY <2>2, <2>6, <2>7, <2>8, <2>9 DEF Calm
<1>7. ~ConfigIsKilled(c)
  BY DEF ConfigIsKilled
<1> QED BY <1>1, <1>2, <1>3, <1>4, <1>5, <1>6, <1>7 DEF ConfigStep
-----------------------------------------------------------------------------
\* Every step of every process keeps the invariant.
LEMMA PipeNextInv == PipeInv /\ [PipeNext]_pipeVars => PipeInv'
<1> SUFFICES ASSUME PipeInv, [PipeNext]_pipeVars PROVE PipeInv'
  OBVIOUS
<1>1. Structure /\ crowded \in BOOLEAN /\ (~crowded => Calm)
  BY DEF PipeInv, Structure, PipeTypeOK
<1>2. ASSUME ExecutorStep \/ CentralEnds \/ CentralRestarts
      PROVE  PipeInv'
  <2>1. UNCHANGED crowded
    BY <1>2 DEF ExecutorStep, CentralEnds, CentralRestarts, CentralOpensIn, CentralOpensOut,
                CentralReads, Execute, CentralReplies, CentralClosesIn, CentralClosesOut,
                Unlinks, Configs
  <2>2. Structure'
    BY <1>1, <1>2, ExecutorStructure
  <2>3. ~crowded => Calm'
    BY <1>1, <1>2, ExecutorCalm
  <2> QED BY <2>1, <2>2, <2>3 DEF PipeInv, Structure
<1>3. ASSUME NEW c \in Config, ConfigStep(c) \/ ConfigIsKilled(c)
      PROVE  PipeInv'
  <2>1. ~crowded' => ~crowded
    BY <1>3 DEF ConfigStep, ConfigIsKilled, ConfigOpensIn, ConfigOpensOut, ConfigWrites,
                ConfigClosesIn, ConfigReads, ConfigClosesOut
  <2>2. Structure'
    BY <1>1, <1>3, ConfigStructure
  <2>3. ~crowded' => Calm'
    BY <1>1, <1>3, <2>1, ConfigCalm
  <2> QED BY <2>2, <2>3 DEF PipeInv, Structure
<1>4. ASSUME UNCHANGED pipeVars PROVE PipeInv'
  <2>1. Structure'
    BY <1>1, <1>4 DEF pipeVars, Structure, PipeTypeOK, EndsAreHeld, BufferIsSent
  <2>2. UNCHANGED crowded /\ (Calm => Calm')
    BY <1>4 DEF pipeVars, Calm, OneAtWork, NoneLost, EarlyMeets, ServedWaits, RepliesReach,
                FirstRound, Active, Finished, Early, Serves
  <2> QED BY <1>1, <2>1, <2>2 DEF PipeInv, Structure
<1> QED BY <1>2, <1>3, <1>4 DEF PipeNext

\* The invariant holds in every state of central and the config programs.
THEOREM PipeInvariance == PipeSpec => []PipeInv
BY PipeInitInv, PipeNextInv, PTL DEF PipeSpec

\* Whoever meets, is killed or starts again: at every statement of execute() and of
\* send() a process holds the ends that it has opened and not closed, and no others.
THEOREM EndsAreHeldTheorem == PipeSpec => []EndsAreHeld
<1>1. PipeInv => EndsAreHeld
  BY DEF PipeInv
<1> QED BY <1>1, PipeInvariance, PTL

\* Config programs that come one at a time, while central waits, get the reply to
\* their own command, and no process is killed by a pipe.
THEOREM CalmServiceTheorem == PipeSpec => []CalmService
<1>1. ASSUME PipeInv PROVE CalmService
  <2>1. ASSUME ~crowded
        PROVE  /\ at # "killed"
               /\ \A c \in Config :
                     /\ pc[c] # "killed"
                     /\ got[c] \in Replies(c) \cup {Unread}
                     /\ (pc[c] = "done" /\ c \notin Exiting) =>
                            got[c] # Unread /\ c \in executed
    <3>1. PipeTypeOK /\ NoneLost /\ EarlyMeets /\ ServedWaits /\ RepliesReach
      BY <1>1, <2>1 DEF PipeInv, Calm
    <3>2. ASSUME NEW c \in Config
          PROVE  got[c] \in Replies(c) \cup {Unread}
      BY <3>1, <3>2 DEF PipeTypeOK, NoneLost, EarlyMeets, ServedWaits, RepliesReach, Early
    <3>3. \A c \in Config : Unread \notin Replies(c)
      BY PipeAssumption DEF Replies
    <3> QED BY <3>1, <3>2, <3>3 DEF NoneLost, RepliesReach
  <2> QED BY <2>1 DEF CalmService
<1> QED BY <1>1, PipeInvariance, PTL

\* Whoever meets or is killed, after its first round central executes only what a
\* config program has sent in this round.
THEOREM OnlySentIsExecutedTheorem == PipeSpec => []OnlySentIsExecuted
<1>1. PipeInv => OnlySentIsExecuted
  BY DEF PipeInv, BufferIsSent, OnlySentIsExecuted
<1> QED BY <1>1, PipeInvariance, PTL
=============================================================================
