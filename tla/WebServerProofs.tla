---------------------------- MODULE WebServerProofs ----------------------------
(***************************************************************************)
(* The HTTP side of central, for any number of connections, session ids    *)
(* and requests, files of any length and any size of the buffer.  The      *)
(* properties speak of connections that wait for a request; WebInv says    *)
(* for every state of a connection how far the responses are behind the    *)
(* requests, and which part of a file has been sent, which part has been   *)
(* read and which is left.                                                 *)
(***************************************************************************)
EXTENDS WebServer, SequenceTheorems, TLAPS

Byte == Nat \X Nat

\* Type invariant: only real ids are in SessionList or have been logged out.
WebTypeOK ==
    /\ state \in [Conn -> {"closed", "reading", "handling", "file", "sending"}]
    /\ request \in [Conn -> Request \cup {None}]
    /\ response \in [Conn -> Seq(Nat)]
    /\ body \in [Conn -> Seq(Byte)] /\ got \in [Conn -> Seq(Byte)]
    /\ file \in [Conn -> Nat] /\ position \in [Conn -> Nat]
    /\ requests \in [Conn -> Nat] /\ responses \in [Conn -> Nat]
    /\ causes \in [Conn -> SUBSET {"threw", "refreshed", "refused"}]
    /\ sessions \subseteq Id /\ loggedOut \subseteq Id

\* The responses of a connection: sent, written, and the one still to be written.
Total(c) == responses[c] + Len(response[c]) + (IF state[c] = "handling" THEN 1 ELSE 0)

\* A connection's responses come to its requests, but for the causes.
CountOK(c) ==
    /\ "threw" \notin causes[c] => Total(c) >= requests[c]
    /\ causes[c] \cap {"refreshed", "refused"} = {} => Total(c) <= requests[c]
    /\ state[c] \in {"closed", "reading", "handling"} => response[c] = <<>>

\* The bytes of a file behind position a up to position b.
Part(f, a, b) == [i \in 1..(b - a) |-> <<f, a + i>>]

\* What was sent of a file, what was read and not sent, and how much is left.
PartsOK(c, n) ==
    /\ got[c] = Part(file[c], 0, n)
    /\ body[c] = Part(file[c], n, position[c])
    /\ state[c] \in {"closed", "reading", "handling"} => n = position[c]
    /\ state[c] = "handling" => file[c] = 0
    /\ state[c] # "file" => position[c] = file[c]
    /\ position[c] <= file[c]

FileOK(c) == \E n \in 0..position[c] : PartsOK(c, n)

WebInv ==
    /\ WebTypeOK
    /\ \A c \in Conn : CountOK(c) /\ FileOK(c)
    /\ sessions \cap loggedOut = {}

\* What a step changes is one connection.
Others(c) ==
    \A e \in Conn : e # c =>
        /\ state'[e] = state[e] /\ response'[e] = response[e] /\ body'[e] = body[e]
        /\ file'[e] = file[e] /\ position'[e] = position[e] /\ got'[e] = got[e]
        /\ requests'[e] = requests[e] /\ responses'[e] = responses[e]
        /\ causes'[e] = causes[e]
-----------------------------------------------------------------------------
(* Parts of a file.                                                         *)

\* A part is a sequence, and as long as its positions say.
LEMMA PartType ==
    ASSUME NEW f \in Nat, NEW a \in Nat, NEW b \in Nat, a <= b
    PROVE  Part(f, a, b) \in Seq(Byte) /\ Len(Part(f, a, b)) = b - a
<1>1. b - a \in Nat
  OBVIOUS
<1>2. \A i \in 1..(b - a) : <<f, a + i>> \in Byte
  BY DEF Byte
<1> QED BY <1>1, <1>2, IsASeq DEF Part

\* Nothing lies between a position and itself.
LEMMA PartEmpty ==
    ASSUME NEW f, NEW a \in Nat
    PROVE  Part(f, a, a) = <<>>
<1>1. 1..(a - a) = {}
  OBVIOUS
<1>2. <<>> \in Seq(Nat) /\ DOMAIN <<>> = {}
  OBVIOUS
<1> QED BY <1>1, <1>2 DEF Part

\* Two parts, one behind the other, are one.
LEMMA PartConcat ==
    ASSUME NEW f \in Nat, NEW a \in Nat, NEW b \in Nat, NEW d \in Nat, a <= b, b <= d
    PROVE  Part(f, a, b) \o Part(f, b, d) = Part(f, a, d)
<1> DEFINE s == Part(f, a, b)
           t == Part(f, b, d)
           u == Part(f, a, d)
<1>0. a <= d
  OBVIOUS
<1>1. /\ s \in Seq(Byte) /\ Len(s) = b - a
      /\ t \in Seq(Byte) /\ Len(t) = d - b
      /\ u \in Seq(Byte) /\ Len(u) = d - a
  <2>1. s \in Seq(Byte) /\ Len(s) = b - a
    BY PartType
  <2>2. t \in Seq(Byte) /\ Len(t) = d - b
    BY PartType
  <2>3. u \in Seq(Byte) /\ Len(u) = d - a
    BY <1>0, PartType
  <2> QED BY <2>1, <2>2, <2>3
<1>2. /\ \A i \in 1..(b - a) : s[i] = <<f, a + i>>
      /\ \A i \in 1..(d - b) : t[i] = <<f, b + i>>
      /\ \A i \in 1..(d - a) : u[i] = <<f, a + i>>
  BY DEF Part
<1> HIDE DEF s, t, u
<1>3. s \o t \in Seq(Byte) /\ Len(s \o t) = d - a
  BY <1>1, ConcatProperties
<1>4. ASSUME NEW i \in 1..(d - a) PROVE (s \o t)[i] = u[i]
  <2>1. (s \o t)[i] = IF i <= Len(s) THEN s[i] ELSE t[i - Len(s)]
    BY <1>1, <1>3, ConcatProperties
  <2>2. CASE i <= b - a
    <3>1. i \in 1..(b - a)
      BY <2>2
    <3>2. s[i] = <<f, a + i>> /\ u[i] = <<f, a + i>>
      BY <1>2, <3>1
    <3> QED BY <1>1, <2>1, <2>2, <3>2
  <2>3. CASE ~(i <= b - a)
    <3>1. i - (b - a) \in 1..(d - b) /\ b + (i - (b - a)) = a + i
      BY <2>3
    <3>2. t[i - (b - a)] = <<f, a + i>>
      BY <1>2, <3>1
    <3> QED BY <1>1, <1>2, <2>1, <2>3, <3>2
  <2> QED BY <2>2, <2>3
<1>5. s \o t = u
  BY <1>1, <1>3, <1>4, SeqEqual
<1> QED BY <1>5 DEF s, t, u

\* What read_and_send reads is the next part of the file, up to its end unless the
\* buffer was filled.
LEMMA ReadPart ==
    ASSUME NEW f \in Nat, NEW from \in Nat, from <= f
    PROVE  \E to \in from..f :
               /\ Read(f, from) = Part(f, from, to)
               /\ Len(Read(f, from)) = to - from
               /\ ~MoreFollows(Read(f, from)) => to = f
<1> DEFINE m == IF f - from < BufferSize THEN f - from ELSE BufferSize
           to == from + m
<1>1. m \in Nat /\ to \in from..f /\ to - from = m /\ (m # BufferSize => to = f)
  BY WebAssumption
<1>2. Read(f, from) = Part(f, from, to)
  <2>1. Read(f, from) = [i \in 1..m |-> <<f, from + i>>]
    BY DEF Read
  <2>2. Part(f, from, to) = [i \in 1..m |-> <<f, from + i>>]
    BY <1>1 DEF Part
  <2> QED BY <2>1, <2>2
<1> HIDE DEF m, to
<1>3. Len(Part(f, from, to)) = to - from
  BY <1>1, PartType
<1> QED BY <1>1, <1>2, <1>3 DEF MoreFollows
-----------------------------------------------------------------------------
(* Connections.                                                             *)

\* A step of one connection preserves the invariant if it does so for this one.
LEMMA StepOfOne ==
    ASSUME WebInv, NEW c \in Conn, Others(c), WebTypeOK', CountOK(c)', FileOK(c)',
           (sessions \cap loggedOut = {})'
    PROVE  WebInv'
<1>1. ASSUME NEW e \in Conn, e # c PROVE CountOK(e)' /\ FileOK(e)'
  <2>1. CountOK(e) /\ FileOK(e)
    BY DEF WebInv
  <2>2. CountOK(e)'
    BY <1>1, <2>1 DEF Others, CountOK, Total
  <2>3. FileOK(e)'
    BY <1>1, <2>1 DEF Others, FileOK, PartsOK
  <2> QED BY <2>2, <2>3
<1> QED BY <1>1 DEF WebInv

\* A connection on which nothing has happened.
LEMMA FreshOK ==
    ASSUME NEW c, state[c] = "closed", response[c] = <<>>, body[c] = <<>>, got[c] = <<>>,
           file[c] = 0, position[c] = 0, requests[c] = 0, responses[c] = 0
    PROVE  CountOK(c) /\ FileOK(c)
<1>1. Total(c) = 0
  BY DEF Total
<1>2. Part(file[c], 0, 0) = <<>>
  BY PartEmpty
<1>3. PartsOK(c, 0)
  BY <1>2 DEF PartsOK
<1> QED BY <1>1, <1>3 DEF CountOK, FileOK

\* Nothing is connected at the start.
LEMMA WebInitInv == Init => WebInv
<1> SUFFICES ASSUME Init PROVE WebInv
  OBVIOUS
<1>1. WebTypeOK
  <2>1. <<>> \in Seq(Nat) /\ <<>> \in Seq(Byte)
    OBVIOUS
  <2>2. /\ response \in [Conn -> Seq(Nat)] /\ body \in [Conn -> Seq(Byte)]
        /\ got \in [Conn -> Seq(Byte)]
    BY <2>1 DEF Init
  <2> QED BY <2>2 DEF Init, WebTypeOK
<1>2. ASSUME NEW c \in Conn PROVE CountOK(c) /\ FileOK(c)
  BY FreshOK DEF Init
<1> QED BY <1>1, <1>2 DEF Init, WebInv

\* A connection that is closed starts anew.
LEMMA ClosedInv ==
    ASSUME WebInv, NEW c \in Conn, Closed(c)
    PROVE  WebInv'
<1>0. WebTypeOK
  BY DEF WebInv
<1>1. Others(c)
  BY <1>0 DEF WebTypeOK, Closed, Others
<1>2. WebTypeOK'
  <2>1. <<>> \in Seq(Nat) /\ <<>> \in Seq(Byte)
    OBVIOUS
  <2> QED BY <1>0, <2>1 DEF WebTypeOK, Closed
<1>3. /\ state'[c] = "closed" /\ response'[c] = <<>> /\ body'[c] = <<>> /\ got'[c] = <<>>
      /\ file'[c] = 0 /\ position'[c] = 0 /\ requests'[c] = 0 /\ responses'[c] = 0
  BY <1>0 DEF WebTypeOK, Closed
<1>4. CountOK(c)' /\ FileOK(c)'
  <2>1. Total(c)' = 0
    BY <1>3 DEF Total
  <2>2. Part(file'[c], 0, 0) = <<>>
    BY PartEmpty
  <2>3. PartsOK(c, 0)'
    BY <1>3, <2>2 DEF PartsOK
  <2> QED BY <1>3, <2>1, <2>3 DEF CountOK, FileOK
<1>5. (sessions \cap loggedOut = {})'
  BY DEF WebInv, Closed
<1> QED BY <1>1, <1>2, <1>4, <1>5, StepOfOne

\* A handler that returns has answered its request: not with nothing, unless it threw,
\* and once, unless it is one of those that answer twice.
LEMMA HandlerInv ==
    ASSUME WebInv, NEW c \in Conn, state[c] = "handling",
           NEW written \in Seq(Nat), NEW why \in SUBSET {"threw", "refreshed", "refused"},
           HandlerReturns(c, written, why),
           "threw" \notin why => Len(written) >= 1,
           why \cap {"refreshed", "refused"} = {} => Len(written) <= 1,
           sessions' \subseteq Id, loggedOut' \subseteq Id, sessions' \cap loggedOut' = {}
    PROVE  WebInv'
<1>0. WebTypeOK /\ CountOK(c) /\ FileOK(c)
  BY DEF WebInv
<1>1. Others(c)
  BY <1>0 DEF WebTypeOK, HandlerReturns, Others, counts
<1>2. WebTypeOK'
  BY <1>0 DEF WebTypeOK, HandlerReturns, counts
<1>3. /\ state'[c] = "sending" /\ response'[c] = written /\ causes'[c] = causes[c] \cup why
      /\ UNCHANGED <<body, file, position, got, requests, responses>>
  BY <1>0 DEF WebTypeOK, HandlerReturns, counts
<1>4. CountOK(c)'
  <2>1. Total(c) = responses[c] + 1 /\ Total(c)' = responses[c] + Len(written)
    <3>1. Len(<<>>) = 0 /\ Len(written) \in Nat /\ responses[c] \in Nat
      BY <1>0 DEF WebTypeOK
    <3> QED BY <1>0, <1>3, <3>1 DEF Total, CountOK
  <2>2. responses[c] \in Nat /\ requests[c] \in Nat /\ Len(written) \in Nat
    BY <1>0 DEF WebTypeOK
  <2>3. "threw" \notin causes'[c] => Total(c)' >= requests'[c]
    BY <1>0, <1>3, <2>1, <2>2 DEF CountOK
  <2>4. causes'[c] \cap {"refreshed", "refused"} = {} => Total(c)' <= requests'[c]
    <3>1. causes'[c] \cap {"refreshed", "refused"} = {} =>
              /\ causes[c] \cap {"refreshed", "refused"} = {}
              /\ why \cap {"refreshed", "refused"} = {}
      BY <1>3
    <3> QED BY <1>0, <1>3, <2>1, <2>2, <3>1 DEF CountOK
  <2> QED BY <1>3, <2>3, <2>4 DEF CountOK
<1>5. FileOK(c)'
  BY <1>0, <1>3 DEF FileOK, PartsOK
<1> QED BY <1>1, <1>2, <1>4, <1>5, StepOfOne

\* A handler that answers once, or that throws before it has answered.
LEMMA OneAnswerInv ==
    ASSUME WebInv, NEW c \in Conn, state[c] = "handling", NEW code \in Nat,
           HandlerReturns(c, <<code>>, {}) \/ HandlerReturns(c, <<>>, {"threw"}),
           sessions' \subseteq Id, loggedOut' \subseteq Id, sessions' \cap loggedOut' = {}
    PROVE  WebInv'
<1>1. CASE HandlerReturns(c, <<code>>, {})
  <2>1. PICK written \in Seq(Nat), why \in SUBSET {"threw", "refreshed", "refused"} :
          written = <<code>> /\ Len(written) = 1 /\ why = {}
    <3>1. <<code>> \in Seq(Nat) /\ Len(<<code>>) = 1
      OBVIOUS
    <3> QED BY <3>1
  <2>2. Len(written) >= 1 /\ Len(written) <= 1 /\ HandlerReturns(c, written, why)
    BY <1>1, <2>1
  <2> QED BY <2>2, HandlerInv
<1>2. CASE HandlerReturns(c, <<>>, {"threw"})
  <2>1. PICK written \in Seq(Nat), why \in SUBSET {"threw", "refreshed", "refused"} :
          written = <<>> /\ Len(written) = 0 /\ why = {"threw"}
    <3>1. <<>> \in Seq(Nat) /\ Len(<<>>) = 0
      OBVIOUS
    <3> QED BY <3>1
  <2>2. Len(written) <= 1 /\ "threw" \in why /\ HandlerReturns(c, written, why)
    BY <1>2, <2>1
  <2> QED BY <2>2, HandlerInv
<1> QED BY <1>1, <1>2

\* What follows a Communicator call: nothing only if it threw what is not caught.
LEMMA AfterCallLength ==
    ASSUME NEW outcome \in Outcome, NEW codes \in Seq(Nat), Len(codes) >= 1
    PROVE  /\ AfterCall(outcome, codes) \in Seq(Nat)
           /\ "threw" \notin Thrown(outcome) => Len(AfterCall(outcome, codes)) >= 1
           /\ Len(AfterCall(outcome, codes)) <= Len(codes)
           /\ Thrown(outcome) \in SUBSET {"threw"}
<1>1. /\ <<400>> \in Seq(Nat) /\ <<>> \in Seq(Nat)
      /\ Len(<<400>>) = 1 /\ Len(<<>>) = 0 /\ Len(codes) \in Nat
  OBVIOUS
<1>2. CASE outcome = "ok"
  BY <1>1, <1>2 DEF AfterCall, Thrown
<1>3. CASE outcome = "logic_error"
  BY <1>1, <1>3 DEF AfterCall, Thrown
<1>4. CASE outcome = "ExceptionInfo"
  BY <1>1, <1>4 DEF AfterCall, Thrown
<1> QED BY <1>2, <1>3, <1>4 DEF Outcome

\* A process that has ended changes nothing more.
LEMMA BeyondEndInv ==
    ASSUME WebInv, NEW c \in Conn, ReadsBeyondEnd(c)
    PROVE  WebInv'
<1>1. UNCHANGED <<state, request, response, body, file, position, sessions, requests,
                  responses, got, causes, loggedOut>>
  BY DEF ReadsBeyondEnd, connVars, counts, history
<1> QED BY <1>1 DEF WebInv, WebTypeOK, CountOK, Total, FileOK, PartsOK

\* What is sent joins what was sent before.
LEMMA SentParts ==
    ASSUME WebInv, NEW c \in Conn, Sent(c)
    PROVE  /\ got'[c] = Part(file[c], 0, position[c])
           /\ got' \in [Conn -> Seq(Byte)]
           /\ response'[c] = <<>> /\ response' \in [Conn -> Seq(Nat)]
           /\ responses'[c] = responses[c] + Len(response[c])
           /\ responses' \in [Conn -> Nat]
           /\ \A e \in Conn : e # c => /\ got'[e] = got[e] /\ response'[e] = response[e]
                                       /\ responses'[e] = responses[e]
<1>0. WebTypeOK
  BY DEF WebInv
<1>1. PICK n \in 0..position[c] : PartsOK(c, n)
  BY DEF WebInv, FileOK
<1>2. /\ file[c] \in Nat /\ position[c] \in Nat /\ n \in Nat /\ n <= position[c]
      /\ 0 \in Nat /\ 0 <= n /\ 0 <= position[c]
  BY <1>0 DEF WebTypeOK
<1>3. got[c] \o body[c] = Part(file[c], 0, position[c])
  <2>1. got[c] = Part(file[c], 0, n) /\ body[c] = Part(file[c], n, position[c])
    BY <1>1 DEF PartsOK
  <2>2. Part(file[c], 0, n) \o Part(file[c], n, position[c]) = Part(file[c], 0, position[c])
    BY <1>2, PartConcat
  <2> QED BY <2>1, <2>2, Zenon
<1>4. Part(file[c], 0, position[c]) \in Seq(Byte)
  BY <1>2, PartType
<1>5. got' = [got EXCEPT ![c] = got[c] \o body[c]]
  BY DEF Sent, Outgoing
<1>6. <<>> \in Seq(Nat) /\ response' = [response EXCEPT ![c] = <<>>]
  BY DEF Sent
<1>7. responses' = [responses EXCEPT ![c] = responses[c] + Len(response[c])]
  BY DEF Sent
<1>8. responses[c] + Len(response[c]) \in Nat
  BY <1>0 DEF WebTypeOK
<1> QED BY <1>0, <1>3, <1>4, <1>5, <1>6, <1>7, <1>8 DEF WebTypeOK

\* One turn of read_and_send, when what was read before has been sent.
LEMMA ReadAndSend ==
    ASSUME WebTypeOK, NEW c \in Conn, NEW f \in Nat, NEW from \in Nat, from <= f,
           read_and_send(c, f, from), file'[c] = f, got'[c] = Part(f, 0, from)
    PROVE  /\ FileOK(c)'
           /\ state' \in [Conn -> {"closed", "reading", "handling", "file", "sending"}]
           /\ state'[c] \in {"file", "sending"}
           /\ body' \in [Conn -> Seq(Byte)] /\ position' \in [Conn -> Nat]
           /\ \A e \in Conn : e # c => /\ body'[e] = body[e] /\ state'[e] = state[e]
                                       /\ position'[e] = position[e]
<1>1. PICK to \in from..f : /\ Read(f, from) = Part(f, from, to)
                            /\ Len(Read(f, from)) = to - from
                            /\ ~MoreFollows(Read(f, from)) => to = f
  BY ReadPart
<1>2. to \in Nat /\ from <= to /\ to <= f /\ from + (to - from) = to
  OBVIOUS
<1>3. Part(f, from, to) \in Seq(Byte)
  BY <1>2, PartType
<1>4. /\ body' = [body EXCEPT ![c] = Part(f, from, to)]
      /\ position' = [position EXCEPT ![c] = to]
      /\ state' = [state EXCEPT ![c] = IF MoreFollows(Read(f, from)) THEN "file" ELSE "sending"]
  BY <1>1, <1>2 DEF read_and_send
<1>5. /\ body'[c] = Part(f, from, to) /\ position'[c] = to
      /\ state'[c] \in {"file", "sending"} /\ (state'[c] # "file" => to = f)
  BY <1>1, <1>4 DEF WebTypeOK
<1>6. PartsOK(c, from)'
  BY <1>2, <1>5 DEF PartsOK
<1>7. FileOK(c)'
  BY <1>2, <1>5, <1>6 DEF FileOK
<1> QED BY <1>2, <1>3, <1>4, <1>5, <1>7 DEF WebTypeOK
-----------------------------------------------------------------------------
(* The steps.                                                               *)

\* The default resource.
LEMMA HandleFileInv ==
    ASSUME WebInv, NEW c \in Conn, HandleFile(c)
    PROVE  WebInv'
<1>0. /\ WebTypeOK /\ CountOK(c) /\ FileOK(c) /\ state[c] = "handling"
      /\ sessions' = sessions /\ loggedOut' = loggedOut
  BY DEF WebInv, HandleFile, Handles
<1>1. CASE HandlerReturns(c, <<400>>, {})
  <2>1. 400 \in Nat
    OBVIOUS
  <2> QED BY <1>0, <1>1, <2>1, OneAnswerInv DEF WebInv, WebTypeOK
<1>2. CASE ~HandlerReturns(c, <<400>>, {})
  <2>1. PICK f \in Length :
          /\ file' = [file EXCEPT ![c] = f]
          /\ response' = [response EXCEPT ![c] = <<200>>]
          /\ request' = [request EXCEPT ![c] = None]
          /\ read_and_send(c, f, 0)
          /\ UNCHANGED <<counts, causes, headless>>
    BY <1>2 DEF HandleFile
  <2>2. f \in Nat /\ file'[c] = f /\ UNCHANGED <<requests, responses, got, causes>>
    BY <1>0, <2>1, WebAssumption DEF WebTypeOK, counts
  <2>3. got'[c] = Part(f, 0, 0)
    <3>1. PICK n \in 0..position[c] : PartsOK(c, n)
      BY <1>0 DEF FileOK
    <3>2. n = 0 /\ got[c] = Part(file[c], 0, 0)
      BY <1>0, <3>1 DEF PartsOK
    <3> QED BY <2>2, <3>2, PartEmpty
  <2>4. /\ FileOK(c)'
        /\ state' \in [Conn -> {"closed", "reading", "handling", "file", "sending"}]
        /\ state'[c] \in {"file", "sending"}
        /\ body' \in [Conn -> Seq(Byte)] /\ position' \in [Conn -> Nat]
        /\ \A e \in Conn : e # c => /\ body'[e] = body[e] /\ state'[e] = state[e]
                                    /\ position'[e] = position[e]
    BY <1>0, <2>1, <2>2, <2>3, ReadAndSend
  <2>5. <<200>> \in Seq(Nat) /\ Len(<<200>>) = 1 /\ Len(<<>>) = 0
    OBVIOUS
  <2>6. WebTypeOK'
    BY <1>0, <2>1, <2>2, <2>4, <2>5 DEF WebTypeOK
  <2>7. Others(c)
    BY <1>0, <2>1, <2>2, <2>4 DEF WebTypeOK, Others
  <2>8. CountOK(c)'
    <3>1. response'[c] = <<200>> /\ responses[c] \in Nat /\ requests[c] \in Nat
      BY <1>0, <2>1 DEF WebTypeOK
    <3>2. Total(c) = responses[c] + 1 /\ Total(c)' = responses[c] + 1
      BY <1>0, <2>2, <2>4, <2>5, <3>1 DEF Total, CountOK
    <3> QED BY <1>0, <2>2, <2>4, <3>2 DEF CountOK
  <2> QED BY <1>0, <2>4, <2>6, <2>7, <2>8, StepOfOne DEF WebInv
<1> QED BY <1>1, <1>2

\* The callback of send(), with the next read of the file.
LEMMA SendPieceInv ==
    ASSUME WebInv, NEW c \in Conn, SendPiece(c)
    PROVE  WebInv'
<1>0. /\ WebTypeOK /\ CountOK(c) /\ FileOK(c) /\ state[c] = "file"
      /\ UNCHANGED <<request, file, requests, sessions, causes, loggedOut>>
  BY DEF WebInv, SendPiece, history
<1>1. /\ got'[c] = Part(file[c], 0, position[c])
      /\ got' \in [Conn -> Seq(Byte)]
      /\ response'[c] = <<>> /\ response' \in [Conn -> Seq(Nat)]
      /\ responses'[c] = responses[c] + Len(response[c])
      /\ responses' \in [Conn -> Nat]
      /\ \A e \in Conn : e # c => /\ got'[e] = got[e] /\ response'[e] = response[e]
                                  /\ responses'[e] = responses[e]
  BY SentParts DEF SendPiece
<1>2. file[c] \in Nat /\ position[c] \in Nat /\ position[c] <= file[c]
  BY <1>0 DEF WebTypeOK, FileOK, PartsOK
<1>3. /\ FileOK(c)'
      /\ state' \in [Conn -> {"closed", "reading", "handling", "file", "sending"}]
      /\ state'[c] \in {"file", "sending"}
      /\ body' \in [Conn -> Seq(Byte)] /\ position' \in [Conn -> Nat]
      /\ \A e \in Conn : e # c => /\ body'[e] = body[e] /\ state'[e] = state[e]
                                  /\ position'[e] = position[e]
  BY <1>0, <1>1, <1>2, ReadAndSend DEF SendPiece
<1>4. WebTypeOK'
  BY <1>0, <1>1, <1>3 DEF WebTypeOK
<1>5. Others(c)
  BY <1>0, <1>1, <1>3 DEF Others
<1>6. CountOK(c)'
  <2>1. Len(<<>>) = 0 /\ Len(response[c]) \in Nat /\ responses[c] \in Nat
    BY <1>0 DEF WebTypeOK
  <2>2. Total(c)' = Total(c)
    BY <1>0, <1>1, <1>3, <2>1 DEF Total
  <2> QED BY <1>0, <1>1, <2>2 DEF CountOK
<1> QED BY <1>0, <1>3, <1>4, <1>5, <1>6, StepOfOne DEF WebInv

\* The end of a response.
LEMMA SendResponseInv ==
    ASSUME WebInv, NEW c \in Conn, SendResponse(c)
    PROVE  WebInv'
<1>0. /\ WebTypeOK /\ CountOK(c) /\ FileOK(c) /\ state[c] = "sending"
      /\ UNCHANGED <<request, file, position, requests, sessions, causes, loggedOut>>
  BY DEF WebInv, SendResponse, history
<1>1. /\ got'[c] = Part(file[c], 0, position[c])
      /\ got' \in [Conn -> Seq(Byte)]
      /\ response'[c] = <<>> /\ response' \in [Conn -> Seq(Nat)]
      /\ responses'[c] = responses[c] + Len(response[c])
      /\ responses' \in [Conn -> Nat]
      /\ \A e \in Conn : e # c => /\ got'[e] = got[e] /\ response'[e] = response[e]
                                  /\ responses'[e] = responses[e]
  BY SentParts DEF SendResponse
<1>2. /\ body' = [body EXCEPT ![c] = <<>>] /\ state' = [state EXCEPT ![c] = "reading"]
      /\ state'[c] = "reading" /\ body'[c] = <<>> /\ <<>> \in Seq(Byte)
  BY <1>0 DEF SendResponse, WebTypeOK
<1>3. WebTypeOK'
  BY <1>0, <1>1, <1>2 DEF WebTypeOK
<1>4. Others(c)
  BY <1>0, <1>1, <1>2 DEF WebTypeOK, Others
<1>5. CountOK(c)'
  <2>1. Len(<<>>) = 0 /\ Len(response[c]) \in Nat /\ responses[c] \in Nat
    BY <1>0 DEF WebTypeOK
  <2>2. Total(c)' = Total(c)
    BY <1>0, <1>1, <1>2, <2>1 DEF Total
  <2> QED BY <1>0, <1>1, <2>2 DEF CountOK
<1>6. FileOK(c)'
  <2>1. file[c] \in Nat /\ position[c] \in Nat /\ position[c] = file[c]
    BY <1>0 DEF WebTypeOK, FileOK, PartsOK
  <2>2. Part(file[c], position[c], position[c]) = <<>>
    BY <2>1, PartEmpty
  <2>3. PartsOK(c, position[c])'
    BY <1>0, <1>1, <1>2, <2>1, <2>2 DEF PartsOK
  <2>4. position'[c] \in 0..position'[c]
    BY <1>0, <2>1
  <2> QED BY <1>0, <2>3, <2>4 DEF FileOK
<1> QED BY <1>0, <1>3, <1>4, <1>5, <1>6, StepOfOne DEF WebInv

\* Add, modify and delete.
LEMMA HandleChangeInv ==
    ASSUME WebInv, NEW c \in Conn, NEW o \in Outcome, HandleChange(c, o)
    PROVE  WebInv'
<1>0. WebTypeOK /\ state[c] = "handling"
  BY DEF WebInv, HandleChange, Handles
<1>1. CASE ReadsBeyondEnd(c)
  BY <1>1, BeyondEndInv
<1>2. CASE ~ReadsBeyondEnd(c)
  <2>1. PICK refused \in Seq(Nat), code \in Seq(Nat), because \in SUBSET {"refused"} :
          /\ refused = IF validateSession(c) THEN <<>> ELSE <<403>>
          /\ because = IF validateSession(c) THEN {} ELSE {"refused"}
          /\ code = <<Success(request[c].kind)>>
    <3>1. <<403>> \in Seq(Nat) /\ <<>> \in Seq(Nat)
      OBVIOUS
    <3>2. Success(request[c].kind) \in Nat
      BY DEF Success
    <3>3. <<Success(request[c].kind)>> \in Seq(Nat)
      BY <3>2
    <3> QED BY <3>1, <3>3
  <2>2. HandlerReturns(c, refused \o AfterCall(o, code), because \cup Thrown(o))
    BY <1>2, <2>1 DEF HandleChange
  <2>3. /\ Len(code) = 1 /\ Len(code) >= 1
        /\ because = {} => Len(refused) = 0
        /\ Len(refused) <= 1 /\ Len(refused) \in Nat
    BY <2>1
  <2>4. /\ AfterCall(o, code) \in Seq(Nat)
        /\ "threw" \notin Thrown(o) => Len(AfterCall(o, code)) >= 1
        /\ Len(AfterCall(o, code)) <= 1
        /\ Thrown(o) \in SUBSET {"threw"}
    BY <2>3, AfterCallLength
  <2>5. PICK written \in Seq(Nat) : /\ written = refused \o AfterCall(o, code)
                                    /\ Len(written) = Len(refused) + Len(AfterCall(o, code))
    BY <2>4, ConcatProperties
  <2>6. PICK why \in SUBSET {"threw", "refreshed", "refused"} : why = because \cup Thrown(o)
    BY <2>4
  <2>7. "threw" \notin why => Len(written) >= 1
    BY <2>3, <2>4, <2>5, <2>6
  <2>8. why \cap {"refreshed", "refused"} = {} => Len(written) <= 1
    <3>1. why \cap {"refreshed", "refused"} = {} => because = {}
      BY <2>6
    <3> QED BY <2>3, <2>4, <2>5, <3>1
  <2>9. sessions' \subseteq Id /\ loggedOut' \subseteq Id /\ sessions' \cap loggedOut' = {}
    BY <1>2 DEF HandleChange, WebInv, WebTypeOK
  <2> QED BY <1>0, <2>2, <2>5, <2>6, <2>7, <2>8, <2>9, HandlerInv
<1> QED BY <1>1, <1>2

\* Every step of a connection preserves the invariant.
LEMMA ServeInv ==
    ASSUME WebInv, NEW c \in Conn, Serve(c)
    PROVE  WebInv'
<1>0. /\ WebTypeOK /\ sessions \subseteq Id /\ loggedOut \subseteq Id
      /\ sessions \cap loggedOut = {}
  BY DEF WebInv, WebTypeOK
<1>1. CASE NoResource(c)
  BY <1>1, ClosedInv DEF NoResource
<1>2. CASE HandleList(c)
  <2>1. CASE ReadsBeyondEnd(c)
    BY <2>1, BeyondEndInv
  <2>2. CASE ~ReadsBeyondEnd(c)
    <3>1. PICK code \in Nat : HandlerReturns(c, <<code>>, {})
      BY <1>2, <2>2 DEF HandleList
    <3> QED BY <1>0, <1>2, <2>2, <3>1, OneAnswerInv DEF HandleList, Handles
  <2> QED BY <2>1, <2>2
<1>3. CASE HandleLogin(c)
  <2>1. CASE HandlerReturns(c, <<>>, {"threw"}) /\ UNCHANGED <<sessions, loggedOut>>
    BY <1>0, <1>3, <2>1, OneAnswerInv DEF HandleLogin, Handles
  <2>2. CASE /\ HandlerReturns(c, <<200>>, {})
             /\ \E i \in generate_session_id : add_session(i) /\ loggedOut' = loggedOut \ {i}
    <3>1. sessions' \subseteq Id /\ loggedOut' \subseteq Id /\ sessions' \cap loggedOut' = {}
      BY <1>0, <2>2 DEF generate_session_id, add_session
    <3>2. 200 \in Nat
      OBVIOUS
    <3> QED BY <1>3, <2>2, <3>1, <3>2, OneAnswerInv DEF HandleLogin, Handles
  <2> QED BY <1>3, <2>1, <2>2 DEF HandleLogin
<1>4. CASE HandleLogout(c)
  <2>1. CASE ReadsBeyondEnd(c)
    BY <2>1, BeyondEndInv
  <2>2. CASE ~ReadsBeyondEnd(c)
    <3>1. PICK code \in Nat : HandlerReturns(c, <<code>>, {})
      BY <1>4, <2>2 DEF HandleLogout
    <3>2. request[c].cookie \in Id
      <4>1. request[c] \in Request /\ request[c].kind = "logout"
        BY <1>0, <1>4 DEF WebTypeOK, HandleLogout, Handles, None
      <4>2. request[c].cookie \in Cookie
        BY <4>1 DEF Request
      <4>3. request[c].cookie \notin {OtherCookie, NoCookie}
        BY <1>4, <2>2, <4>1 DEF HandleLogout, Unreadable
      <4> QED BY <4>2, <4>3 DEF Cookie
    <3>3. sessions' \subseteq Id /\ loggedOut' \subseteq Id /\ sessions' \cap loggedOut' = {}
      BY <1>0, <1>4, <2>2, <3>2 DEF HandleLogout, erase_session
    <3> QED BY <1>4, <3>1, <3>3, OneAnswerInv DEF HandleLogout, Handles
  <2> QED BY <2>1, <2>2
<1>5. ASSUME NEW o \in Outcome, HandleRefresh(c, o)
      PROVE  WebInv'
  <2>1. PICK codes \in Seq(Nat) : codes = <<200, 202>> /\ Len(codes) >= 1
    <3>1. <<200, 202>> \in Seq(Nat) /\ Len(<<200, 202>>) >= 1
      OBVIOUS
    <3> QED BY <3>1
  <2>2. PICK written \in Seq(Nat), why \in SUBSET {"threw", "refreshed", "refused"} :
          /\ written = AfterCall(o, codes)
          /\ why = IF o = "ok" THEN {"refreshed"} ELSE Thrown(o)
    BY <2>1, AfterCallLength
  <2>3. "threw" \notin why => Len(written) >= 1
    <3>1. CASE o = "ok"
      BY <2>1, <2>2, <3>1 DEF AfterCall
    <3>2. CASE o # "ok"
      BY <2>1, <2>2, <3>2, AfterCallLength
    <3> QED BY <3>1, <3>2
  <2>4. why \cap {"refreshed", "refused"} = {} => Len(written) <= 1
    <3>1. CASE o = "ok"
      BY <2>2, <3>1
    <3>2. CASE o # "ok"
      <4>1. written = <<400>> \/ written = <<>>
        BY <2>2, <3>2 DEF AfterCall, Outcome
      <4>2. CASE written = <<400>>
        BY <4>2
      <4>3. CASE written = <<>>
        BY <4>3
      <4> QED BY <4>1, <4>2, <4>3
    <3> QED BY <3>1, <3>2
  <2>5. HandlerReturns(c, written, why) /\ state[c] = "handling"
    BY <1>5, <2>1, <2>2 DEF HandleRefresh, Handles
  <2>6. sessions' \subseteq Id /\ loggedOut' \subseteq Id /\ sessions' \cap loggedOut' = {}
    BY <1>0, <1>5 DEF HandleRefresh
  <2> QED BY <2>3, <2>4, <2>5, <2>6, HandlerInv
<1> QED BY <1>1, <1>2, <1>3, <1>4, <1>5, HandleFileInv, SendPieceInv, SendResponseInv,
           HandleChangeInv DEF Serve

\* Every step of the specification preserves the invariant.
LEMMA WebNextInv == WebInv /\ [Next]_vars => WebInv'
<1> SUFFICES ASSUME WebInv, [Next]_vars PROVE WebInv'
  OBVIOUS
<1>0. WebTypeOK /\ sessions \cap loggedOut = {} /\ \A c \in Conn : CountOK(c) /\ FileOK(c)
  BY DEF WebInv
<1>1. ASSUME NEW c \in Conn, Accept(c)
      PROVE  WebInv'
  <2>1. /\ UNCHANGED <<request, response, body, file, position, sessions, requests,
                       responses, got, causes, loggedOut>>
        /\ state[c] = "closed" /\ state' = [state EXCEPT ![c] = "reading"]
    BY <1>1 DEF Accept, counts, history
  <2>2. state'[c] = "reading"
    BY <1>0, <2>1 DEF WebTypeOK
  <2>3. Others(c) /\ WebTypeOK'
    BY <1>0, <2>1 DEF WebTypeOK, Others
  <2>4. CountOK(c)'
    <3>1. Total(c)' = Total(c)
      BY <2>1, <2>2 DEF Total
    <3> QED BY <1>0, <2>1, <2>2, <3>1 DEF CountOK
  <2>5. FileOK(c)'
    BY <1>0, <2>1, <2>2 DEF FileOK, PartsOK
  <2> QED BY <1>0, <2>1, <2>3, <2>4, <2>5, StepOfOne
<1>2. ASSUME NEW c \in Conn, Drop(c)
      PROVE  WebInv'
  BY <1>2, ClosedInv DEF Drop
<1>3. ASSUME NEW c \in Conn, NEW r \in Request, ReadRequest(c, r)
      PROVE  WebInv'
  <2>1. /\ UNCHANGED <<response, body, responses, sessions, causes, loggedOut>>
        /\ state[c] = "reading" /\ state' = [state EXCEPT ![c] = "handling"]
        /\ request' = [request EXCEPT ![c] = r]
        /\ file' = [file EXCEPT ![c] = 0] /\ position' = [position EXCEPT ![c] = 0]
        /\ requests' = [requests EXCEPT ![c] = @ + 1]
        /\ got' = [got EXCEPT ![c] = <<>>]
    BY <1>3 DEF ReadRequest
  <2>2. /\ state'[c] = "handling" /\ requests'[c] = requests[c] + 1
        /\ file'[c] = 0 /\ position'[c] = 0 /\ got'[c] = <<>>
    BY <1>0, <2>1 DEF WebTypeOK
  <2>3. Others(c)
    BY <1>0, <2>1 DEF WebTypeOK, Others
  <2>4. WebTypeOK'
    <3>1. <<>> \in Seq(Byte)
      OBVIOUS
    <3> QED BY <1>0, <2>1, <3>1 DEF WebTypeOK
  <2>5. CountOK(c)'
    <3>1. requests[c] \in Nat /\ responses[c] \in Nat /\ Len(response[c]) \in Nat
      BY <1>0 DEF WebTypeOK
    <3>2. Total(c)' = Total(c) + 1 /\ Total(c) \in Nat
      BY <2>1, <2>2, <3>1 DEF Total
    <3> QED BY <1>0, <2>1, <2>2, <3>1, <3>2 DEF CountOK
  <2>6. FileOK(c)'
    <3>1. PICK n \in 0..position[c] : PartsOK(c, n)
      BY <1>0 DEF FileOK
    <3>2. position[c] \in Nat
      BY <1>0 DEF WebTypeOK
    <3>3. body[c] = <<>>
      BY <2>1, <3>1, <3>2, PartEmpty DEF PartsOK
    <3>4. Part(0, 0, 0) = <<>>
      BY PartEmpty
    <3>5. PartsOK(c, 0)'
      BY <2>1, <2>2, <3>3, <3>4 DEF PartsOK
    <3> QED BY <2>2, <3>5 DEF FileOK
  <2> QED BY <1>0, <2>1, <2>3, <2>4, <2>5, <2>6, StepOfOne
<1>4. ASSUME NEW c \in Conn, Serve(c)
      PROVE  WebInv'
  BY <1>4, ServeInv
<1>5. CASE UNCHANGED vars
  BY <1>5 DEF vars, connVars, counts, history, WebInv, WebTypeOK, CountOK, Total, FileOK,
              PartsOK
<1> QED BY <1>1, <1>2, <1>3, <1>4, <1>5 DEF Next

\* The invariant holds in every state of the program.
THEOREM WebInvariance == Spec => []WebInv
BY WebInitInv, WebNextInv, PTL DEF Spec

\* Every variable keeps its type, and SessionList holds nothing but ids it issued.
THEOREM WebTypes == Spec => []WebTypeOK
<1>1. WebInv => WebTypeOK
  BY DEF WebInv
<1> QED BY <1>1, WebInvariance, PTL

\* A browser that waits for nothing has got no fewer responses than it made requests
\* unless a handler threw, and no more unless a refresh went well or a change was
\* refused.
THEOREM ResponsesInStepTheorem == Spec => []ResponsesInStep
<1>1. ASSUME WebInv, NEW c \in Conn, state[c] = "reading"
      PROVE  /\ "threw" \notin causes[c] => responses[c] >= requests[c]
             /\ causes[c] \cap {"refreshed", "refused"} = {} => responses[c] <= requests[c]
  <2>1. CountOK(c) /\ responses[c] \in Nat
    BY <1>1 DEF WebInv, WebTypeOK
  <2>2. Total(c) = responses[c]
    BY <1>1, <2>1 DEF CountOK, Total
  <2> QED BY <2>1, <2>2 DEF CountOK
<1>2. WebInv => ResponsesInStep
  BY <1>1 DEF ResponsesInStep
<1> QED BY <1>2, WebInvariance, PTL

\* Every browser gets its own file, in order and all of it, although all files go
\* through one static buffer.
THEOREM FilesKeepApartTheorem == Spec => []FilesKeepApart
<1>1. ASSUME WebInv, NEW c \in Conn
      PROVE  /\ \E n \in 0..file[c] : got[c] = Content(file[c], n)
             /\ state[c] = "reading" => got[c] = Content(file[c], file[c])
  <2>1. PICK n \in 0..position[c] : PartsOK(c, n)
    BY <1>1 DEF WebInv, FileOK
  <2>2. position[c] \in Nat /\ file[c] \in Nat /\ position[c] <= file[c]
    BY <1>1, <2>1 DEF WebInv, WebTypeOK, PartsOK
  <2>3. n \in 0..file[c]
    BY <2>2
  <2>4. Part(file[c], 0, n) = Content(file[c], n)
    BY <2>3 DEF Part, Content
  <2> QED BY <2>1, <2>2, <2>3, <2>4 DEF PartsOK
<1>2. WebInv => FilesKeepApart
  BY <1>1 DEF FilesKeepApart
<1> QED BY <1>2, WebInvariance, PTL

\* The list of sensors is not sent to an id that has been logged out.
THEOREM LoggedOutIsRefusedTheorem == Spec => LoggedOutIsRefused
<1>1. ASSUME WebInv, NEW c \in Conn, HandleList(c), request[c].cookie \in loggedOut
      PROVE  response'[c] # <<200>>
  <2>1. ~validateSession(c) /\ WebTypeOK
    BY <1>1 DEF WebInv, validateSession
  <2>2. request[c].cookie \notin Unreadable(request[c].kind)
    BY <1>1, WebAssumption DEF WebInv, WebTypeOK, Unreadable
  <2>3. response'[c] = <<403>>
    BY <1>1, <2>1, <2>2 DEF HandleList, ReadsBeyondEnd, HandlerReturns, WebTypeOK
  <2> QED BY <2>3
<1>2. WebInv /\ [Next]_vars =>
        [\A c \in Conn : HandleList(c) /\ request[c].cookie \in loggedOut
                             => response'[c] # <<200>>]_vars
  BY <1>1
<1> QED BY <1>2, WebInvariance, PTL DEF Spec, LoggedOutIsRefused
================================================================================
