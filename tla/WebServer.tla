------------------------------- MODULE WebServer -------------------------------
(***************************************************************************)
(* The HTTP side of central: connections of Simple-Web-Server              *)
(* (central/include/server_http.hpp), the handlers of WebServer.cpp and    *)
(* SessionList.  One thread runs everything; handlers of different         *)
(* connections alternate only where the library waits for a socket.        *)
(*                                                                         *)
(* A handler writes any number of responses into its Response object; they *)
(* are sent when the last reference to it goes, and then the next request  *)
(* is read on the same connection.  A Communicator call ends well, in      *)
(* std::logic_error or in ExceptionInfo (its steps are those of Central).  *)
(***************************************************************************)
EXTENDS Naturals, Sequences

CONSTANTS
    Conn,          \* connections
    Id,            \* session ids that generate_session_id may return
    Kind,          \* the requests that are made
    NoCookie,      \* a request without a Cookie header
    OtherCookie,   \* one whose first cookie is not sessionId
    Length,        \* the lengths of the files; no two have the same
    BufferSize,    \* the length of the static buffer of read_and_send
    MaxRequests    \* bound: requests per connection

ASSUME WebAssumption ==
    /\ Kind \subseteq {"list", "refresh", "add", "modify", "delete", "login",
                       "logout", "file", "unknown"}
    /\ NoCookie \notin Id /\ OtherCookie \notin Id
    /\ Length \subseteq Nat
    /\ BufferSize \in Nat \ {0}

Cookie == Id \cup {NoCookie, OtherCookie}
Request == [kind: Kind, cookie: Cookie]
Outcome == {"ok", "logic_error", "ExceptionInfo"}

VARIABLES
    state,       \* per connection: "closed", "reading", "handling", "file", "sending"
    request,     \* per connection: the request read last
    response,    \* per connection: status codes written and not sent yet
    body,        \* per connection: what of a file is written and not sent yet
    file,        \* per connection: the file asked for (0, an empty one, if none was)
    position,    \* per connection: how far the ifstream is
    buffer,      \* read_and_send's static buffer, as far as the last read filled it
    sessions,    \* SessionList
    down,        \* the process has ended
    requests,    \* history, per connection: the number of requests read
    responses,   \* history, per connection: the number of responses sent
    answered,    \* history, per connection: a response to the last request was sent
    got,         \* history, per connection: what of the file was sent
    causes,      \* history, per connection: what may put responses out of step
    headless,    \* history: a request whose sessionId cannot be read was made
    loggedOut    \* history: ids logged out and not issued again since

connVars == <<state, request, response, body, file, position>>
counts == <<requests, responses, answered, got>>
history == <<causes, headless, loggedOut>>
vars == <<connVars, buffer, sessions, down, counts, history>>

None == [kind |-> "none", cookie |-> NoCookie]

Init ==
    /\ state = [c \in Conn |-> "closed"]
    /\ request = [c \in Conn |-> None]
    /\ response = [c \in Conn |-> <<>>] /\ body = [c \in Conn |-> <<>>]
    /\ file = [c \in Conn |-> 0] /\ position = [c \in Conn |-> 0]
    /\ buffer = <<>>
    /\ sessions = {} /\ down = FALSE
    /\ requests = [c \in Conn |-> 0] /\ responses = [c \in Conn |-> 0]
    /\ answered = [c \in Conn |-> FALSE] /\ got = [c \in Conn |-> <<>>]
    /\ causes = [c \in Conn |-> {}]
    /\ headless = FALSE /\ loggedOut = {}
-----------------------------------------------------------------------------
(* Connections.                                                             *)

\* accept(), and read() for the first request.
Accept(c) ==
    /\ ~down
    /\ state[c] = "closed"
    /\ state' = [state EXCEPT ![c] = "reading"]
    /\ UNCHANGED <<request, response, body, file, position, buffer, sessions, down,
                   counts, history>>

Closed(c) ==
    /\ state' = [state EXCEPT ![c] = "closed"]
    /\ request' = [request EXCEPT ![c] = None]
    /\ response' = [response EXCEPT ![c] = <<>>]
    /\ body' = [body EXCEPT ![c] = <<>>]
    /\ file' = [file EXCEPT ![c] = 0]
    /\ position' = [position EXCEPT ![c] = 0]
    /\ requests' = [requests EXCEPT ![c] = 0]
    /\ responses' = [responses EXCEPT ![c] = 0]
    /\ answered' = [answered EXCEPT ![c] = FALSE]
    /\ got' = [got EXCEPT ![c] = <<>>]
    /\ causes' = [causes EXCEPT ![c] = {}]
    /\ UNCHANGED <<buffer, sessions, down, headless, loggedOut>>

\* A request that is incomplete when timeout_request is over, that cannot be
\* parsed, or a browser that goes away: the connection is dropped.
Drop(c) ==
    /\ ~down
    /\ state[c] \in {"reading", "file", "sending"}
    /\ Closed(c)

\* The requests in whose handler ->second of end() is read.
Headless(r) ==
    \/ r.kind \in {"list", "add", "modify", "delete", "logout"} /\ r.cookie = OtherCookie
    \/ r.kind = "logout" /\ r.cookie = NoCookie

\* read(): header and content, also one that comes in chunks, are complete.  No
\* request reaches the largest buffer (the largest size_t).
ReadRequest(c, r) ==
    /\ ~down
    /\ state[c] = "reading"
    /\ requests[c] < MaxRequests
    /\ state' = [state EXCEPT ![c] = "handling"]
    /\ request' = [request EXCEPT ![c] = r]
    /\ file' = [file EXCEPT ![c] = 0]
    /\ position' = [position EXCEPT ![c] = 0]
    /\ requests' = [requests EXCEPT ![c] = @ + 1]
    /\ answered' = [answered EXCEPT ![c] = FALSE]
    /\ got' = [got EXCEPT ![c] = <<>>]
    /\ headless' = (headless \/ Headless(r))
    /\ UNCHANGED <<response, body, buffer, responses, sessions, down, causes, loggedOut>>

\* find_resource() without a match: nobody keeps the connection.
NoResource(c) ==
    /\ ~down
    /\ state[c] = "handling"
    /\ request[c].kind = "unknown"
    /\ Closed(c)

\* write(): the handler has returned or thrown; on_error is not set.
HandlerReturns(c, written, why) ==
    /\ state' = [state EXCEPT ![c] = "sending"]
    /\ response' = [response EXCEPT ![c] = written]
    /\ causes' = [causes EXCEPT ![c] = @ \cup why]
    /\ request' = [request EXCEPT ![c] = None]
    /\ UNCHANGED <<body, file, position, buffer, counts, headless>>

\* Mutant: send() takes the content of a file from the static buffer.
OutgoingBuffer(c) == SubSeq(buffer, 1, Len(body[c]))

\* What send() takes from the stream of the Response.
Outgoing(c) == body[c]

\* async_write has sent all that was written into the Response.
Sent(c) ==
    /\ responses' = [responses EXCEPT ![c] = @ + Len(response[c])]
    /\ answered' = [answered EXCEPT ![c] = @ \/ response[c] # <<>>]
    /\ got' = [got EXCEPT ![c] = @ \o Outgoing(c)]
    /\ response' = [response EXCEPT ![c] = <<>>]

\* The last reference to the Response is gone, it has been sent, and the next
\* request is read; on a connection that is not to be kept, the browser drops it.
SendResponse(c) ==
    /\ ~down
    /\ state[c] = "sending"
    /\ Sent(c)
    /\ body' = [body EXCEPT ![c] = <<>>]
    /\ state' = [state EXCEPT ![c] = "reading"]
    /\ UNCHANGED <<request, file, position, buffer, requests, sessions, down, history>>
-----------------------------------------------------------------------------
(* Handlers.                                                                *)

Handles(c, kinds) ==
    /\ ~down
    /\ state[c] = "handling"
    /\ request[c].kind \in kinds

\* Mutant: the header is not looked for before it is read.
UnreadableAlways(kind) == {OtherCookie, NoCookie}

\* The cookies with which find("sessionId") gives end(), or find("Cookie") does:
\* validateSession looks whether the header is there, logout does not.
Unreadable(kind) == IF kind = "logout" THEN {OtherCookie, NoCookie} ELSE {OtherCookie}

\* ->second of end() is read: a null pointer, with which the process ends.
ReadsBeyondEnd(c) ==
    /\ request[c].cookie \in Unreadable(request[c].kind)
    /\ down' = TRUE
    /\ UNCHANGED <<connVars, buffer, sessions, counts, history>>

\* Mutant: a session that does not exist is only logged.
validateSessionLogs(c) == request[c].cookie # NoCookie

\* validateSession and exists_session: no invalid_argument is thrown.
validateSession(c) == request[c].cookie \in sessions

HandleList(c) ==
    /\ Handles(c, {"list"})
    /\ \/ ReadsBeyondEnd(c)
       \/ /\ request[c].cookie \notin Unreadable(request[c].kind)
          /\ HandlerReturns(c, IF validateSession(c) THEN <<200>> ELSE <<403>>, {})
          /\ UNCHANGED <<sessions, down, loggedOut>>

\* Mutant: the catch block is for ExceptionInfo, and no std::logic_error is answered.
AfterCallUncaught(outcome, codes) == IF outcome = "ok" THEN codes ELSE <<>>

\* What is written after a Communicator call; a std::logic_error is answered,
\* ExceptionInfo is left to the server.
AfterCall(outcome, codes) ==
    CASE outcome = "ok" -> codes [] outcome = "logic_error" -> <<400>> [] OTHER -> <<>>

Thrown(outcome) == IF outcome = "ExceptionInfo" THEN {"threw"} ELSE {}

\* Refresh does not look at the session, and answers twice when all is well.
HandleRefresh(c, outcome) ==
    /\ Handles(c, {"refresh"})
    /\ HandlerReturns(c, AfterCall(outcome, <<200, 202>>),
                      IF outcome = "ok" THEN {"refreshed"} ELSE Thrown(outcome))
    /\ UNCHANGED <<sessions, down, loggedOut>>

Success(kind) == CASE kind = "add" -> 201 [] kind = "modify" -> 202 [] OTHER -> 204

\* After a 403 the handlers of add, modify and delete go on.
HandleChange(c, outcome) ==
    /\ Handles(c, {"add", "modify", "delete"})
    /\ \/ ReadsBeyondEnd(c)
       \/ /\ request[c].cookie \notin Unreadable(request[c].kind)
          /\ HandlerReturns(c, (IF validateSession(c) THEN <<>> ELSE <<403>>)
                               \o AfterCall(outcome, <<Success(request[c].kind)>>),
                            (IF validateSession(c) THEN {} ELSE {"refused"})
                               \cup Thrown(outcome))
          /\ UNCHANGED <<sessions, down, loggedOut>>

\* SessionList: the ids are random, and one may come again.
generate_session_id == Id
add_session(i) == sessions' = sessions \cup {i}
erase_session(i) == sessions' = sessions \ {i}

\* A login whose content is not JSON throws what only the server catches.
HandleLogin(c) ==
    /\ Handles(c, {"login"})
    /\ \/ /\ HandlerReturns(c, <<>>, {"threw"})
          /\ UNCHANGED <<sessions, loggedOut>>
       \/ /\ HandlerReturns(c, <<200>>, {})
          /\ \E i \in generate_session_id : add_session(i) /\ loggedOut' = loggedOut \ {i}
    /\ UNCHANGED down

HandleLogout(c) ==
    /\ Handles(c, {"logout"})
    /\ \/ ReadsBeyondEnd(c)
       \/ /\ request[c].cookie \notin Unreadable(request[c].kind)
          /\ HandlerReturns(c, IF validateSession(c) THEN <<200>> ELSE <<400>>, {})
          /\ erase_session(request[c].cookie)
          /\ loggedOut' = loggedOut \cup {request[c].cookie}
          /\ UNCHANGED down

\* The part of a file from a position on that fits into the buffer; the k-th byte
\* of file f is <<f, k>>.
Read(f, from) ==
    [i \in 1..(IF f - from < BufferSize THEN f - from ELSE BufferSize) |-> <<f, from + i>>]

\* The read filled the whole buffer.
MoreFollows(piece) == Len(piece) = BufferSize

\* read_and_send: what was read is copied into the Response, and sent now if the
\* buffer was filled, with the end of the Response otherwise.
read_and_send(c, f, from) ==
    /\ buffer' = Read(f, from)
    /\ body' = [body EXCEPT ![c] = Read(f, from)]
    /\ position' = [position EXCEPT ![c] = from + Len(Read(f, from))]
    /\ state' = [state EXCEPT ![c] =
                    IF MoreFollows(Read(f, from)) THEN "file" ELSE "sending"]

\* The default resource: no file, or the header and the first read of one.
HandleFile(c) ==
    /\ Handles(c, {"file"})
    /\ \/ HandlerReturns(c, <<400>>, {})
       \/ \E f \in Length :
             /\ file' = [file EXCEPT ![c] = f]
             /\ response' = [response EXCEPT ![c] = <<200>>]
             /\ request' = [request EXCEPT ![c] = None]
             /\ read_and_send(c, f, 0)
             /\ UNCHANGED <<counts, causes, headless>>
    /\ UNCHANGED <<sessions, down, loggedOut>>

\* The callback of send(): a full buffer has been sent, the next read follows.
SendPiece(c) ==
    /\ ~down
    /\ state[c] = "file"
    /\ Sent(c)
    /\ read_and_send(c, file[c], position[c])
    /\ UNCHANGED <<request, file, requests, sessions, down, history>>

Serve(c) ==
    \/ NoResource(c) \/ HandleList(c) \/ HandleLogin(c) \/ HandleLogout(c)
    \/ HandleFile(c) \/ SendPiece(c) \/ SendResponse(c)
    \/ \E o \in Outcome : HandleRefresh(c, o) \/ HandleChange(c, o)

Next ==
    \E c \in Conn :
        Accept(c) \/ Drop(c) \/ Serve(c) \/ \E r \in Request : ReadRequest(c, r)

\* The HTTP thread runs what is ready; browsers do what they like.
Spec == Init /\ [][Next]_vars /\ \A c \in Conn : WF_vars(Serve(c))
-----------------------------------------------------------------------------
(* Properties.                                                              *)

\* Whenever a connection waits for its next request, the browser has got as many
\* responses on it as it made requests, and so takes each for the right one: not
\* fewer, unless a handler threw what no catch block of it takes (ExceptionInfo, or
\* a login that is no JSON), and not more, unless a refresh went well or a change
\* was refused and executed all the same.
ResponsesInStep ==
    \A c \in Conn : state[c] = "reading" =>
        /\ "threw" \notin causes[c] => responses[c] >= requests[c]
        /\ causes[c] \cap {"refreshed", "refused"} = {} => responses[c] <= requests[c]

Content(f, n) == [i \in 1..n |-> <<f, i>>]

\* All files go through one static buffer, and the next read of one may come
\* between two of another: still a browser gets its own file, from the start and in
\* order, and all of it (no more and no less than Content-Length said) before its
\* connection reads the next request.
FilesKeepApart ==
    \A c \in Conn :
        /\ \E n \in 0..file[c] : got[c] = Content(file[c], n)
        /\ state[c] = "reading" => got[c] = Content(file[c], file[c])

\* The list of sensors is never sent for an id whose logout has been answered,
\* until a login hands it out again.
LoggedOutIsRefused ==
    [][\A c \in Conn : HandleList(c) /\ request[c].cookie \in loggedOut
                           => response'[c] # <<200>>]_vars

\* A request is not left lying: a response to it is sent and its connection reads
\* again, or is closed; unless a handler on the connection threw, or there was a
\* request on whose cookie the program ends: one whose first cookie is not
\* sessionId, or a logout without a cookie.
RequestsAreServed ==
    \A c \in Conn :
        (state[c] = "handling")
            ~> \/ state[c] = "closed"
               \/ state[c] = "reading" /\ answered[c]
               \/ "threw" \in causes[c]
               \/ headless
================================================================================
