------------------------------ MODULE ScriptPipe ------------------------------
(***************************************************************************)
(* Config programs and central's ScriptExecutor on the two named pipes     *)
(* central_in and central_out.  A command and its reply are named after    *)
(* the config program that sends the command.  Both sides move one buffer  *)
(* of BUFSIZ bytes at a time, which a pipe takes as a whole while it holds *)
(* less than eight of them (there are fewer config programs than that).    *)
(*                                                                         *)
(* The operations of a pipe are external, as Linux defines them: open      *)
(* waits for the other end, read waits for data or for the last writer to  *)
(* close, write without a reader kills the writer (SIGPIPE; nothing in     *)
(* this repository ignores it), and a pipe nobody holds loses its contents.*)
(***************************************************************************)
EXTENDS Sequences, Naturals

CONSTANTS
    Config,       \* the config programs that are run, each with one command
    Exiting,      \* those whose command is "exit"
    Silent,       \* those whose command is set_threshold or ask_sensor
    Central,      \* central, as a process that holds ends of the pipes
    Blank,        \* a buffer of zeros
    Unread,       \* a config program has not read anything
    Other,        \* any other text that is neither "exit" nor a command sent
    PipeFaults    \* which of "kill", "restart" happen

ASSUME PipeAssumption ==
    /\ Exiting \subseteq Config /\ Silent \subseteq Config \ Exiting
    /\ Central \notin Config
    /\ Blank \notin Config /\ Other \notin Config /\ Blank # Other
    /\ Unread \notin Config \cup {Blank, Other}
    /\ PipeFaults \subseteq {"kill", "restart"}

VARIABLES
    pipe,       \* both pipes: who holds which end, who waits in open, contents
    linked,     \* the pipes that exist in the file system
    at,         \* the statement of execute() central is about to run
    buf,        \* execute()'s buffer
    pc,         \* the statement of send() each config program is about to run
    got,        \* what each config program has read: a reply, or nothing
    executed,   \* history: the commands central has executed
    firstBuf,   \* history: buf still holds what was on the stack at the start
    crowded     \* history: a config program met another one or was killed

pipeVars == <<pipe, linked, at, buf, pc, got, executed, firstBuf, crowded>>

Fifo == {"in", "out"}

NoPipe == [readers |-> {}, writers |-> {}, waiting |-> {}, data |-> <<>>]

\* open(2): p gets hold of its end and lets those in who wait at the other end;
\* it waits itself when there is nobody at the other end.
Opened(f, p, end, other) ==
    [pipe EXCEPT ![f][end] = @ \cup {p},
                 ![f].waiting = IF pipe[f][other] = {} THEN @ \cup {p}
                                ELSE @ \ pipe[f][other]]

OpenForReading(f, p) == pipe' = Opened(f, p, "readers", "writers")
OpenForWriting(f, p) == pipe' = Opened(f, p, "writers", "readers")

\* p is not inside an open that still waits.
Runs(p) == \A f \in Fifo : p \notin pipe[f].waiting

Without(r, p) ==
    LET readers == r.readers \ {p}
        writers == r.writers \ {p}
    IN  [readers |-> readers, writers |-> writers, waiting |-> r.waiting \ {p},
         data |-> IF readers = {} /\ writers = {} THEN <<>> ELSE r.data]

Close(f, p) == pipe' = [pipe EXCEPT ![f] = Without(@, p)]

\* A process that ends, in whatever way, lets go of everything.
LetGo(p) == pipe' = [f \in Fifo |-> Without(pipe[f], p)]

Write(f, x) == pipe' = [pipe EXCEPT ![f].data = Append(@, x)]

Take(f) == pipe' = [pipe EXCEPT ![f].data = Tail(@)]

AtEndOfFile(f) == pipe[f].data = <<>> /\ pipe[f].writers = {}
-----------------------------------------------------------------------------
\* Central starts with both pipes made and with an uninitialised buffer.
PipeInit ==
    /\ pipe = [f \in Fifo |-> NoPipe]
    /\ linked = Fifo
    /\ at = "open_in"
    /\ buf \in {Blank, Other}
    /\ pc = [c \in Config |-> "open_in"]
    /\ got = [c \in Config |-> Unread]
    /\ executed = {}
    /\ firstBuf = TRUE
    /\ crowded = FALSE

Executor == <<linked, at, buf, executed, firstBuf>>
Configs == <<pc, got, crowded>>

\* Mutant: the two calls of open in the other order.
CentralOpensOutFirst ==
    /\ at = "open_in"
    /\ OpenForWriting("out", Central)
    /\ at' = "open_out"
    /\ UNCHANGED <<linked, buf, executed, firstBuf, Configs>>

CentralOpensIn ==
    /\ at = "open_in"
    /\ OpenForReading("in", Central)
    /\ at' = "open_out"
    /\ UNCHANGED <<linked, buf, executed, firstBuf, Configs>>

CentralOpensOut ==
    /\ at = "open_out"
    /\ Runs(Central)
    /\ OpenForWriting("out", Central)
    /\ at' = "read"
    /\ UNCHANGED <<linked, buf, executed, firstBuf, Configs>>

\* At the end of the file read leaves the buffer as it was.
CentralReads ==
    /\ at = "read"
    /\ Runs(Central)
    /\ \/ /\ pipe["in"].data # <<>>
          /\ buf' = Head(pipe["in"].data)
          /\ firstBuf' = FALSE
          /\ Take("in")
       \/ /\ AtEndOfFile("in")
          /\ UNCHANGED <<buf, firstBuf, pipe>>
    /\ at' = "execute"
    /\ UNCHANGED <<linked, executed, Configs>>

\* Mutant: no check for an empty command.
ExecuteBlank ==
    /\ at = "execute"
    /\ IF buf \in Exiting
       THEN at' = "unlink_in" /\ UNCHANGED executed
       ELSE at' = "write" /\ executed' = executed \cup {buf}
    /\ UNCHANGED <<pipe, linked, buf, firstBuf, Configs>>

Execute ==
    /\ at = "execute"
    /\ \/ /\ buf \in Exiting
          /\ at' = "unlink_in"
          /\ UNCHANGED executed
       \/ /\ buf \notin Exiting \cup {Blank}
          /\ at' = "write"
          /\ executed' = executed \cup {buf}
       \/ /\ buf = Blank
          /\ at' = "close_in"
          /\ UNCHANGED executed
    /\ UNCHANGED <<pipe, linked, buf, firstBuf, Configs>>

\* What execute_command may return: a text that names the command's outcome, or
\* nothing at all if set_threshold or ask_sensor was carried out.
Replies(command) == {command} \cup {r \in {Blank} : command \in Silent}

\* The reply, be it blank, replaces the command in the buffer and is written.
CentralReplies ==
    /\ at = "write"
    /\ \E reply \in Replies(buf) :
          /\ IF pipe["out"].readers = {}
             THEN LetGo(Central) /\ at' = "killed"
             ELSE Write("out", reply) /\ at' = "close_in"
          /\ buf' = IF reply = Blank THEN Blank ELSE Other
    /\ UNCHANGED <<linked, executed, firstBuf, Configs>>

\* Mutant: the buffer is not cleared.
CentralClosesInKeeping ==
    /\ at = "close_in"
    /\ firstBuf' = FALSE
    /\ Close("in", Central)
    /\ at' = "close_out"
    /\ UNCHANGED <<linked, buf, executed, Configs>>

CentralClosesIn ==
    /\ at = "close_in"
    /\ buf' = Blank
    /\ firstBuf' = FALSE
    /\ Close("in", Central)
    /\ at' = "close_out"
    /\ UNCHANGED <<linked, executed, Configs>>

CentralClosesOut ==
    /\ at = "close_out"
    /\ Close("out", Central)
    /\ at' = "open_in"
    /\ UNCHANGED <<linked, buf, executed, firstBuf, Configs>>

\* After "exit" the pipes lose their names but stay open until central ends.
Unlinks ==
    /\ \/ at = "unlink_in" /\ linked' = linked \ {"in"} /\ at' = "unlink_out"
       \/ at = "unlink_out" /\ linked' = linked \ {"out"} /\ at' = "stopping"
    /\ UNCHANGED <<pipe, buf, executed, firstBuf, Configs>>

CentralEnds ==
    /\ at = "stopping"
    /\ LetGo(Central)
    /\ at' = "ended"
    /\ UNCHANGED <<linked, buf, executed, firstBuf, Configs>>

\* Central is started again after it was killed; mkfifo finds the old pipes.
CentralRestarts ==
    /\ "restart" \in PipeFaults
    /\ at = "killed"
    /\ at' = "open_in"
    /\ buf' \in {Blank, Other}
    /\ firstBuf' = TRUE
    /\ UNCHANGED <<pipe, linked, executed, Configs>>
-----------------------------------------------------------------------------
Finished(c) == pc[c] \in {"done", "failed", "killed"}
Active(c) == pc[c] # "open_in" /\ ~Finished(c)

\* Central waits for a command and no other config program is at work.
Quiet ==
    /\ \A c \in Config : ~Active(c)
    /\ at = "open_in" \/ (at = "open_out" /\ ~Runs(Central))

Goto(c, statement) == pc' = [pc EXCEPT ![c] = statement]

\* A pipe that has no name any more cannot be opened: the program reports it.
ConfigOpensIn(c) ==
    /\ pc[c] = "open_in"
    /\ IF "in" \in linked
       THEN OpenForWriting("in", c) /\ Goto(c, "open_out")
       ELSE UNCHANGED pipe /\ Goto(c, "failed")
    /\ crowded' = (crowded \/ ~Quiet)
    /\ UNCHANGED <<got, Executor>>

ConfigOpensOut(c) ==
    /\ pc[c] = "open_out"
    /\ Runs(c)
    /\ IF "out" \in linked
       THEN OpenForReading("out", c) /\ Goto(c, "write")
       ELSE LetGo(c) /\ Goto(c, "failed")
    /\ UNCHANGED <<got, crowded, Executor>>

ConfigWrites(c) ==
    /\ pc[c] = "write"
    /\ Runs(c)
    /\ IF pipe["in"].readers = {}
       THEN LetGo(c) /\ Goto(c, "killed")
       ELSE Write("in", c) /\ Goto(c, "close_in")
    /\ UNCHANGED <<got, crowded, Executor>>

ConfigClosesIn(c) ==
    /\ pc[c] = "close_in"
    /\ Close("in", c)
    /\ Goto(c, IF c \in Exiting THEN "close_out" ELSE "read")
    /\ UNCHANGED <<got, crowded, Executor>>

\* Mutant: read does not wait for the reply.
ConfigReadsAtOnce(c) ==
    /\ pc[c] = "read"
    /\ \/ /\ pipe["out"].data # <<>>
          /\ got' = [got EXCEPT ![c] = Head(pipe["out"].data)]
          /\ Take("out")
       \/ /\ pipe["out"].data = <<>>
          /\ UNCHANGED <<got, pipe>>
    /\ Goto(c, "close_out")
    /\ UNCHANGED <<crowded, Executor>>

\* At the end of the file the program prints that it cannot read, and goes on.
ConfigReads(c) ==
    /\ pc[c] = "read"
    /\ \/ /\ pipe["out"].data # <<>>
          /\ got' = [got EXCEPT ![c] = Head(pipe["out"].data)]
          /\ Take("out")
       \/ /\ AtEndOfFile("out")
          /\ UNCHANGED <<got, pipe>>
    /\ Goto(c, "close_out")
    /\ UNCHANGED <<crowded, Executor>>

ConfigClosesOut(c) ==
    /\ pc[c] = "close_out"
    /\ Close("out", c)
    /\ Goto(c, "done")
    /\ UNCHANGED <<got, crowded, Executor>>

\* The user interrupts a config program.
ConfigIsKilled(c) ==
    /\ "kill" \in PipeFaults
    /\ Active(c)
    /\ LetGo(c)
    /\ Goto(c, "killed")
    /\ crowded' = TRUE
    /\ UNCHANGED <<got, Executor>>

ConfigStep(c) ==
    \/ ConfigOpensIn(c) \/ ConfigOpensOut(c) \/ ConfigWrites(c)
    \/ ConfigClosesIn(c) \/ ConfigReads(c) \/ ConfigClosesOut(c)

ExecutorStep ==
    \/ CentralOpensIn \/ CentralOpensOut \/ CentralReads \/ Execute
    \/ CentralReplies \/ CentralClosesIn \/ CentralClosesOut \/ Unlinks

PipeNext ==
    \/ ExecutorStep \/ CentralEnds \/ CentralRestarts
    \/ \E c \in Config : ConfigStep(c) \/ ConfigIsKilled(c)

PipeSpec == PipeInit /\ [][PipeNext]_pipeVars

\* Processes that can run do.  Nothing is assumed of the end of central, which
\* waits for other threads, nor of users.
PipeFairSpec ==
    /\ PipeSpec
    /\ WF_pipeVars(ExecutorStep)
    /\ \A c \in Config : WF_pipeVars(ConfigStep(c) /\ pc[c] # "open_in")
-----------------------------------------------------------------------------
Process == Config \cup {Central}

PipeRecord ==
    [readers : SUBSET Process, writers : SUBSET Process,
     waiting : SUBSET Process, data : Seq(Config \cup {Blank, Other})]

\* Every variable has its type; in particular an empty command is never executed,
\* since execute() looks for one first (line 42).
PipeTypeOK ==
    /\ pipe \in [Fifo -> PipeRecord]
    /\ linked \subseteq Fifo
    /\ at \in {"open_in", "open_out", "read", "execute", "write", "close_in",
               "close_out", "unlink_in", "unlink_out", "stopping", "ended",
               "killed"}
    /\ buf \in Config \cup {Blank, Other}
    /\ pc \in [Config -> {"open_in", "open_out", "write", "close_in", "read",
                          "close_out", "done", "failed", "killed"}]
    /\ got \in [Config -> Config \cup {Blank, Other, Unread}]
    /\ executed \subseteq Config \cup {Other}
    /\ firstBuf \in BOOLEAN
    /\ crowded \in BOOLEAN

\* As long as every config program is started while central waits, one at a time
\* and undisturbed, send() and execute() never miss each other: no process is
\* killed by a pipe, and a config program that has finished got a reply to its
\* own command, which was executed (a blank one only if that is a reply to it).
\* Nothing of this holds once two programs overlap, or one is started before
\* central has closed the pipes behind the last.
CalmService ==
    ~crowded =>
        /\ at # "killed"
        /\ \A c \in Config :
              /\ pc[c] # "killed"
              /\ got[c] \in Replies(c) \cup {Unread}
              /\ (pc[c] = "done" /\ c \notin Exiting) =>
                     got[c] # Unread /\ c \in executed

\* Whoever meets or is killed: central executes nothing that was left in its
\* buffer from an earlier round (a config program that ends before it writes
\* leaves read at the end of the file), except in the first round, where the
\* buffer was never initialised.
OnlySentIsExecuted ==
    (at = "write" /\ ~firstBuf) => buf \in Config \ Exiting

\* No config program hangs while central keeps serving: however many run at the
\* same time and whatever they take from each other, every one that has opened
\* central_in ends.
ConfigsReturn ==
    []<>(at \notin {"stopping", "killed"})
        => \A c \in Config : Active(c) ~> Finished(c)
=============================================================================
