---------------------------- MODULE ProcessPipes ----------------------------
(***************************************************************************)
(* A tool that the command line tool starts and waits for                  *)
(* (src/src/cli/process_unix.cpp, process_windows.cpp).  Each standard     *)
(* stream is inherited or a pipe.  On Unix one loop polls the two pipes    *)
(* that the tool writes to and reads one of them to its end; on Windows    *)
(* each has a thread that reads it to its end.                             *)
(*                                                                         *)
(* What goes through a pipe is counted in blocks; a pipe holds PipeSize of *)
(* them, and a read takes one.  The tool is a list of things it does to    *)
(* its streams and the way it ends.                                        *)
(***************************************************************************)
EXTENDS Naturals, Sequences, FiniteSets

CONSTANTS Tools,      \* [platform, piped, program, ends]
          PipeSize    \* blocks that a pipe holds, one at least

Streams == {"stdin", "stdout", "stderr"}
Outputs == {"stdout", "stderr"}

\* A tool is on one of two platforms, some of its streams are pipes, it
\* writes and reads as it likes, and ends with any code or by a signal.
ASSUME ToolsAssumption ==
    /\ PipeSize \in Nat \ {0}
    /\ Tools \subseteq [platform : {"unix", "windows"}, piped : SUBSET Streams, program : Seq(Streams), ends : STRING]

VARIABLES
    tool,      \* platform, the streams that are pipes, what it does and how it ends: an exit code, or "signal"
    parent,    \* where the command line tool is: "spawn", "start", "poll", a stream, "join", "wait", "close", "done"
    child,     \* "none", "started", "running", "zombie", "reaped"
    at,        \* what the tool does next
    held,      \* the ends of the pipes that each process has open
    blocks,    \* in each pipe
    polled,    \* poll_fds that are not -1
    revents,   \* of the last poll
    reading,   \* the streams that a read_to_end is reading
    buffer,    \* stdout_buffer and stderr_buffer
    exit_code

pipes == <<tool, parent, child, at, held, blocks, polled, revents, reading, buffer, exit_code>>

Piped(s) == s \in tool.piped
Read(s) == <<s, "read">>
Write(s) == <<s, "write">>
Ends == {Read(s) : s \in tool.piped} \cup {Write(s) : s \in tool.piped}
Theirs(s) == IF s = "stdin" THEN Read(s) ELSE Write(s)
Ours(s) == IF s = "stdin" THEN Write(s) ELSE Read(s)
NoWriter(s) == \A p \in {"parent", "child"} : Write(s) \notin held[p]

InitPipes ==
    /\ tool \in Tools
    /\ parent = "spawn"
    /\ child = "none"
    /\ at = 1
    /\ held = [p \in {"parent", "child"} |-> {}]
    /\ blocks = [s \in Streams |-> 0]
    /\ polled = {}
    /\ revents = [s \in Outputs |-> {}]
    /\ reading = {}
    /\ buffer = [s \in Outputs |-> 0]
    /\ exit_code = ""

-----------------------------------------------------------------------------
(* spawn: on Unix both processes have all ends after the fork and close    *)
(* those of the other; on Windows the ends of the parent are not inherited.*)

SpawnKeepingWriteEnds ==   \* mutant: the parent leaves the ends of the tool open
    /\ parent = "spawn"
    /\ child' = "started"
    /\ held' = [parent |-> Ends, child |-> Ends]
    /\ parent' = "start"
    /\ UNCHANGED <<tool, at, blocks, polled, revents, reading, buffer, exit_code>>
Spawn ==
    /\ parent = "spawn"
    /\ child' = "started"
    /\ held' = [parent |-> {Ours(s) : s \in tool.piped},
                child |-> IF tool.platform = "windows" THEN {Theirs(s) : s \in tool.piped} ELSE Ends]
    /\ parent' = "start"
    /\ UNCHANGED <<tool, at, blocks, polled, revents, reading, buffer, exit_code>>

(* The child between fork and execvp.                                      *)
StartTool ==
    /\ child = "started"
    /\ child' = "running"
    /\ held' = [held EXCEPT !["child"] = {Theirs(s) : s \in tool.piped}]
    /\ UNCHANGED <<tool, parent, at, blocks, polled, revents, reading, buffer, exit_code>>

(* The tool writes a block, and stops while the pipe is full.              *)
WriteBlock(s) ==
    /\ child = "running"
    /\ at <= Len(tool.program)
    /\ tool.program[at] = s
    /\ Piped(s) => blocks[s] < PipeSize
    /\ blocks' = IF Piped(s) THEN [blocks EXCEPT ![s] = @ + 1] ELSE blocks
    /\ at' = at + 1
    /\ UNCHANGED <<tool, parent, child, held, polled, revents, reading, buffer, exit_code>>

(* It reads its input to the end: nothing is ever written to the pipe, and *)
(* an inherited one ends.                                                  *)
ReadInput ==
    /\ child = "running"
    /\ at <= Len(tool.program)
    /\ tool.program[at] = "stdin"
    /\ Piped("stdin") => NoWriter("stdin")
    /\ at' = at + 1
    /\ UNCHANGED <<tool, parent, child, held, blocks, polled, revents, reading, buffer, exit_code>>

EndTool ==
    /\ child = "running"
    /\ at > Len(tool.program)
    /\ child' = "zombie"
    /\ held' = [held EXCEPT !["child"] = {}]
    /\ UNCHANGED <<tool, parent, at, blocks, polled, revents, reading, buffer, exit_code>>

-----------------------------------------------------------------------------
(* wait: what both platforms do to a pipe.                                 *)

ReadBlock(s) ==
    /\ s \in reading
    /\ blocks[s] > 0
    /\ blocks' = [blocks EXCEPT ![s] = @ - 1]
    /\ buffer' = [buffer EXCEPT ![s] = @ + 1]
    /\ UNCHANGED <<tool, parent, child, at, held, polled, revents, reading, exit_code>>

ReadEnds(s) ==
    /\ s \in reading
    /\ blocks[s] = 0 /\ NoWriter(s)
    /\ reading' = reading \ {s}
    /\ UNCHANGED <<tool, parent, child, at, held, blocks, polled, revents, buffer, exit_code>>

(* Unix.                                                                   *)
StartPolling ==
    /\ parent = "start" /\ tool.platform = "unix"
    /\ polled' = tool.piped \cap Outputs
    /\ parent' = "poll"
    /\ UNCHANGED <<tool, child, at, held, blocks, revents, reading, buffer, exit_code>>

Events(s) == IF s \notin polled THEN {}
             ELSE {e \in {"POLLIN", "POLLHUP"} : IF e = "POLLIN" THEN blocks[s] > 0 ELSE NoWriter(s)}

Poll ==
    /\ parent = "poll" /\ polled # {}
    /\ \E s \in polled : Events(s) # {}
    /\ revents' = [s \in Outputs |-> Events(s)]
    /\ parent' = "stdout"
    /\ UNCHANGED <<tool, child, at, held, blocks, polled, reading, buffer, exit_code>>

PollingEnds ==
    /\ parent = "poll" /\ polled = {}
    /\ parent' = "wait"
    /\ UNCHANGED <<tool, child, at, held, blocks, polled, revents, reading, buffer, exit_code>>

(* With POLLIN the stream is read to its end.                              *)
StartReading(s) ==
    /\ parent = s /\ reading = {}
    /\ "POLLIN" \in revents[s]
    /\ reading' = {s}
    /\ revents' = [revents EXCEPT ![s] = {"POLLHUP"}]
    /\ UNCHANGED <<tool, parent, child, at, held, blocks, polled, buffer, exit_code>>

DropAnyEvent(s) ==   \* mutant: a stream is not polled again, whatever came
    /\ parent = s /\ reading = {}
    /\ "POLLIN" \notin revents[s]
    /\ polled' = polled \ {s}
    /\ parent' = IF s = "stdout" THEN "stderr" ELSE "poll"
    /\ UNCHANGED <<tool, child, at, held, blocks, revents, reading, buffer, exit_code>>
LeaveStream(s) ==
    /\ parent = s /\ reading = {}
    /\ "POLLIN" \notin revents[s]
    /\ polled' = IF revents[s] # {} THEN polled \ {s} ELSE polled
    /\ parent' = IF s = "stdout" THEN "stderr" ELSE "poll"
    /\ UNCHANGED <<tool, child, at, held, blocks, revents, reading, buffer, exit_code>>

(* Windows: both threads at once, or the one stream that is a pipe.        *)
StartReaders ==
    /\ parent = "start" /\ tool.platform = "windows"
    /\ reading' = tool.piped \cap Outputs
    /\ parent' = "join"
    /\ UNCHANGED <<tool, child, at, held, blocks, polled, revents, buffer, exit_code>>

JoinReaders ==
    /\ parent = "join" /\ reading = {}
    /\ parent' = "wait"
    /\ UNCHANGED <<tool, child, at, held, blocks, polled, revents, reading, buffer, exit_code>>

(* The exit status of a tool that was ended by a signal is zero, so that   *)
(* such an end is looked at on its own.                                    *)
WEXITSTATUS(ends) == IF ends = "signal" THEN "0" ELSE ends
ExitCode(ends) == IF ends = "signal" THEN "1" ELSE WEXITSTATUS(ends)

WaitForTool ==
    /\ parent = "wait" /\ child = "zombie"
    /\ child' = "reaped"
    /\ exit_code' = ExitCode(tool.ends)
    /\ parent' = "close"
    /\ UNCHANGED <<tool, at, held, blocks, polled, revents, reading, buffer>>

ClosePipes ==
    /\ parent = "close"
    /\ held' = [held EXCEPT !["parent"] = @ \ {Ours(s) : s \in tool.piped}]
    /\ parent' = "done"
    /\ UNCHANGED <<tool, child, at, blocks, polled, revents, reading, buffer, exit_code>>

-----------------------------------------------------------------------------
ToolStep == StartTool \/ (\E s \in Outputs : WriteBlock(s)) \/ ReadInput \/ EndTool
ParentStep ==
    \/ Spawn \/ StartPolling \/ Poll \/ PollingEnds \/ StartReaders \/ JoinReaders
    \/ WaitForTool \/ ClosePipes
    \/ \E s \in Outputs : StartReading(s) \/ LeaveStream(s)
ReaderStep(s) == ReadBlock(s) \/ ReadEnds(s)
NextPipes == ToolStep \/ ParentStep \/ \E s \in Outputs : ReaderStep(s)

(* The system runs every process and thread that can go on.                *)
Fairness == WF_pipes(ToolStep) /\ WF_pipes(ParentStep) /\ \A s \in Outputs : WF_pipes(ReaderStep(s))
SpecPipes == InitPipes /\ [][NextPipes]_pipes /\ Fairness

-----------------------------------------------------------------------------
(* When wait returns, the tool has ended, all that it wrote to a pipe is   *)
(* in the buffer of that pipe, a tool that was killed has not succeeded,   *)
(* and no end of a pipe is left open.  (Process::wait)                     *)
Wrote(s) == Cardinality({k \in DOMAIN tool.program : tool.program[k] = s})
OutputComplete ==
    parent = "done" =>
        /\ child = "reaped"
        /\ \A s \in tool.piped \cap Outputs : buffer[s] = Wrote(s)
        /\ exit_code = "0" <=> tool.ends = "0"
        /\ held["parent"] = {}

(* Whatever the tool does, wait returns: neither waits for the other       *)
(* forever.  (Process::wait, Process::read_to_end)                         *)
WaitReturns == <>(parent = "done")
=============================================================================
