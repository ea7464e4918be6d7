-------------------------- MODULE CommandLineProofs --------------------------
(***************************************************************************)
(* The command line tool and the processes it runs.                        *)
(*                                                                         *)
(* CommandLine: whatever commands were run, failed or were interrupted     *)
(* before, a command that has built a program leaves what was asked for.   *)
(* A file between two tools is the one this command made (Fresh), a        *)
(* toolchain file is that of the machine or only a part (CacheRight), the  *)
(* parsed options are what the tokens say (ParseAgrees), and the compiler  *)
(* makes of its arguments the configuration they were made from            *)
(* (CompilerArgsAre).  What it was given is what the project and the       *)
(* packages that it needs say: the manifests that were taken and the tasks *)
(* that are left always cover what counts (Walk), and in the end it is     *)
(* what was taken (Gathered).                                              *)
(*                                                                         *)
(* ProcessPipes: whatever a tool writes to its pipes, in any order and any *)
(* amount, and however large a pipe is: when Process::wait returns, all of *)
(* it has been read, once.  What was written is in the pipe or in the      *)
(* buffer (NothingLost), only the tool can write to the pipes that the     *)
(* parent reads (EndsHeld), and a stream that is not polled or read again  *)
(* has ended (Leaving).                                                    *)
(***************************************************************************)
EXTENDS CommandLine, ProcessPipes, FiniteSetTheorems, NaturalsInduction, WellFoundedInduction, TLAPS

(***************************************************************************)
(* The pipes of a process.                                                 *)
(***************************************************************************)
Observed == tool.piped \cap Outputs
AllEnds == Streams \X {"read", "write"}
EventSets == SUBSET {"POLLIN", "POLLHUP"}
ParentPlaces == {"spawn", "start", "poll", "stdout", "stderr", "join", "wait", "close", "done"}
ChildPlaces == {"none", "started", "running", "zombie", "reaped"}

TypeOK ==
    /\ tool \in Tools
    /\ parent \in ParentPlaces
    /\ child \in ChildPlaces
    /\ at \in 1..Len(tool.program) + 1
    /\ held \in [{"parent", "child"} -> SUBSET AllEnds]
    /\ blocks \in [Streams -> 0..PipeSize]
    /\ polled \in SUBSET Observed
    /\ revents \in [Outputs -> EventSets]
    /\ reading \in SUBSET Observed
    /\ buffer \in [Outputs -> Nat]
    /\ exit_code \in {"", ExitCode(tool.ends)}

\* Where the two processes are with respect to each other.
Phases ==
    /\ child = "none" <=> parent = "spawn"
    /\ child = "reaped" <=> parent \in {"close", "done"}
    /\ child \in {"none", "started"} => at = 1
    /\ child \in {"zombie", "reaped"} => at = Len(tool.program) + 1
    /\ parent \in {"close", "done"} => exit_code = ExitCode(tool.ends)

\* The tool can write to a pipe as long as it runs, and nobody else can.
EndsHeld ==
    /\ held["parent"] = IF parent \in {"spawn", "done"} THEN {} ELSE {Ours(s) : s \in tool.piped}
    /\ child = "started" => {Theirs(s) : s \in tool.piped} \subseteq held["child"]
    /\ child = "running" => held["child"] = {Theirs(s) : s \in tool.piped}
    /\ child \in {"none", "zombie", "reaped"} => held["child"] = {}

\* What the tool has written to a stream so far.
WrittenBy(program, n, s) == {k \in 1..n : program[k] = s}
WrittenTo(s) == WrittenBy(tool.program, at - 1, s)
NothingLost == \A s \in Observed : buffer[s] + blocks[s] = Cardinality(WrittenTo(s))

\* Nothing is in the pipe and nothing will ever be.
Drained(s) == blocks[s] = 0 /\ child \in {"zombie", "reaped"}

\* A stream that is not polled or read again has ended; an event says so.
Ahead(s) == parent = s \/ (parent = "stdout" /\ s = "stderr")
Leaving ==
    /\ reading # {} => parent = "join" \/ reading = {parent}
    /\ parent \in {"poll", "stdout", "stderr"} => \A s \in Observed : s \in polled \/ Drained(s)
    /\ \A s \in Outputs : Ahead(s) =>
           /\ revents[s] # {} => s \in polled
           /\ revents[s] = {"POLLHUP"} => s \in reading \/ Drained(s)
    /\ parent = "join" => \A s \in Observed : s \in reading \/ Drained(s)
    /\ parent \in {"wait", "close", "done"} => \A s \in Observed : Drained(s)

PipesInv == TypeOK /\ Phases /\ EndsHeld /\ NothingLost /\ Leaving

-----------------------------------------------------------------------------
(* Facts about tools and ends of pipes.                                    *)

\* What a tool of Tools consists of.
LEMMA ToolType ==
    ASSUME tool \in Tools
    PROVE  /\ tool.platform \in {"unix", "windows"}
           /\ tool.piped \in SUBSET Streams
           /\ tool.program \in Seq(Streams)
           /\ Len(tool.program) \in Nat
           /\ PipeSize \in Nat
<1>1. /\ tool.platform \in {"unix", "windows"}
      /\ tool.piped \in SUBSET Streams
      /\ tool.program \in Seq(Streams)
      /\ PipeSize \in Nat
  BY ToolsAssumption
<1>2. Len(tool.program) \in Nat
  BY <1>1
<1> QED
  BY <1>1, <1>2

\* The ends of the pipes that the two processes hold.
LEMMA EndsType ==
    ASSUME tool \in Tools
    PROVE  /\ {Ours(s) : s \in tool.piped} \in SUBSET AllEnds
           /\ {Theirs(s) : s \in tool.piped} \in SUBSET AllEnds
           /\ Ends \in SUBSET AllEnds
           /\ {Theirs(s) : s \in tool.piped} \subseteq Ends
BY ToolType DEF Ours, Theirs, Ends, AllEnds, Read, Write, Streams

\* While the tool may still write, its end of an observed pipe is open.
LEMMA WriterKnown ==
    ASSUME TypeOK, Phases, EndsHeld, parent # "spawn", NEW s \in Observed, NoWriter(s)
    PROVE  child \in {"zombie", "reaped"}
<1>1. s \in tool.piped /\ s # "stdin" /\ Theirs(s) = Write(s)
  BY DEF Observed, Outputs, Theirs
<1>2. Write(s) \notin held["child"]
  BY DEF NoWriter
<1>3. CASE child \in {"started", "running"}
  BY <1>1, <1>2, <1>3 DEF EndsHeld
<1>4. child # "none"
  BY DEF Phases
<1> QED
  BY <1>3, <1>4 DEF TypeOK, ChildPlaces

\* What is written to the other streams, or to this one, when at goes on.
LEMMA WrittenFinite ==
    ASSUME NEW program, NEW n \in Nat, NEW s
    PROVE  /\ IsFiniteSet(WrittenBy(program, n, s))
           /\ Cardinality(WrittenBy(program, n, s)) \in Nat
<1>1. IsFiniteSet(1..n)
  BY FS_Interval
<1>2. IsFiniteSet(WrittenBy(program, n, s))
  BY <1>1, FS_Subset DEF WrittenBy
<1> QED
  BY <1>2, FS_CardinalityType

\* One more write of the program counts for its stream and no other.
LEMMA WrittenNext ==
    ASSUME NEW program, NEW n \in Nat, NEW s
    PROVE  Cardinality(WrittenBy(program, n + 1, s))
               = Cardinality(WrittenBy(program, n, s)) + (IF s = program[n + 1] THEN 1 ELSE 0)
<1> DEFINE Before == WrittenBy(program, n, s)
<1>1. IsFiniteSet(Before) /\ Cardinality(Before) \in Nat
  BY WrittenFinite
<1>2. CASE s = program[n + 1]
  <2>1. WrittenBy(program, n + 1, s) = Before \union {n + 1}
    BY <1>2 DEF WrittenBy
  <2>2. n + 1 \notin Before
    BY DEF WrittenBy
  <2>3. Cardinality(Before \union {n + 1}) = Cardinality(Before) + 1
    BY <1>1, <2>2, FS_AddElement
  <2> QED
    BY <1>1, <1>2, <2>1, <2>3
<1>3. CASE s # program[n + 1]
  <2>1. WrittenBy(program, n + 1, s) = Before
    BY <1>3 DEF WrittenBy
  <2> QED
    BY <1>1, <1>3, <2>1
<1> QED
  BY <1>2, <1>3

-----------------------------------------------------------------------------
(* The invariant holds at first, and every step keeps it.                  *)

\* Before the child is started nothing is open or written.
LEMMA AtFirst == InitPipes => PipesInv
<1> SUFFICES ASSUME InitPipes PROVE PipesInv
  OBVIOUS
<1>1. tool \in Tools
  BY DEF InitPipes
<1>2. TypeOK
  <2>1. 1 \in 1..Len(tool.program) + 1 /\ 0 \in 0..PipeSize
    BY <1>1, ToolType
  <2>2. blocks \in [Streams -> 0..PipeSize] /\ buffer \in [Outputs -> Nat]
    BY <2>1 DEF InitPipes
  <2>3. held \in [{"parent", "child"} -> SUBSET AllEnds] /\ revents \in [Outputs -> EventSets]
    BY DEF InitPipes, EventSets
  <2>4. /\ parent \in ParentPlaces /\ child \in ChildPlaces /\ at \in 1..Len(tool.program) + 1
        /\ polled \in SUBSET Observed /\ reading \in SUBSET Observed
        /\ exit_code \in {"", ExitCode(tool.ends)}
    BY <2>1 DEF InitPipes, ParentPlaces, ChildPlaces
  <2> QED
    BY <1>1, <2>2, <2>3, <2>4 DEF TypeOK
<1>3. Phases
  BY DEF InitPipes, Phases
<1>4. EndsHeld
  BY DEF InitPipes, EndsHeld
<1>5. NothingLost
  <2> SUFFICES ASSUME NEW s \in Observed PROVE buffer[s] + blocks[s] = Cardinality(WrittenTo(s))
    BY DEF NothingLost
  <2>1. WrittenTo(s) = {}
    <3>1. at = 1
      BY DEF InitPipes
    <3>2. 1..at - 1 = {}
      BY <3>1
    <3> QED
      BY <3>2 DEF WrittenTo, WrittenBy
  <2>2. buffer[s] = 0 /\ blocks[s] = 0
    BY DEF InitPipes, Observed, Outputs, Streams
  <2> QED
    BY <2>1, <2>2, FS_EmptySet
<1>6. Leaving
  BY DEF InitPipes, Leaving, Ahead
<1> QED
  BY <1>2, <1>3, <1>4, <1>5, <1>6 DEF PipesInv

\* Every step keeps the types.
LEMMA TypeStep == PipesInv /\ [NextPipes]_pipes => TypeOK'
<1> SUFFICES ASSUME PipesInv, [NextPipes]_pipes PROVE TypeOK'
  OBVIOUS
<1> USE DEF PipesInv, ParentPlaces, ChildPlaces
<1>t. tool \in Tools /\ tool' = tool /\ Observed' = Observed
  <2>1. tool' = tool
    BY DEF NextPipes, ToolStep, ParentStep, ReaderStep, pipes, StartTool, WriteBlock, ReadInput, EndTool,
           Spawn, StartPolling, Poll, PollingEnds, StartReaders, JoinReaders, WaitForTool, ClosePipes,
           StartReading, LeaveStream, ReadBlock, ReadEnds
  <2>2. Observed' = Observed
    BY <2>1 DEF Observed
  <2> QED
    BY <2>1, <2>2 DEF TypeOK
<1>n. Len(tool.program) \in Nat /\ PipeSize \in Nat
  BY <1>t, ToolType
<1>a. at \in 1..Len(tool.program) + 1 /\ at <= Len(tool.program) => at + 1 \in 1..Len(tool.program) + 1
  <2>1. \A n \in Nat : \A k \in 1..n + 1 : k <= n => k + 1 \in 1..n + 1
    OBVIOUS
  <2> QED
    BY <1>n, <2>1
<1>0. CASE UNCHANGED pipes
  BY <1>0, <1>t DEF TypeOK, pipes
<1>1. CASE StartTool \/ EndTool \/ Spawn \/ ClosePipes
  <2>1. /\ {Ours(s) : s \in tool.piped} \in SUBSET AllEnds
        /\ {Theirs(s) : s \in tool.piped} \in SUBSET AllEnds
        /\ Ends \in SUBSET AllEnds
    BY <1>t, EndsType
  <2>2. held \in [{"parent", "child"} -> SUBSET AllEnds]
    BY DEF TypeOK
  <2>3. held' \in [{"parent", "child"} -> SUBSET AllEnds]
    <3>1. CASE StartTool \/ EndTool
      BY <2>1, <2>2, <3>1 DEF StartTool, EndTool
    <3>2. CASE Spawn
      BY <2>1, <3>2 DEF Spawn
    <3>3. CASE ClosePipes
      BY <2>2, <3>3 DEF ClosePipes
    <3> QED
      BY <1>1, <3>1, <3>2, <3>3
  <2> QED
    BY <1>1, <1>t, <2>3 DEF TypeOK, StartTool, EndTool, Spawn, ClosePipes
<1>2. ASSUME NEW s \in Outputs, WriteBlock(s) PROVE TypeOK'
  <2>1. s \in Streams /\ blocks \in [Streams -> 0..PipeSize] /\ blocks[s] \in 0..PipeSize
    BY DEF TypeOK, Outputs, Streams
  <2>2. Piped(s) => blocks[s] + 1 \in 0..PipeSize
    BY <1>2, <1>n, <2>1 DEF WriteBlock
  <2>3. blocks' \in [Streams -> 0..PipeSize]
    BY <1>2, <2>1, <2>2 DEF WriteBlock
  <2>4. at' \in 1..Len(tool.program) + 1
    BY <1>2, <1>a DEF TypeOK, WriteBlock
  <2> QED
    BY <1>2, <1>t, <2>3, <2>4 DEF TypeOK, WriteBlock
<1>3. CASE ReadInput
  <2>1. at' \in 1..Len(tool.program) + 1
    BY <1>3, <1>a DEF TypeOK, ReadInput
  <2> QED
    BY <1>3, <1>t, <2>1 DEF TypeOK, ReadInput
<1>4. CASE StartPolling \/ StartReaders
  BY <1>4, <1>t DEF TypeOK, StartPolling, StartReaders, Observed
<1>5. CASE Poll
  <2>1. revents' \in [Outputs -> EventSets]
    BY <1>5 DEF Poll, Events, EventSets
  <2> QED
    BY <1>5, <1>t, <2>1 DEF TypeOK, Poll
<1>6. CASE PollingEnds \/ JoinReaders
  BY <1>6, <1>t DEF TypeOK, PollingEnds, JoinReaders
<1>7. CASE WaitForTool
  BY <1>7, <1>t, ToolType DEF TypeOK, WaitForTool
<1>8. ASSUME NEW s \in Outputs, StartReading(s) PROVE TypeOK'
  <2>1. s \in polled
    BY <1>8 DEF StartReading, Leaving, Ahead
  <2> QED
    BY <1>8, <1>t, <2>1 DEF TypeOK, StartReading, EventSets
<1>9. ASSUME NEW s \in Outputs, LeaveStream(s) PROVE TypeOK'
  BY <1>9, <1>t DEF TypeOK, LeaveStream
<1>10. ASSUME NEW s \in Outputs, ReadBlock(s) PROVE TypeOK'
  <2>1. s \in Streams /\ blocks \in [Streams -> 0..PipeSize] /\ blocks[s] \in 0..PipeSize
        /\ buffer \in [Outputs -> Nat] /\ buffer[s] \in Nat
    BY DEF TypeOK, Outputs, Streams
  <2>2. blocks[s] - 1 \in 0..PipeSize /\ buffer[s] + 1 \in Nat
    BY <1>10, <1>n, <2>1 DEF ReadBlock
  <2>3. blocks' \in [Streams -> 0..PipeSize] /\ buffer' \in [Outputs -> Nat]
    BY <1>10, <2>1, <2>2 DEF ReadBlock
  <2> QED
    BY <1>10, <1>t, <2>3 DEF TypeOK, ReadBlock
<1>11. ASSUME NEW s \in Outputs, ReadEnds(s) PROVE TypeOK'
  BY <1>11, <1>t DEF TypeOK, ReadEnds
<1> QED
  BY <1>0, <1>1, <1>2, <1>3, <1>4, <1>5, <1>6, <1>7, <1>8, <1>9, <1>10, <1>11
  DEF NextPipes, ToolStep, ParentStep, ReaderStep

\* The tool that is run is chosen at the start.
LEMMA SameTool == [NextPipes]_pipes => tool' = tool
BY DEF NextPipes, ToolStep, ParentStep, ReaderStep, pipes, StartTool, WriteBlock, ReadInput, EndTool,
       Spawn, StartPolling, Poll, PollingEnds, StartReaders, JoinReaders, WaitForTool, ClosePipes,
       StartReading, LeaveStream, ReadBlock, ReadEnds

\* The child starts with the fork and is reaped by the wait.
LEMMA PhasesStep == PipesInv /\ [NextPipes]_pipes => Phases'
<1> SUFFICES ASSUME PipesInv, [NextPipes]_pipes PROVE Phases'
  OBVIOUS
<1>t. tool' = tool
  BY SameTool
<1>n. Len(tool.program) \in Nat /\ at \in 1..Len(tool.program) + 1
  BY ToolType DEF PipesInv, TypeOK
<1> USE DEF PipesInv, Phases
<1>0. CASE UNCHANGED pipes
  BY <1>0 DEF pipes
<1>1. CASE StartTool \/ Spawn
  BY <1>1, <1>t DEF StartTool, Spawn
<1>2. CASE EndTool
  <2>1. at = Len(tool.program) + 1
    BY <1>2, <1>n DEF EndTool
  <2> QED
    BY <1>2, <1>t, <2>1 DEF EndTool
<1>3. ASSUME NEW s \in Outputs, WriteBlock(s) \/ ReadInput PROVE Phases'
  BY <1>3, <1>t DEF WriteBlock, ReadInput
<1>4. CASE StartPolling \/ Poll \/ PollingEnds \/ StartReaders \/ JoinReaders
  BY <1>4, <1>t DEF StartPolling, Poll, PollingEnds, StartReaders, JoinReaders
<1>5. CASE WaitForTool \/ ClosePipes
  BY <1>5, <1>t DEF WaitForTool, ClosePipes
<1>6. ASSUME NEW s \in Outputs, StartReading(s) \/ LeaveStream(s) PROVE Phases'
  BY <1>6, <1>t DEF StartReading, LeaveStream, Outputs
<1>7. ASSUME NEW s \in Outputs, ReadBlock(s) \/ ReadEnds(s) PROVE Phases'
  BY <1>7, <1>t DEF ReadBlock, ReadEnds
<1>8. ReadInput => Phases'
  BY <1>3 DEF Outputs
<1> QED
  BY <1>0, <1>1, <1>2, <1>3, <1>4, <1>5, <1>6, <1>7, <1>8
  DEF NextPipes, ToolStep, ParentStep, ReaderStep

\* The child closes the parent's ends and the parent those of the child; both
\* let go of what they hold when they end.
LEMMA EndsHeldStep == PipesInv /\ [NextPipes]_pipes => EndsHeld'
<1> SUFFICES ASSUME PipesInv, [NextPipes]_pipes PROVE EndsHeld'
  OBVIOUS
<1> DEFINE OurEnds == {Ours(s) : s \in tool.piped}
           TheirEnds == {Theirs(s) : s \in tool.piped}
<1>t. tool' = tool /\ OurEnds' = OurEnds /\ TheirEnds' = TheirEnds
  <2>1. tool' = tool
    BY SameTool
  <2> QED
    BY <2>1 DEF Ours, Theirs, Read, Write
<1>h. /\ held \in [{"parent", "child"} -> SUBSET AllEnds]
      /\ TheirEnds \subseteq Ends
  BY EndsType DEF PipesInv, TypeOK
<1>i. Phases /\ EndsHeld /\ TypeOK
  BY DEF PipesInv
<1>e. EndsHeld' <=>
         /\ held'["parent"] = IF parent' \in {"spawn", "done"} THEN {} ELSE OurEnds
         /\ child' = "started" => TheirEnds \subseteq held'["child"]
         /\ child' = "running" => held'["child"] = TheirEnds
         /\ child' \in {"none", "zombie", "reaped"} => held'["child"] = {}
  BY <1>t DEF EndsHeld
<1>f. EndsHeld <=>
         /\ held["parent"] = IF parent \in {"spawn", "done"} THEN {} ELSE OurEnds
         /\ child = "started" => TheirEnds \subseteq held["child"]
         /\ child = "running" => held["child"] = TheirEnds
         /\ child \in {"none", "zombie", "reaped"} => held["child"] = {}
  BY DEF EndsHeld
<1> HIDE DEF OurEnds, TheirEnds
<1>0. CASE UNCHANGED <<held, child, parent>>
  BY <1>0, <1>e, <1>f, <1>i
<1>1. CASE Spawn
  <2>1. held' = [parent |-> OurEnds, child |-> IF tool.platform = "windows" THEN TheirEnds ELSE Ends]
        /\ child' = "started" /\ parent' = "start"
    BY <1>1 DEF Spawn, OurEnds, TheirEnds
  <2> QED
    BY <1>e, <1>h, <2>1
<1>2. CASE StartTool
  <2>1. held' = [held EXCEPT !["child"] = TheirEnds] /\ child' = "running" /\ parent' = parent
    BY <1>2 DEF StartTool, TheirEnds
  <2> QED
    BY <1>e, <1>f, <1>h, <1>i, <2>1
<1>3. CASE EndTool
  <2>1. held' = [held EXCEPT !["child"] = {}] /\ child' = "zombie" /\ parent' = parent
    BY <1>3 DEF EndTool
  <2> QED
    BY <1>e, <1>f, <1>h, <1>i, <2>1
<1>4. CASE ClosePipes
  <2>1. /\ held' = [held EXCEPT !["parent"] = @ \ OurEnds]
        /\ child' = child /\ parent = "close" /\ parent' = "done"
    BY <1>4 DEF ClosePipes, OurEnds
  <2>2. held'["parent"] = {} /\ held'["child"] = held["child"]
    BY <1>f, <1>h, <1>i, <2>1
  <2> QED
    BY <1>e, <1>f, <1>i, <2>1, <2>2
<1>5. CASE WaitForTool
  BY <1>5, <1>e, <1>f, <1>i DEF WaitForTool
<1>6. CASE StartPolling \/ Poll \/ PollingEnds \/ StartReaders \/ JoinReaders
  BY <1>6, <1>e, <1>f, <1>i DEF StartPolling, Poll, PollingEnds, StartReaders, JoinReaders
<1>7. ASSUME NEW s \in Outputs, LeaveStream(s) PROVE EndsHeld'
  BY <1>7, <1>e, <1>f, <1>i DEF LeaveStream, Outputs
<1>8. ASSUME NEW s \in Outputs, WriteBlock(s) \/ ReadInput \/ StartReading(s) \/ ReadBlock(s) \/ ReadEnds(s)
      PROVE  EndsHeld'
  BY <1>8, <1>0 DEF WriteBlock, ReadInput, StartReading, ReadBlock, ReadEnds
<1>9. ReadInput => EndsHeld'
  BY <1>8 DEF Outputs
<1>10. UNCHANGED pipes => EndsHeld'
  BY <1>0 DEF pipes
<1> QED
  BY <1>1, <1>2, <1>3, <1>4, <1>5, <1>6, <1>7, <1>8, <1>9, <1>10
  DEF NextPipes, ToolStep, ParentStep, ReaderStep

\* A block that the tool writes goes into the pipe, and one that is taken out
\* of it goes into the buffer.
LEMMA NothingLostStep == PipesInv /\ [NextPipes]_pipes => NothingLost'
<1> SUFFICES ASSUME PipesInv, [NextPipes]_pipes PROVE NothingLost'
  OBVIOUS
<1>t. tool \in Tools /\ tool' = tool /\ Observed' = Observed
  BY SameTool DEF PipesInv, TypeOK, Observed
<1>n. /\ at \in Nat \ {0}
      /\ \A s \in Observed : /\ s \in Outputs /\ s \in Streams /\ s \in tool.piped
                             /\ blocks[s] \in Nat /\ buffer[s] \in Nat
                             /\ buffer[s] + blocks[s] = Cardinality(WrittenTo(s))
  <2>1. at \in Nat \ {0}
    <3>1. \A m \in Nat : 1..m + 1 \subseteq Nat \ {0}
      OBVIOUS
    <3>2. Len(tool.program) \in Nat /\ at \in 1..Len(tool.program) + 1
      BY <1>t, ToolType DEF PipesInv, TypeOK
    <3> QED
      BY <3>1, <3>2
  <2>2. PipeSize \in Nat
    BY <1>t, ToolType
  <2>3. ASSUME NEW s \in Observed PROVE s \in Outputs /\ s \in Streams /\ s \in tool.piped
    BY DEF Observed, Outputs, Streams
  <2>4. ASSUME NEW s \in Observed PROVE blocks[s] \in Nat /\ buffer[s] \in Nat
    <3>1. blocks \in [Streams -> 0..PipeSize] /\ buffer \in [Outputs -> Nat]
      BY DEF PipesInv, TypeOK
    <3>2. blocks[s] \in 0..PipeSize /\ buffer[s] \in Nat
      BY <2>3, <3>1
    <3> QED
      BY <2>2, <3>2
  <2> QED
    BY <2>1, <2>3, <2>4 DEF PipesInv, NothingLost
<1>0. CASE UNCHANGED <<at, blocks, buffer>>
  <2>1. \A s : WrittenTo(s)' = WrittenTo(s)
    BY <1>0, <1>t DEF WrittenTo
  <2> QED
    BY <1>0, <1>t, <1>n, <2>1 DEF NothingLost
<1>w. ASSUME at' = at + 1, NEW s
      PROVE  Cardinality(WrittenTo(s)') = Cardinality(WrittenTo(s)) + (IF s = tool.program[at] THEN 1 ELSE 0)
  <2>1. PICK n \in Nat : at = n + 1
    <3>1. at - 1 \in Nat /\ at = (at - 1) + 1
      BY <1>n
    <3> QED
      BY <3>1
  <2>2. WrittenTo(s) = WrittenBy(tool.program, n, s)
    BY <2>1 DEF WrittenTo
  <2>3. at' - 1 = n + 1
    BY <1>w, <2>1
  <2>4. WrittenTo(s)' = WrittenBy(tool.program, n + 1, s)
    BY <1>t, <2>3 DEF WrittenTo
  <2> QED
    BY <2>1, <2>2, <2>4, WrittenNext
<1>1. ASSUME NEW s \in Outputs, WriteBlock(s) PROVE NothingLost'
  <2> SUFFICES ASSUME NEW r \in Observed
               PROVE  buffer'[r] + blocks'[r] = Cardinality(WrittenTo(r)')
    BY <1>t DEF NothingLost
  <2>1. at' = at + 1 /\ tool.program[at] = s /\ buffer' = buffer
    BY <1>1 DEF WriteBlock
  <2>2. blocks'[r] = blocks[r] + (IF r = s THEN 1 ELSE 0)
    <3>1. blocks \in [Streams -> 0..PipeSize] /\ r \in Streams
      BY <1>n DEF PipesInv, TypeOK
    <3>2. CASE Piped(s)
      BY <1>1, <1>n, <3>1, <3>2 DEF WriteBlock
    <3>3. CASE ~Piped(s)
      BY <1>1, <1>n, <3>1, <3>3 DEF WriteBlock, Piped
    <3> QED
      BY <3>2, <3>3
  <2>3. Cardinality(WrittenTo(r)') = Cardinality(WrittenTo(r)) + (IF r = s THEN 1 ELSE 0)
    BY <1>w, <2>1
  <2> QED
    BY <1>n, <2>1, <2>2, <2>3
<1>2. CASE ReadInput
  <2> SUFFICES ASSUME NEW r \in Observed
               PROVE  buffer'[r] + blocks'[r] = Cardinality(WrittenTo(r)')
    BY <1>t DEF NothingLost
  <2>1. at' = at + 1 /\ tool.program[at] = "stdin" /\ buffer' = buffer /\ blocks' = blocks
    BY <1>2 DEF ReadInput
  <2>2. r # "stdin"
    BY <1>n DEF Outputs
  <2>3. Cardinality(WrittenTo(r)') = Cardinality(WrittenTo(r)) + 0
    BY <1>w, <2>1, <2>2
  <2> QED
    BY <1>n, <2>1, <2>3
<1>3. ASSUME NEW s \in Outputs, ReadBlock(s) PROVE NothingLost'
  <2> SUFFICES ASSUME NEW r \in Observed
               PROVE  buffer'[r] + blocks'[r] = Cardinality(WrittenTo(r)')
    BY <1>t DEF NothingLost
  <2>1. /\ at' = at /\ blocks' = [blocks EXCEPT ![s] = blocks[s] - 1]
        /\ buffer' = [buffer EXCEPT ![s] = buffer[s] + 1]
    BY <1>3 DEF ReadBlock
  <2>2. WrittenTo(r)' = WrittenTo(r)
    BY <1>t, <2>1 DEF WrittenTo
  <2>3. r \in Streams /\ blocks \in [Streams -> 0..PipeSize] /\ r \in Outputs /\ buffer \in [Outputs -> Nat]
    BY <1>n DEF PipesInv, TypeOK
  <2>4. blocks'[r] = (IF r = s THEN blocks[r] - 1 ELSE blocks[r])
        /\ buffer'[r] = (IF r = s THEN buffer[r] + 1 ELSE buffer[r])
    BY <2>1, <2>3
  <2>5. /\ blocks[r] \in Nat /\ buffer[r] \in Nat
        /\ buffer[r] + blocks[r] = Cardinality(WrittenTo(r))
    BY <1>n
  <2>6. buffer'[r] + blocks'[r] = buffer[r] + blocks[r]
    BY <2>4, <2>5
  <2> QED
    BY <2>2, <2>5, <2>6
<1>4. CASE StartTool \/ EndTool \/ Spawn \/ StartPolling \/ Poll \/ PollingEnds \/ StartReaders
           \/ JoinReaders \/ WaitForTool \/ ClosePipes
  BY <1>0, <1>4 DEF StartTool, EndTool, Spawn, StartPolling, Poll, PollingEnds, StartReaders, JoinReaders,
                    WaitForTool, ClosePipes
<1>5. ASSUME NEW s \in Outputs, StartReading(s) \/ LeaveStream(s) \/ ReadEnds(s) PROVE NothingLost'
  BY <1>0, <1>5 DEF StartReading, LeaveStream, ReadEnds
<1>6. UNCHANGED pipes => NothingLost'
  BY <1>0 DEF pipes
<1> QED
  BY <1>1, <1>2, <1>3, <1>4, <1>5, <1>6
  DEF NextPipes, ToolStep, ParentStep, ReaderStep

\* What is drained stays drained.
LEMMA DrainedStep ==
    ASSUME PipesInv, [NextPipes]_pipes, NEW s \in Observed, Drained(s)
    PROVE  Drained(s)'
<1> USE DEF Drained
<1>1. CASE UNCHANGED <<blocks, child>> \/ WaitForTool
  BY <1>1 DEF WaitForTool
<1>2. CASE StartTool \/ EndTool \/ Spawn
  BY <1>2 DEF StartTool, EndTool, Spawn, PipesInv, Phases
<1>3. ASSUME NEW r \in Outputs, WriteBlock(r) PROVE FALSE
  BY <1>3 DEF WriteBlock
<1>4. ASSUME NEW r \in Outputs, ReadBlock(r) PROVE Drained(s)'
  <2>1. r # s
    BY <1>4 DEF ReadBlock
  <2>2. blocks \in [Streams -> 0..PipeSize] /\ s \in Streams
    BY DEF PipesInv, TypeOK, Observed, Outputs, Streams
  <2> QED
    BY <1>4, <2>1, <2>2 DEF ReadBlock
<1>5. CASE ReadInput \/ StartPolling \/ Poll \/ PollingEnds \/ StartReaders \/ JoinReaders \/ ClosePipes \/ UNCHANGED pipes
  BY <1>1, <1>5 DEF ReadInput, StartPolling, Poll, PollingEnds, StartReaders, JoinReaders, ClosePipes, pipes
<1>6. ASSUME NEW r \in Outputs, StartReading(r) \/ LeaveStream(r) \/ ReadEnds(r) PROVE Drained(s)'
  BY <1>1, <1>6 DEF StartReading, LeaveStream, ReadEnds
<1> QED
  BY <1>1, <1>2, <1>3, <1>4, <1>5, <1>6
  DEF NextPipes, ToolStep, ParentStep, ReaderStep

\* A stream is left when it has ended: the event of a stream without the writer
\* and without a block says so, or it was read to its end.
LEMMA LeavingStep == PipesInv /\ [NextPipes]_pipes => Leaving'
<1> SUFFICES ASSUME PipesInv, [NextPipes]_pipes PROVE Leaving'
  OBVIOUS
<1>t. tool' = tool /\ Observed' = Observed
  BY SameTool DEF Observed
<1>d. \A s \in Observed : Drained(s) => Drained(s)'
  BY DrainedStep
<1>r. /\ polled \in SUBSET Observed /\ reading \in SUBSET Observed /\ Observed \subseteq Outputs
      /\ revents \in [Outputs -> EventSets]
  BY DEF PipesInv, TypeOK, Observed
<1>l. Leaving
  BY DEF PipesInv
<1>k. \A s \in Observed : blocks[s] = 0 /\ NoWriter(s) /\ parent # "spawn" => Drained(s)
  BY WriterKnown DEF PipesInv, Drained
<1>0. CASE UNCHANGED <<parent, polled, revents, reading>>
  BY <1>0, <1>d, <1>l, <1>r, <1>t DEF Leaving, Ahead
<1>1. CASE Spawn
  <2>1. parent = "spawn" /\ parent' = "start" /\ reading' = reading
    BY <1>1 DEF Spawn
  <2>2. reading = {}
    BY <1>l, <1>r, <2>1 DEF Leaving, Outputs
  <2>3. \A s \in Outputs : ~Ahead(s)'
    BY <2>1 DEF Ahead, Outputs
  <2> QED
    BY <2>1, <2>2, <2>3 DEF Leaving
<1>2. CASE StartPolling
  <2>1. parent = "start" /\ parent' = "poll" /\ reading' = reading /\ polled' = Observed
    BY <1>2 DEF StartPolling, Observed
  <2>2. reading = {}
    BY <1>l, <1>r, <2>1 DEF Leaving, Outputs
  <2>3. \A s \in Outputs : ~Ahead(s)'
    BY <2>1 DEF Ahead, Outputs
  <2> QED
    BY <1>t, <2>1, <2>2, <2>3 DEF Leaving
<1>3. CASE Poll
  <2>1. parent = "poll" /\ parent' = "stdout" /\ polled' = polled /\ reading' = reading
        /\ revents' = [s \in Outputs |-> Events(s)]
    BY <1>3 DEF Poll
  <2>2. ASSUME NEW s \in Outputs, revents'[s] # {} PROVE s \in polled
    BY <2>1, <2>2 DEF Events
  <2>3. ASSUME NEW s \in Outputs, revents'[s] = {"POLLHUP"} PROVE Drained(s)'
    <3>1. s \in polled /\ Events(s) = {"POLLHUP"}
      BY <2>1, <2>2, <2>3
    <3>2. "POLLIN" \notin Events(s) /\ "POLLHUP" \in Events(s)
      BY <3>1
    <3>3. ~(blocks[s] > 0) /\ NoWriter(s)
      BY <3>1, <3>2 DEF Events
    <3>4. s \in Streams /\ blocks \in [Streams -> 0..PipeSize] /\ PipeSize \in Nat
      BY ToolType DEF PipesInv, TypeOK, Outputs, Streams
    <3>5. blocks[s] = 0
      BY <3>3, <3>4
    <3> QED
      BY <1>d, <1>k, <1>r, <2>1, <3>1, <3>3, <3>5
  <2>4. \A s \in Observed : s \in polled \/ Drained(s)'
    BY <1>d, <1>l, <2>1 DEF Leaving
  <2>5. reading = {}
    BY <1>l, <1>r, <2>1 DEF Leaving, Outputs
  <2> QED
    BY <1>t, <2>1, <2>2, <2>3, <2>4, <2>5 DEF Leaving
<1>4. CASE PollingEnds
  BY <1>4, <1>d, <1>l, <1>r, <1>t DEF PollingEnds, Leaving, Ahead, Outputs
<1>5. ASSUME NEW s \in Outputs, StartReading(s) PROVE Leaving'
  <2>1. /\ parent = s /\ parent' = s /\ reading' = {s} /\ polled' = polled
        /\ revents' = [revents EXCEPT ![s] = {"POLLHUP"}] /\ "POLLIN" \in revents[s]
    BY <1>5 DEF StartReading
  <2>2. s \in polled
    BY <1>l, <2>1 DEF Leaving, Ahead
  <2>3. \A r \in Outputs : r # s => revents'[r] = revents[r]
    BY <1>r, <2>1
  <2>4. revents'[s] = {"POLLHUP"}
    BY <1>r, <2>1
  <2>5. reading = {}
    BY <1>5 DEF StartReading
  <2>6. \A r \in Outputs : Ahead(r)' =>
           /\ revents'[r] # {} => r \in polled'
           /\ revents'[r] = {"POLLHUP"} => r \in reading' \/ Drained(r)'
    <3> SUFFICES ASSUME NEW r \in Outputs, Ahead(r), r # s
                 PROVE  /\ revents[r] # {} => r \in polled
                        /\ revents[r] = {"POLLHUP"} => Drained(r)'
      BY <2>1, <2>2, <2>3, <2>4 DEF Ahead
    <3> QED
      BY <1>d, <1>l, <1>r, <2>5 DEF Leaving
  <2>7. \A r \in Observed : r \in polled' \/ Drained(r)'
    BY <1>d, <1>l, <2>1 DEF Leaving, Outputs
  <2> QED
    BY <1>t, <2>1, <2>6, <2>7 DEF Leaving, Outputs
<1>6. ASSUME NEW s \in Outputs, LeaveStream(s) PROVE Leaving'
  <2>1. /\ parent = s /\ reading = {} /\ reading' = {} /\ revents' = revents
        /\ parent' = (IF s = "stdout" THEN "stderr" ELSE "poll") /\ "POLLIN" \notin revents[s]
        /\ polled' = IF revents[s] # {} THEN polled \ {s} ELSE polled
    BY <1>6 DEF LeaveStream
  <2>2. revents[s] # {} => revents[s] = {"POLLHUP"}
    BY <1>r, <2>1 DEF EventSets
  <2>3. revents[s] # {} => Drained(s) /\ s \in Observed
    BY <1>l, <1>r, <2>1, <2>2 DEF Leaving, Ahead
  <2>4. \A r \in Observed : r \in polled' \/ Drained(r)'
    BY <1>d, <1>l, <2>1, <2>3 DEF Leaving, Outputs
  <2>5. \A r \in Outputs : Ahead(r)' => r # s /\ Ahead(r)
    BY <2>1 DEF Ahead, Outputs
  <2>6. \A r \in Outputs : Ahead(r)' =>
           /\ revents'[r] # {} => r \in polled'
           /\ revents'[r] = {"POLLHUP"} => r \in reading' \/ Drained(r)'
    BY <1>d, <1>l, <1>r, <2>1, <2>5 DEF Leaving
  <2>7. parent' \in {"stderr", "poll"}
    BY <2>1
  <2> QED
    BY <1>t, <2>1, <2>4, <2>6, <2>7 DEF Leaving
<1>7. ASSUME NEW s \in Outputs, ReadEnds(s) PROVE Leaving'
  <2>1. s \in reading /\ blocks[s] = 0 /\ NoWriter(s) /\ reading' = reading \ {s}
        /\ parent' = parent /\ polled' = polled /\ revents' = revents
    BY <1>7 DEF ReadEnds
  <2>2. parent # "spawn"
    BY <1>l, <2>1 DEF Leaving, Outputs
  <2>3. s \in Observed /\ Drained(s)'
    BY <1>d, <1>k, <1>r, <2>1, <2>2
  <2> QED
    BY <1>d, <1>l, <1>r, <1>t, <2>1, <2>3 DEF Leaving, Ahead
<1>8. CASE StartReaders
  BY <1>8, <1>l, <1>t DEF StartReaders, Leaving, Ahead, Observed, Outputs
<1>9. CASE JoinReaders
  BY <1>9, <1>d, <1>l, <1>r, <1>t DEF JoinReaders, Leaving, Ahead, Outputs
<1>10. CASE WaitForTool \/ ClosePipes
  BY <1>10, <1>d, <1>l, <1>r, <1>t DEF WaitForTool, ClosePipes, Leaving, Ahead, Outputs
<1>11. CASE StartTool \/ ReadInput \/ EndTool \/ UNCHANGED pipes
  BY <1>0, <1>11 DEF StartTool, ReadInput, EndTool, pipes
<1>12. ASSUME NEW s \in Outputs, WriteBlock(s) \/ ReadBlock(s) PROVE Leaving'
  BY <1>0, <1>12 DEF WriteBlock, ReadBlock
<1> QED
  BY <1>1, <1>2, <1>3, <1>4, <1>5, <1>6, <1>7, <1>8, <1>9, <1>10, <1>11, <1>12
  DEF NextPipes, ToolStep, ParentStep, ReaderStep

-----------------------------------------------------------------------------
(* The theorems.                                                           *)

\* The inductive invariant holds throughout.
LEMMA PipesInvariance == SpecPipes => []PipesInv
<1>1. PipesInv /\ [NextPipes]_pipes => PipesInv'
  BY TypeStep, PhasesStep, EndsHeldStep, NothingLostStep, LeavingStep DEF PipesInv
<1> QED
  BY <1>1, AtFirst, PTL DEF SpecPipes

\* The types, and that a pipe never holds more than it can (ProcessPipes).
THEOREM TypeCorrect == SpecPipes => []TypeOK
<1>1. PipesInv => TypeOK
  BY DEF PipesInv
<1> QED
  BY <1>1, PipesInvariance, PTL

\* When wait returns, for every tool and every size of a pipe: the buffers hold
\* all that the tool wrote, its exit code says whether it succeeded, and no end
\* of a pipe is open (Process::wait, Process::read_to_end).
THEOREM OutputAlwaysComplete == SpecPipes => []OutputComplete
<1>1. PipesInv => OutputComplete
  <2> SUFFICES ASSUME PipesInv, parent = "done"
               PROVE  /\ child = "reaped"
                      /\ \A s \in tool.piped \cap Outputs : buffer[s] = Wrote(s)
                      /\ exit_code = "0" <=> tool.ends = "0"
                      /\ held["parent"] = {}
    BY DEF OutputComplete
  <2>1. child = "reaped" /\ at = Len(tool.program) + 1 /\ exit_code = ExitCode(tool.ends)
    BY DEF PipesInv, Phases
  <2>2. held["parent"] = {}
    BY DEF PipesInv, EndsHeld
  <2>3. exit_code = "0" <=> tool.ends = "0"
    BY <2>1 DEF ExitCode, WEXITSTATUS
  <2>4. ASSUME NEW s \in Observed PROVE buffer[s] = Wrote(s)
    <3>1. blocks[s] = 0 /\ s \in Outputs
      BY DEF PipesInv, Leaving, Drained, Observed
    <3>2. buffer[s] \in Nat /\ buffer[s] + 0 = Cardinality(WrittenTo(s))
      BY <3>1 DEF PipesInv, NothingLost, TypeOK
    <3>3. tool.program \in Seq(Streams) /\ Len(tool.program) \in Nat
      BY ToolType DEF PipesInv, TypeOK
    <3>4. 1..at - 1 = DOMAIN tool.program
      BY <2>1, <3>3
    <3>5. WrittenTo(s) = {k \in DOMAIN tool.program : tool.program[k] = s}
      BY <3>4 DEF WrittenTo, WrittenBy
    <3> QED
      BY <3>2, <3>5 DEF Wrote
  <2> QED
    BY <2>1, <2>2, <2>3, <2>4 DEF Observed
<1> QED
  BY <1>1, PipesInvariance, PTL

(***************************************************************************)
(* The commands.                                                           *)
(***************************************************************************)

-----------------------------------------------------------------------------
(* Greatest and least elements.                                            *)

\* A non-empty set of natural numbers has a least one.
LEMMA LeastNumber ==
    ASSUME NEW S, S \subseteq Nat, S # {}
    PROVE  \E k \in S : \A l \in S : k <= l
<1> DEFINE R == {p \in Nat \X Nat : p[1] < p[2]}
<1>1. OpToRel(<, Nat) = R
  BY DEF OpToRel
<1>2. IsWellFoundedOn(R, Nat)
  BY <1>1, NatLessThanWellFounded
<1>3. \A l, k \in Nat : l < k => <<l, k>> \in R
  OBVIOUS
<1> HIDE DEF R
<1>4. PICK k \in S : \A l \in S : ~(<<l, k>> \in R)
  BY <1>2, WFMin, ZenonT(30)
<1>5. \A l \in S : ~(l < k)
  BY <1>3, <1>4
<1> QED
  BY <1>4, <1>5

\* A successor is positive.
LEMMA Successor == \A k \in Nat : k + 1 > 0
OBVIOUS

\* The greatest of a set is the one that is chosen.
LEMMA GreatestIs ==
    ASSUME NEW S, S \subseteq Nat, NEW i \in S, \A j \in S : j <= i
    PROVE  (CHOOSE k \in S : \A j \in S : j <= k) = i
<1> DEFINE x == CHOOSE k \in S : \A j \in S : j <= k
<1>1. x \in S /\ \A j \in S : j <= x
  OBVIOUS
<1>2. x <= i /\ i <= x /\ x \in Nat /\ i \in Nat
  BY <1>1
<1> HIDE DEF x
<1>3. x = i
  BY <1>2
<1> QED
  BY <1>3 DEF x

\* Nothing is none of these texts.
LEMMA NoneIs == None \notin {"0", "1", "2", "help", "error", "debug", "release", "target", "config", "opt-level", "hot-reload"}
BY DEF None

-----------------------------------------------------------------------------
(* Reading the arguments: what was parsed of a command line agrees with    *)
(* what its tokens say, one token after the other.                         *)

\* Row n is made from row n - 1: by a token or by appending a sequence.
Row(kind, s, n, prev) ==
    IF kind = "parse" THEN (IF n = 0 THEN StartParsing ELSE ParseToken(prev, s[n]))
    ELSE IF n = 1 THEN s[n] ELSE prev \o s[n]
First(kind) == IF kind = "parse" THEN 0 ELSE 1
Rows(kind, s, g, last) == g = [n \in First(kind)..last |-> Row(kind, s, n, g[n - 1])]

\* These recursions have a solution.
LEMMA RowsExist ==
    ASSUME NEW kind, NEW s, NEW last \in Nat
    PROVE  \E g : Rows(kind, s, g, last)
<1> DEFINE first == First(kind)
           S == {l \in Nat : ~\E g : Rows(kind, s, g, l)}
           R(m, x) == Row(kind, s, m, x)
<1>0. first \in {0, 1}
  BY DEF First
<1>1. \A x, y : R(first, x) = R(first, y)
  BY DEF Row, First
<1> HIDE DEF first
<1>2. \E g : Rows(kind, s, g, 0)
  <2> HIDE DEF R
  <2> DEFINE g == [m \in first..0 |-> R(first, "none")]
  <2>1. \A m \in first..0 : R(first, "none") = R(m, g[m - 1])
    <3>1. \A m \in first..0 : m = first
      BY <1>0
    <3> HIDE DEF g
    <3> QED
      BY <1>1, <3>1
  <2> HIDE DEF g
  <2>2. g = [m \in first..0 |-> R(first, "none")]
    BY DEF g
  <2>3. g = [m \in first..0 |-> R(m, g[m - 1])]
    BY <2>1, <2>2
  <2> QED
    BY <2>3 DEF Rows, R, first
<1>3. ASSUME NEW l \in Nat, NEW h, Rows(kind, s, h, l)
      PROVE  \E g : Rows(kind, s, g, l + 1)
  <2>0. \A m \in first..l : h[m] = R(m, h[m - 1])
    BY <1>3 DEF Rows, first
  <2> HIDE DEF R
  <2>1. PICK g : g = [m \in first..(l + 1) |-> IF m = l + 1 THEN R(l + 1, h[l]) ELSE h[m]]
    OBVIOUS
  <2>2. \A m \in first..l : g[m] = h[m] /\ h[m] = R(m, h[m - 1])
    BY <1>0, <2>0, <2>1
  <2>3. ASSUME NEW m \in first..(l + 1) PROVE g[m] = R(m, g[m - 1])
    <3>1. CASE m = first
      <4>1. \A x : R(m, x) = R(first, x)
        BY <3>1
      <4>2. CASE first = l + 1
        BY <1>0, <1>1, <2>1, <3>1, <4>2
      <4>3. CASE first # l + 1
        <5>1. m \in first..l
          BY <1>0, <3>1, <4>3
        <5> QED
          BY <1>1, <2>2, <3>1, <5>1
      <4> QED
        BY <4>2, <4>3
    <3>2. CASE m # first /\ m = l + 1
      <4>1. l \in first..l
        BY <1>0, <3>2
      <4>2. g[m] = R(l + 1, h[l]) /\ g[l] = h[l] /\ m - 1 = l
        BY <2>1, <2>2, <3>2, <4>1
      <4> QED
        BY <3>2, <4>2
    <3>3. CASE m # first /\ m # l + 1
      <4>1. m \in first..l /\ m - 1 \in first..l
        BY <1>0, <3>3
      <4>2. g[m] = R(m, h[m - 1]) /\ g[m - 1] = h[m - 1]
        BY <2>2, <4>1
      <4> QED
        BY <4>2
    <3> QED
      BY <3>1, <3>2, <3>3
  <2>4. g = [m \in first..(l + 1) |-> g[m]]
    BY <2>1
  <2>5. g = [m \in first..(l + 1) |-> R(m, g[m - 1])]
    BY <2>3, <2>4
  <2> QED
    BY <2>5 DEF Rows, R, first
<1>4. S = {}
  <2> SUFFICES ASSUME S # {} PROVE FALSE
    OBVIOUS
  <2>1. PICK l \in S : \A j \in S : l <= j
    BY LeastNumber
  <2>2. l \in Nat \ {0}
    BY <1>2
  <2>3. \E h : Rows(kind, s, h, l - 1)
    BY <2>1, <2>2
  <2>4. \E g : Rows(kind, s, g, (l - 1) + 1)
    BY <1>3, <2>2, <2>3
  <2> QED
    BY <2>2, <2>4
<1> QED
  BY <1>4

\* The states s between the tokens of a command line.
Between(argv, s) ==
    /\ parse[argv] = ParsingEnds(s[Len(argv)])
    /\ s[0] = StartParsing
    /\ \A k \in 1..Len(argv) : s[k] = ParseToken(s[k - 1], argv[k])

\* A command line consists of tokens.
LEMMA LinesType ==
    ASSUME NEW argv \in CommandLines
    PROVE  argv \in Seq(Tokens) /\ Len(argv) \in Nat /\ DOMAIN argv = 1..Len(argv)
<1>1. PICK h \in Histories : argv \in Range(h.lines)
  BY DEF CommandLines
<1>2. h.lines \in Seq(Seq(Tokens))
  BY HistoriesAssumption
<1>3. argv \in Seq(Tokens)
  BY <1>1, <1>2 DEF Range
<1> QED
  BY <1>3

\* parse goes through the tokens.
LEMMA ParseIs ==
    ASSUME NEW argv \in CommandLines
    PROVE  \E s : Between(argv, s)
<1> DEFINE last == Len(argv)
           After(g) == g = [k \in 0..last |-> IF k = 0 THEN StartParsing ELSE ParseToken(g[k - 1], argv[k])]
           s == CHOOSE g : After(g)
<1>1. parse[argv] = ParsingEnds(s[last])
  BY DEF parse
<1>2. last \in Nat
  BY LinesType
<1>3. \E g : After(g)
  <2>1. PICK g : Rows("parse", argv, g, last)
    BY <1>2, RowsExist
  <2>2. g = [k \in 0..last |-> IF k = 0 THEN StartParsing ELSE ParseToken(g[k - 1], argv[k])]
    BY <2>1 DEF Rows, Row, First
  <2> QED
    BY <2>2
<1>4. After(s)
  BY <1>3
<1> HIDE DEF s
<1>5. \A k \in 0..last : s[k] = IF k = 0 THEN StartParsing ELSE ParseToken(s[k - 1], argv[k])
  BY <1>4
<1>6. 0 \in 0..last /\ \A k \in 1..last : k \in 0..last /\ k # 0
  BY <1>2
<1> HIDE DEF last
<1>7. s[0] = StartParsing /\ \A k \in 1..last : s[k] = ParseToken(s[k - 1], argv[k])
  BY <1>5, <1>6
<1> QED
  BY <1>1, <1>7 DEF last, Between

OptionNames == {"help", "version", "quiet", "verbose", "target", "config", "opt-level", "force-asm", "hot-reload",
                "debug-compiler", "generator", "include"}
Values == [name : OptionNames, token : Tokens]
ParseState(p) ==
    /\ DOMAIN p = {"stop", "global", "command", "options", "positional", "awaiting"}
    /\ p.stop \in {None, "help", "error"}
    /\ p.global \in Seq(Values) /\ p.options \in Seq(Values)
    /\ p.awaiting \in OptionNames \cup {None}

\* The options and their letters.
Takes(o, name, letter) == o.name = name /\ o.letter = letter /\ o.value
Flag(o, name, letter) == o.name = name /\ o.letter = letter /\ ~o.value

\* Every option is one of the twelve, with its letter and its kind.
LEMMA OptionsType ==
    ASSUME NEW o \in Options
    PROVE  /\ o.name \in OptionNames
           /\ o.name \in {"target", "config", "opt-level"} => o.letter = None /\ o.value
           /\ o.name = "hot-reload" => o.letter = None /\ ~o.value
<1>1. \A n, l : Takes(Option(n, l, TRUE), n, l) /\ Flag(Option(n, l, FALSE), n, l)
  BY Zenon DEF Option, Takes, Flag
<1>2. \/ Flag(o, "help", "h") \/ Flag(o, "version", "V") \/ Flag(o, "quiet", "q") \/ Flag(o, "verbose", "v")
      \/ Takes(o, "target", None) \/ Takes(o, "config", None) \/ Takes(o, "opt-level", None) \/ Flag(o, "force-asm", None)
      \/ Flag(o, "hot-reload", None) \/ Flag(o, "debug-compiler", None) \/ Takes(o, "generator", "g") \/ Takes(o, "include", "I")
  BY <1>1, Zenon DEF Options
<1> QED
  BY <1>2 DEF Takes, Flag, OptionNames

\* Appending a value to the options.
LEMMA WithOptionIs ==
    ASSUME NEW p, ParseState(p), NEW name \in OptionNames, NEW token \in Tokens
    PROVE  LET q == WithOption(p, name, token)
               v == [name |-> name, token |-> token]
           IN /\ ParseState(q)
              /\ q.stop = p.stop /\ q.command = p.command /\ q.awaiting = None
              /\ p.command = None => q.options = p.options
              /\ p.command # None => q.options = Append(p.options, v)
<1> DEFINE v == [name |-> name, token |-> token]
           more == Append(p.options, v)
           moreGlobal == Append(p.global, v)
<1>1. v \in Values
  BY DEF Values
<1>2. p.options \in Seq(Values) /\ p.global \in Seq(Values)
  BY DEF ParseState
<1>3. more \in Seq(Values) /\ moreGlobal \in Seq(Values)
  BY <1>1, <1>2
<1> HIDE DEF v
<1>4. CASE p.command = None
  <2>1. WithOption(p, name, token) = [p EXCEPT !.global = moreGlobal, !.awaiting = None]
    BY <1>4 DEF WithOption, v
  <2> HIDE DEF more, moreGlobal
  <2> QED
    BY <1>3, <1>4, <2>1 DEF ParseState
<1>5. CASE p.command # None
  <2>1. WithOption(p, name, token) = [p EXCEPT !.options = more, !.awaiting = None]
    BY <1>5 DEF WithOption, v
  <2> HIDE DEF more, moreGlobal
  <2>2. ParseState(WithOption(p, name, token))
    BY <1>3, <2>1 DEF ParseState
  <2>3. /\ WithOption(p, name, token).stop = p.stop /\ WithOption(p, name, token).command = p.command
        /\ WithOption(p, name, token).awaiting = None /\ WithOption(p, name, token).options = more
    BY <2>1 DEF ParseState
  <2> QED
    BY <1>5, <2>2, <2>3 DEF v, more
<1> QED
  BY <1>4, <1>5

\* A letter with an attached value gives the value as a token.
LEMMA AttachedType ==
    ASSUME NEW token \in Tokens, token.attached # None
    PROVE  [token EXCEPT !.text = token.attached] \in Tokens
BY DEF Tokens

\* A word or an option leads from one state to another.
LEMMA ParseTokenType ==
    ASSUME NEW p, ParseState(p), NEW token \in Tokens
    PROVE  ParseState(ParseToken(p, token))
<1>1. ParseState(Failed(p))
  BY NoneIs DEF Failed, ParseState
<1>2. \A n \in OptionNames : ParseState(WithOption(p, n, token))
  BY WithOptionIs
<1>3. ParseState(parse_option(p, token))
  <2> DEFINE o == CHOOSE x \in find_option(p, token) : TRUE
  <2>1. CASE find_option(p, token) = {}
    BY <1>1, <2>1 DEF parse_option
  <2>2. CASE find_option(p, token) # {}
    <3>1. o \in find_option(p, token)
      BY <2>2
    <3>2. o \in Options
      BY <3>1 DEF find_option
    <3>3. o.name \in OptionNames
      BY <3>2, OptionsType
    <3> HIDE DEF o
    <3>4. token.attached # None => ParseState(WithOption(p, o.name, [token EXCEPT !.text = token.attached]))
      BY <3>3, AttachedType, WithOptionIs
    <3>5. ParseState([p EXCEPT !.awaiting = o.name])
      BY <3>3 DEF ParseState
    <3> QED
      BY <1>1, <1>2, <2>2, <3>3, <3>4, <3>5 DEF parse_option, o
  <2> QED
    BY <2>1, <2>2
<1>5. ParseState(parse_command(p, token))
  BY <1>1 DEF parse_command, ParseState
<1>6. ParseState([p EXCEPT !.positional = token])
  BY DEF ParseState
<1>7. p.awaiting # None => p.awaiting \in OptionNames
  BY DEF ParseState
<1> QED
  BY <1>1, <1>2, <1>3, <1>5, <1>6, <1>7 DEF ParseToken

-----------------------------------------------------------------------------
(* What the options of a command hold.                                     *)
Valued == {"target", "config", "opt-level"}
Kept == Valued \cup {"hot-reload"}
IsLong(token, name) == token.form = "long" /\ token.text = name

\* The last option of a name has the value token, as parsed and as written.
OptionLast(options, name, token) ==
    \E i \in DOMAIN options :
        /\ options[i].name = name /\ options[i].token = token
        /\ \A j \in DOMAIN options : i < j => options[j].name # name
ArgumentLast(argv, k, name, token) ==
    \E i \in 1..k - 1 : /\ IsLong(argv[i], name) /\ argv[i + 1] = token
                        /\ \A j \in i + 1..k : ~IsLong(argv[j], name)
Without(options, argv, k, name) ==
    /\ \A i \in DOMAIN options : options[i].name # name
    /\ \A i \in 1..k : ~IsLong(argv[i], name)
ValueAgrees(options, argv, k, name) ==
    \/ Without(options, argv, k, name)
    \/ \E token \in Tokens : OptionLast(options, name, token) /\ ArgumentLast(argv, k, name, token)
FlagAgrees(options, argv, k, name) ==
    (\E i \in DOMAIN options : options[i].name = name) <=> (\E i \in 1..k : IsLong(argv[i], name))

\* What is parsed of the first k tokens agrees with them.
Agrees(argv, p, k) ==
    p.stop = None =>
        /\ p.awaiting # "hot-reload"
        /\ p.command = None => p.awaiting \notin Kept
        /\ \A name \in Valued :
              IF p.awaiting = name THEN k > 0 /\ IsLong(argv[k], name) ELSE ValueAgrees(p.options, argv, k, name)
        /\ FlagAgrees(p.options, argv, k, "hot-reload")

\* A token that is not about an option changes nothing for it.
LEMMA OtherToken ==
    ASSUME NEW options, NEW argv, NEW k \in Nat, NEW name, ~IsLong(argv[k + 1], name)
    PROVE  /\ ValueAgrees(options, argv, k, name) => ValueAgrees(options, argv, k + 1, name)
           /\ FlagAgrees(options, argv, k, name) => FlagAgrees(options, argv, k + 1, name)
<1>1. \A i \in 1..k + 1 : i = k + 1 \/ i \in 1..k
  OBVIOUS
<1>2. Without(options, argv, k, name) => Without(options, argv, k + 1, name)
  BY <1>1 DEF Without
<1>3. ASSUME NEW token \in Tokens, ArgumentLast(argv, k, name, token) PROVE ArgumentLast(argv, k + 1, name, token)
  <2>1. PICK i \in 1..k - 1 : /\ IsLong(argv[i], name) /\ argv[i + 1] = token
                              /\ \A j \in i + 1..k : ~IsLong(argv[j], name)
    BY <1>3 DEF ArgumentLast
  <2>2. i \in 1..(k + 1) - 1
    OBVIOUS
  <2>3. \A j \in i + 1..k + 1 : j = k + 1 \/ j \in i + 1..k
    OBVIOUS
  <2>4. \A j \in i + 1..k + 1 : ~IsLong(argv[j], name)
    BY <2>1, <2>3
  <2> QED
    BY <2>1, <2>2, <2>4 DEF ArgumentLast
<1>4. FlagAgrees(options, argv, k, name) => FlagAgrees(options, argv, k + 1, name)
  <2>1. (\E i \in 1..k + 1 : IsLong(argv[i], name)) <=> (\E i \in 1..k : IsLong(argv[i], name))
    BY <1>1
  <2> QED
    BY <2>1 DEF FlagAgrees
<1> QED
  BY <1>2, <1>3, <1>4 DEF ValueAgrees

\* Neither does a value of another option.
LEMMA OtherValue ==
    ASSUME NEW options \in Seq(Values), NEW argv, NEW k \in Nat, NEW name, NEW v, v.name # name
    PROVE  /\ ValueAgrees(options, argv, k, name) => ValueAgrees(Append(options, v), argv, k, name)
           /\ FlagAgrees(options, argv, k, name) => FlagAgrees(Append(options, v), argv, k, name)
<1> DEFINE more == Append(options, v)
           last == Len(options)
<1>1. /\ last \in Nat /\ DOMAIN options = 1..last /\ DOMAIN more = 1..last + 1
      /\ more[last + 1] = v /\ \A i \in 1..last : more[i] = options[i]
  OBVIOUS
<1> HIDE DEF more, last
<1>2. \A i \in DOMAIN more : (i \in DOMAIN options /\ more[i] = options[i]) \/ more[i] = v
  BY <1>1
<1>3. \A i \in DOMAIN options : i \in DOMAIN more /\ more[i] = options[i]
  BY <1>1
<1>4. Without(options, argv, k, name) => Without(more, argv, k, name)
  BY <1>2 DEF Without
<1>5. ASSUME NEW token \in Tokens, OptionLast(options, name, token) PROVE OptionLast(more, name, token)
  BY <1>2, <1>3, <1>5 DEF OptionLast
<1>6. FlagAgrees(options, argv, k, name) => FlagAgrees(more, argv, k, name)
  BY <1>2, <1>3 DEF FlagAgrees
<1> QED
  BY <1>4, <1>5, <1>6 DEF ValueAgrees, more

\* The value that an option waits for is its last one.
LEMMA LastValue ==
    ASSUME NEW options \in Seq(Values), NEW argv, NEW k \in Nat, k > 0, NEW name, IsLong(argv[k], name),
           ~IsLong(argv[k + 1], name), argv[k + 1] \in Tokens
    PROVE  ValueAgrees(Append(options, [name |-> name, token |-> argv[k + 1]]), argv, k + 1, name)
<1> DEFINE v == [name |-> name, token |-> argv[k + 1]]
           more == Append(options, v)
           last == Len(options)
<1>1. last \in Nat /\ DOMAIN more = 1..last + 1 /\ more[last + 1] = v
  OBVIOUS
<1>2. v.name = name /\ v.token = argv[k + 1]
  OBVIOUS
<1> HIDE DEF more, last, v
<1>3. OptionLast(more, name, argv[k + 1])
  <2>1. last + 1 \in DOMAIN more /\ \A j \in DOMAIN more : ~(last + 1 < j)
    BY <1>1
  <2> QED
    BY <1>1, <1>2, <2>1 DEF OptionLast
<1>4. ArgumentLast(argv, k + 1, name, argv[k + 1])
  <2>1. k \in 1..(k + 1) - 1 /\ \A j \in k + 1..k + 1 : j = k + 1
    OBVIOUS
  <2> QED
    BY <2>1 DEF ArgumentLast
<1> QED
  BY <1>3, <1>4 DEF ValueAgrees, more, v

\* A flag is both parsed and written.
LEMMA FlagFound ==
    ASSUME NEW options \in Seq(Values), NEW argv, NEW k \in Nat, NEW name, NEW v, v.name = name, IsLong(argv[k + 1], name)
    PROVE  FlagAgrees(Append(options, v), argv, k + 1, name)
<1> DEFINE more == Append(options, v)
           last == Len(options)
<1>1. last \in Nat /\ DOMAIN more = 1..last + 1 /\ more[last + 1] = v
  OBVIOUS
<1> HIDE DEF more, last
<1>2. last + 1 \in DOMAIN more /\ more[last + 1].name = name
  BY <1>1
<1>3. k + 1 \in 1..k + 1
  OBVIOUS
<1> QED
  BY <1>2, <1>3 DEF FlagAgrees, more

\* A word is taken as the value that is waited for.
LEMMA WordAgrees ==
    ASSUME NEW argv, NEW k \in Nat, NEW p, ParseState(p), Agrees(argv, p, k), argv[k + 1] \in Tokens,
           p.stop = None, p.awaiting # None, argv[k + 1].form = "word"
    PROVE  Agrees(argv, WithOption(p, p.awaiting, argv[k + 1]), k + 1)
<1> DEFINE token == argv[k + 1]
           name == p.awaiting
           v == [name |-> name, token |-> token]
           q == WithOption(p, name, token)
<1>1. name \in OptionNames
  BY DEF ParseState
<1>2. /\ q.stop = p.stop /\ q.command = p.command /\ q.awaiting = None
      /\ p.command = None => q.options = p.options
      /\ p.command # None => q.options = Append(p.options, v)
  BY <1>1, WithOptionIs
<1>3. \A n : ~IsLong(token, n)
  BY DEF IsLong
<1>4. v.name = name
  OBVIOUS
<1>5. name # "hot-reload" /\ (p.command = None => name \notin Kept) /\ p.options \in Seq(Values)
  BY DEF Agrees, ParseState
<1> HIDE DEF q, v
<1>6. FlagAgrees(q.options, argv, k + 1, "hot-reload")
  <2>1. FlagAgrees(p.options, argv, k, "hot-reload")
    BY DEF Agrees
  <2>2. FlagAgrees(q.options, argv, k, "hot-reload")
    BY <1>2, <1>4, <1>5, <2>1, OtherValue
  <2> QED
    BY <1>3, <2>2, OtherToken
<1>7. ASSUME NEW n \in Valued PROVE ValueAgrees(q.options, argv, k + 1, n)
  <2>1. CASE name = n
    <3>1. k > 0 /\ IsLong(argv[k], n)
      BY <2>1 DEF Agrees
    <3>2. q.options = Append(p.options, v)
      BY <1>2, <1>5, <2>1 DEF Kept
    <3> QED
      BY <1>3, <1>5, <2>1, <3>1, <3>2, LastValue DEF v
  <2>2. CASE name # n
    <3>1. ValueAgrees(p.options, argv, k, n)
      BY <2>2 DEF Agrees
    <3>2. ValueAgrees(q.options, argv, k, n)
      BY <1>2, <1>4, <1>5, <2>2, <3>1, OtherValue
    <3> QED
      BY <1>3, <3>2, OtherToken
  <2> QED
    BY <2>1, <2>2
<1>8. None \notin Kept
  BY NoneIs DEF Kept, Valued
<1>9. \A n \in Valued : q.awaiting # n
  BY <1>2, <1>8 DEF Kept
<1> QED
  BY <1>2, <1>6, <1>7, <1>8, <1>9, NoneIs DEF Agrees, q

\* A state that has failed or asks for help agrees with everything.
LEMMA StoppedAgrees ==
    ASSUME NEW argv, NEW k, NEW p, p.stop # None
    PROVE  Agrees(argv, p, k)
BY DEF Agrees

\* The option that a token names.
Found(p, token, o) ==
    /\ o \in find_option(p, token)
    /\ parse_option(p, token) =
         IF token.form = "letter" /\ token.attached # None
            THEN IF o.value THEN WithOption(p, o.name, [token EXCEPT !.text = token.attached]) ELSE Failed(p)
         ELSE IF o.value THEN [p EXCEPT !.awaiting = o.name]
         ELSE WithOption(p, o.name, token)

\* A token that names an option is parsed as that option, another fails.
LEMMA FoundOption ==
    ASSUME NEW p, NEW token, find_option(p, token) # {}
    PROVE  \E o : Found(p, token, o)
<1> DEFINE o == CHOOSE x \in find_option(p, token) : TRUE
<1>1. o \in find_option(p, token)
  OBVIOUS
<1>2. parse_option(p, token) =
         IF token.form = "letter" /\ token.attached # None
            THEN IF o.value THEN WithOption(p, o.name, [token EXCEPT !.text = token.attached]) ELSE Failed(p)
         ELSE IF o.value THEN [p EXCEPT !.awaiting = o.name]
         ELSE WithOption(p, o.name, token)
  BY DEF parse_option
<1> QED
  BY <1>1, <1>2 DEF Found

\* The option that a token names is the one that it is about.
LEMMA FoundNames ==
    ASSUME NEW p, NEW token \in Tokens, token.form # "word", NEW o, Found(p, token, o)
    PROVE  /\ o.name \in OptionNames
           /\ p.command = None => o.name \notin Kept
           /\ \A n \in Kept : IsLong(token, n) <=> o.name = n
           /\ o.name \in Valued => o.value
           /\ o.name = "hot-reload" => ~o.value
           /\ o.name \in Kept => token.form = "long"
<1>1. /\ o \in Options
      /\ p.command = None => o.name \in Common \cup {"version"}
      /\ IF token.form = "long" THEN o.name = token.text ELSE o.letter = token.text
  BY DEF Found, find_option
<1>2. /\ o.name \in OptionNames
      /\ o.name \in Valued => o.letter = None /\ o.value
      /\ o.name = "hot-reload" => o.letter = None /\ ~o.value
  BY <1>1, OptionsType DEF Valued
<1>3. p.command = None => o.name \notin Kept
  BY <1>1 DEF Common, Kept, Valued
<1>4. token.form # "long" => token.text # None
  BY DEF Tokens
<1>5. token.form # "long" => o.name \notin Kept
  BY <1>1, <1>2, <1>4 DEF Kept
<1> QED
  BY <1>1, <1>2, <1>3, <1>5 DEF IsLong

\* An option with its value attached is none of those that are followed.
LEMMA ValueAgreesOn ==
    ASSUME NEW argv, NEW k \in Nat, NEW p, ParseState(p), Agrees(argv, p, k), p.stop = None, p.awaiting = None,
           NEW options, NEW v, v.name \notin Valued, options = p.options \/ options = Append(p.options, v),
           \A n \in Valued : ~IsLong(argv[k + 1], n)
    PROVE  \A n \in Valued : ValueAgrees(options, argv, k + 1, n)
<1> SUFFICES ASSUME NEW n \in Valued PROVE ValueAgrees(options, argv, k + 1, n)
  OBVIOUS
<1>1. n # None /\ v.name # n
  BY NoneIs DEF Valued
<1>2. ValueAgrees(p.options, argv, k, n)
  BY <1>1 DEF Agrees
<1>3. p.options \in Seq(Values)
  BY DEF ParseState
<1>4. ValueAgrees(options, argv, k, n)
  BY <1>1, <1>2, <1>3, OtherValue
<1> QED
  BY <1>4, OtherToken

\* An option without a value is kept.
LEMMA FlagKept ==
    ASSUME NEW argv, NEW k \in Nat, NEW p, ParseState(p), Agrees(argv, p, k), p.stop = None, p.awaiting = None,
           argv[k + 1] \in Tokens, NEW name \in OptionNames, name \notin Valued, NEW token \in Tokens,
           \A n \in Valued : ~IsLong(argv[k + 1], n),
           IsLong(argv[k + 1], "hot-reload") <=> name = "hot-reload",
           p.command = None => name \notin Kept
    PROVE  Agrees(argv, WithOption(p, name, token), k + 1)
<1> DEFINE v == [name |-> name, token |-> token]
           q == WithOption(p, name, token)
<1>1. /\ q.stop = p.stop /\ q.command = p.command /\ q.awaiting = None
      /\ p.command = None => q.options = p.options
      /\ p.command # None => q.options = Append(p.options, v)
  BY WithOptionIs
<1>2. v.name = name
  OBVIOUS
<1> HIDE DEF q, v
<1>3. \A n \in Valued : ValueAgrees(q.options, argv, k + 1, n)
  <2>1. v.name \notin Valued /\ (q.options = p.options \/ q.options = Append(p.options, v))
    BY <1>1, <1>2
  <2> QED
    BY <2>1, ValueAgreesOn
<1>4. p.options \in Seq(Values) /\ FlagAgrees(p.options, argv, k, "hot-reload")
  BY DEF ParseState, Agrees
<1>5. FlagAgrees(q.options, argv, k + 1, "hot-reload")
  <2>1. CASE name = "hot-reload"
    <3>1. q.options = Append(p.options, v)
      BY <1>1, <2>1 DEF Kept
    <3> QED
      BY <1>2, <1>4, <2>1, <3>1, FlagFound
  <2>2. CASE name # "hot-reload"
    <3>1. FlagAgrees(q.options, argv, k, "hot-reload")
      BY <1>1, <1>2, <1>4, <2>2, OtherValue
    <3> QED
      BY <2>2, <3>1, OtherToken
  <2> QED
    BY <2>1, <2>2
<1>6. None \notin Kept
  BY NoneIs DEF Kept, Valued
<1>7. \A n \in Valued : q.awaiting # n
  BY <1>1, <1>6 DEF Kept
<1> QED
  BY <1>1, <1>3, <1>5, <1>6, <1>7 DEF Agrees, q

\* An option that takes the next word waits for it.
LEMMA ValueAwaited ==
    ASSUME NEW argv, NEW k \in Nat, NEW p, ParseState(p), Agrees(argv, p, k), p.stop = None, p.awaiting = None,
           NEW name \in OptionNames, name # "hot-reload",
           \A n \in Kept : IsLong(argv[k + 1], n) <=> name = n,
           p.command = None => name \notin Kept
    PROVE  Agrees(argv, [p EXCEPT !.awaiting = name], k + 1)
<1> DEFINE q == [p EXCEPT !.awaiting = name]
<1>1. q.stop = p.stop /\ q.command = p.command /\ q.awaiting = name /\ q.options = p.options
  BY DEF ParseState
<1> HIDE DEF q
<1>2. FlagAgrees(q.options, argv, k + 1, "hot-reload")
  <2>1. FlagAgrees(p.options, argv, k, "hot-reload")
    BY DEF Agrees
  <2>2. ~IsLong(argv[k + 1], "hot-reload")
    BY DEF Kept
  <2> QED
    BY <1>1, <2>1, <2>2, OtherToken
<1>3. ASSUME NEW n \in Valued
      PROVE  IF name = n THEN k + 1 > 0 /\ IsLong(argv[k + 1], n) ELSE ValueAgrees(q.options, argv, k + 1, n)
  <2>1. n \in Kept /\ n # None
    BY NoneIs DEF Kept, Valued
  <2>2. CASE name = n
    <3>1. k + 1 > 0
      BY Successor, Zenon
    <3>2. IsLong(argv[k + 1], n)
      BY <2>1, <2>2
    <3> QED
      BY <2>2, <3>1, <3>2
  <2>3. CASE name # n
    <3>1. ValueAgrees(p.options, argv, k, n)
      BY <2>1 DEF Agrees
    <3>2. ~IsLong(argv[k + 1], n)
      BY <2>1, <2>3
    <3> QED
      BY <1>1, <2>3, <3>1, <3>2, OtherToken
  <2> QED
    BY <2>2, <2>3
<1> QED
  BY <1>1, <1>2, <1>3 DEF Agrees, q

\* An option leads from one state that agrees to another.
LEMMA OptionAgrees ==
    ASSUME NEW argv, NEW k \in Nat, NEW p, ParseState(p), Agrees(argv, p, k), argv[k + 1] \in Tokens,
           p.stop = None, p.awaiting = None, argv[k + 1].form # "word"
    PROVE  Agrees(argv, parse_option(p, argv[k + 1]), k + 1)
<1> DEFINE token == argv[k + 1]
<1>1. Agrees(argv, Failed(p), k + 1)
  <2>1. Failed(p).stop # None
    BY NoneIs DEF Failed, ParseState
  <2> QED
    BY <2>1, StoppedAgrees
<1>2. CASE find_option(p, token) = {}
  BY <1>1, <1>2 DEF parse_option
<1>3. CASE find_option(p, token) # {}
  <2>1. PICK o : Found(p, token, o)
    BY <1>3, FoundOption
  <2>2. /\ o.name \in OptionNames
        /\ p.command = None => o.name \notin Kept
        /\ \A n \in Kept : IsLong(token, n) <=> o.name = n
        /\ o.name \in Valued => o.value
        /\ o.name = "hot-reload" => ~o.value
        /\ o.name \in Kept => token.form = "long"
    BY <2>1, FoundNames
  <2>3. "hot-reload" \in Kept /\ Valued \subseteq Kept
    BY DEF Kept
  <2>4. CASE token.form = "letter" /\ token.attached # None /\ o.value
    <3> DEFINE given == [token EXCEPT !.text = token.attached]
    <3>1. parse_option(p, token) = WithOption(p, o.name, given)
      BY <2>1, <2>4 DEF Found
    <3>2. given \in Tokens
      BY <2>4, AttachedType
    <3>3. o.name \notin Kept
      BY <2>2, <2>4
    <3> HIDE DEF given
    <3>4. o.name \notin Valued /\ \A n \in Valued : ~IsLong(token, n)
      BY <2>2, <2>3, <3>3
    <3>5. IsLong(token, "hot-reload") <=> o.name = "hot-reload"
      BY <2>2, <2>3
    <3>6. Agrees(argv, WithOption(p, o.name, given), k + 1)
      BY <2>2, <3>2, <3>3, <3>4, <3>5, FlagKept
    <3> QED
      BY <3>1, <3>6
  <2>5. CASE token.form = "letter" /\ token.attached # None /\ ~o.value
    <3>1. parse_option(p, token) = Failed(p)
      BY <2>1, <2>5 DEF Found
    <3> QED
      BY <1>1, <3>1
  <2>6. CASE ~(token.form = "letter" /\ token.attached # None) /\ o.value
    <3>1. parse_option(p, token) = [p EXCEPT !.awaiting = o.name]
      BY <2>1, <2>6 DEF Found
    <3>2. o.name # "hot-reload"
      BY <2>2, <2>6
    <3>3. Agrees(argv, [p EXCEPT !.awaiting = o.name], k + 1)
      BY <2>2, <3>2, ValueAwaited
    <3> QED
      BY <3>1, <3>3
  <2>7. CASE ~(token.form = "letter" /\ token.attached # None) /\ ~o.value
    <3>1. parse_option(p, token) = WithOption(p, o.name, token)
      BY <2>1, <2>7 DEF Found
    <3>2. o.name \notin Valued
      BY <2>2, <2>7
    <3>3. \A n \in Valued : ~IsLong(token, n)
      BY <2>2, <2>3, <3>2
    <3>4. IsLong(token, "hot-reload") <=> o.name = "hot-reload"
      BY <2>2, <2>3
    <3>5. Agrees(argv, WithOption(p, o.name, token), k + 1)
      BY <2>2, <3>2, <3>3, <3>4, FlagKept
    <3> QED
      BY <3>1, <3>5
  <2> QED
    BY <2>4, <2>5, <2>6, <2>7
<1> QED
  BY <1>2, <1>3

\* A word that is no value changes nothing for the options.
LEMMA WordIgnored ==
    ASSUME NEW argv, NEW k \in Nat, NEW p, Agrees(argv, p, k), argv[k + 1].form = "word",
           p.stop = None, p.awaiting = None,
           NEW q, q.options = p.options, q.awaiting = None
    PROVE  Agrees(argv, q, k + 1)
<1>1. \A n : ~IsLong(argv[k + 1], n)
  BY DEF IsLong
<1>2. None \notin Kept /\ Valued \subseteq Kept
  BY NoneIs DEF Kept, Valued
<1>3. FlagAgrees(q.options, argv, k + 1, "hot-reload")
  <2>1. FlagAgrees(p.options, argv, k, "hot-reload")
    BY DEF Agrees
  <2> QED
    BY <1>1, <2>1, OtherToken
<1>4. ASSUME NEW n \in Valued PROVE ValueAgrees(q.options, argv, k + 1, n)
  <2>1. ValueAgrees(p.options, argv, k, n)
    BY <1>2 DEF Agrees
  <2> QED
    BY <1>1, <2>1, OtherToken
<1>5. \A n \in Valued : q.awaiting # n
  BY <1>2
<1> QED
  BY <1>2, <1>3, <1>4, <1>5 DEF Agrees

\* Every token leads from one state that agrees to another.
LEMMA TokenAgrees ==
    ASSUME NEW argv, NEW k \in Nat, NEW p, ParseState(p), Agrees(argv, p, k), argv[k + 1] \in Tokens
    PROVE  Agrees(argv, ParseToken(p, argv[k + 1]), k + 1)
<1> DEFINE token == argv[k + 1]
<1>1. Agrees(argv, Failed(p), k + 1)
  <2>1. Failed(p).stop # None
    BY NoneIs DEF Failed, ParseState
  <2> QED
    BY <2>1, StoppedAgrees
<1>2. CASE p.stop # None
  BY <1>2, StoppedAgrees DEF ParseToken
<1>3. CASE p.stop = None /\ p.awaiting # None
  BY <1>1, <1>3, WordAgrees DEF ParseToken
<1>4. CASE p.stop = None /\ p.awaiting = None /\ token.form # "word"
  BY <1>4, OptionAgrees DEF ParseToken
<1>5. CASE p.stop = None /\ p.awaiting = None /\ token.form = "word"
  <2>1. Agrees(argv, parse_command(p, token), k + 1)
    <3>1. CASE contains_help_option(OptionsHere(p))
      <4>1. parse_command(p, token).stop # None
        BY <3>1, NoneIs DEF parse_command, ParseState
      <4> QED
        BY <4>1, StoppedAgrees
    <3>2. CASE ~contains_help_option(OptionsHere(p))
      <4>1. parse_command(p, token) \in {[p EXCEPT !.command = token.text], Failed(p)}
        BY <3>2 DEF parse_command
      <4> DEFINE q == [p EXCEPT !.command = token.text]
      <4>2. q.options = p.options /\ q.awaiting = None
        BY <1>5 DEF ParseState
      <4> HIDE DEF q
      <4>3. Agrees(argv, q, k + 1)
        BY <1>5, <4>2, WordIgnored
      <4> QED
        BY <1>1, <4>1, <4>3 DEF q
    <3> QED
      BY <3>1, <3>2
  <2>2. Agrees(argv, [p EXCEPT !.positional = token], k + 1)
    <3> DEFINE q == [p EXCEPT !.positional = token]
    <3>1. q.options = p.options /\ q.awaiting = None
      BY <1>5 DEF ParseState
    <3> HIDE DEF q
    <3>2. Agrees(argv, q, k + 1)
      BY <1>5, <3>1, WordIgnored
    <3> QED
      BY <3>2 DEF q
  <2> QED
    BY <1>1, <1>5, <2>1, <2>2 DEF ParseToken
<1> QED
  BY <1>2, <1>3, <1>4, <1>5

\* The parsed options agree with the whole command line.
LEMMA ParseAgrees ==
    ASSUME NEW argv \in CommandLines
    PROVE  /\ parse[argv].stop \in {None, "help", "error"}
           /\ parse[argv].stop = None =>
                /\ parse[argv].options \in Seq(Values)
                /\ \A name \in Valued : ValueAgrees(parse[argv].options, argv, Len(argv), name)
                /\ FlagAgrees(parse[argv].options, argv, Len(argv), "hot-reload")
<1> DEFINE last == Len(argv)
           p == parse[argv]
<1>1. argv \in Seq(Tokens) /\ last \in Nat /\ DOMAIN argv = 1..last
  BY LinesType
<1>2. PICK s : Between(argv, s)
  BY ParseIs
<1>3. p = ParsingEnds(s[last]) /\ s[0] = StartParsing /\ \A k \in 1..last : s[k] = ParseToken(s[k - 1], argv[k])
  BY <1>2 DEF Between
<1>4. \A k \in 1..last : argv[k] \in Tokens
  BY <1>1
<1> HIDE DEF last, p
<1> DEFINE Good(k) == ParseState(s[k]) /\ Agrees(argv, s[k], k)
           S == {k \in 0..last : ~Good(k)}
<1>5. Good(0)
  <2> DEFINE q == StartParsing
  <2>1. ParseState(q)
    <3>1. <<>> \in Seq(Values)
      OBVIOUS
    <3> QED
      BY <3>1 DEF ParseState, StartParsing
  <2>2. q.options = <<>> /\ q.awaiting = None /\ q.stop = None
    BY DEF StartParsing
  <2> HIDE DEF q
  <2>3. DOMAIN q.options = {} /\ 1..0 = {}
    <3>1. DOMAIN <<>> = {} /\ 1..0 = {}
      OBVIOUS
    <3> QED
      BY <2>2, <3>1
  <2>4. \A name : ValueAgrees(q.options, argv, 0, name) /\ FlagAgrees(q.options, argv, 0, name)
    BY <2>3 DEF ValueAgrees, FlagAgrees, Without
  <2>5. None \notin Kept /\ \A n \in Valued : n # None
    BY NoneIs DEF Kept, Valued
  <2>6. Agrees(argv, q, 0)
    BY <2>2, <2>4, <2>5, NoneIs DEF Agrees
  <2> QED
    BY <1>3, <2>1, <2>6 DEF q
<1>6. ASSUME NEW k \in 0..last, k # last, Good(k) PROVE Good(k + 1)
  <2>1. k \in Nat /\ k + 1 \in 1..last /\ (k + 1) - 1 = k
    BY <1>1, <1>6
  <2>2. s[k + 1] = ParseToken(s[k], argv[k + 1]) /\ argv[k + 1] \in Tokens
    BY <1>3, <1>4, <2>1
  <2> QED
    BY <1>6, <2>1, <2>2, ParseTokenType, TokenAgrees
<1>7. S = {}
  <2> SUFFICES ASSUME S # {} PROVE FALSE
    OBVIOUS
  <2>1. S \subseteq Nat
    OBVIOUS
  <2>2. PICK l \in S : \A j \in S : l <= j
    BY <2>1, LeastNumber
  <2> HIDE DEF Good
  <2>3. l \in 0..last /\ ~Good(l)
    BY <2>2
  <2>4. l # 0
    BY <1>5, <2>3
  <2>5. l - 1 \in 0..last /\ l - 1 # last /\ (l - 1) + 1 = l
    BY <1>1, <2>3, <2>4
  <2>6. l - 1 \notin S
    BY <2>2, <2>5
  <2>7. Good(l - 1)
    BY <2>5, <2>6
  <2>8. Good((l - 1) + 1)
    BY <1>6, <2>5, <2>7
  <2> QED
    BY <2>3, <2>5, <2>8
<1>8. Good(last)
  <2>1. last \in 0..last
    BY <1>1
  <2> HIDE DEF Good
  <2> QED
    BY <1>7, <2>1
<1>9. ParseState(s[last]) /\ Agrees(argv, s[last], last)
  BY <1>8
<1> DEFINE q == s[last]
<1> HIDE DEF S, Good, q
<1>10. ParseState(q) /\ Agrees(argv, q, last) /\ p = ParsingEnds(q)
  BY <1>3, <1>9 DEF q
<1>11. p.stop \in {None, "help", "error"}
  BY <1>10, NoneIs DEF ParsingEnds, ParseState, Failed
<1>12. p.stop = None => p = q /\ q.awaiting = None /\ q.stop = None
  BY <1>10, NoneIs DEF ParsingEnds, ParseState, Failed
<1>13. p.stop = None => p.options \in Seq(Values) /\ FlagAgrees(p.options, argv, last, "hot-reload")
  BY <1>10, <1>12 DEF Agrees, ParseState
<1>14. \A n \in Valued : n # None
  BY NoneIs DEF Valued
<1>15. p.stop = None => \A n \in Valued : ValueAgrees(p.options, argv, last, n)
  BY <1>10, <1>12, <1>14 DEF Agrees
<1> QED
  BY <1>11, <1>13, <1>15 DEF p, last

\* The value of an option is the word after the last one of that name.
LEMMA SettingAsked ==
    ASSUME NEW argv \in CommandLines, parse[argv].stop = None, NEW name \in Valued
    PROVE  Setting(parse[argv], name) = Asked(argv, name)
<1> DEFINE p == parse[argv]
           last == Len(argv)
<1>1. last \in Nat /\ DOMAIN argv = 1..last /\ p.options \in Seq(Values) /\ ValueAgrees(p.options, argv, last, name)
  BY LinesType, ParseAgrees
<1> HIDE DEF p, last
<1>2. \A k : (argv[k].form = "long" /\ argv[k].text = name) <=> IsLong(argv[k], name)
  BY DEF IsLong
<1>3. CASE Without(p.options, argv, last, name)
  <2>1. Setting(p, name) = NoToken
    BY <1>3 DEF Setting, Without
  <2>2. Asked(argv, name) = NoToken
    BY <1>1, <1>2, <1>3 DEF Asked, Without
  <2> QED
    BY <2>1, <2>2 DEF p
<1>4. DOMAIN p.options \subseteq Nat /\ DOMAIN argv \subseteq Nat
  BY <1>1
<1>5. \A l \in 1..last - 1 : l \in 1..last /\ \A j \in 1..last : j <= l \/ j \in l + 1..last
  BY <1>1
<1>6. ASSUME NEW token, OptionLast(p.options, name, token) PROVE Setting(p, name) = token
  <2> DEFINE found == {k \in DOMAIN p.options : p.options[k].name = name}
  <2>1. PICK i \in DOMAIN p.options :
            /\ p.options[i].name = name /\ p.options[i].token = token
            /\ \A j \in DOMAIN p.options : i < j => p.options[j].name # name
    BY <1>6 DEF OptionLast
  <2>2. \A j \in DOMAIN p.options : j <= i \/ i < j
    BY <1>4
  <2>3. found \subseteq Nat /\ i \in found /\ \A j \in found : j <= i
    BY <1>4, <2>1, <2>2
  <2>4. Setting(p, name) = IF found = {} THEN NoToken ELSE p.options[CHOOSE k \in found : \A j \in found : j <= k].token
    BY DEF Setting
  <2> HIDE DEF found
  <2>5. (CHOOSE k \in found : \A j \in found : j <= k) = i
    BY <2>3, GreatestIs
  <2> QED
    BY <2>1, <2>3, <2>4, <2>5
<1>7. ASSUME NEW token, ArgumentLast(argv, last, name, token) PROVE Asked(argv, name) = token
  <2> DEFINE found == {k \in DOMAIN argv : argv[k].form = "long" /\ argv[k].text = name}
  <2>1. PICK l \in 1..last - 1 : /\ IsLong(argv[l], name) /\ argv[l + 1] = token
                                 /\ \A j \in l + 1..last : ~IsLong(argv[j], name)
    BY <1>7 DEF ArgumentLast
  <2>2. l \in 1..last /\ \A j \in 1..last : j <= l \/ j \in l + 1..last
    BY <1>5
  <2>3. found \subseteq Nat /\ l \in found /\ \A j \in found : j <= l
    BY <1>1, <1>2, <1>4, <2>1, <2>2
  <2>4. Asked(argv, name) = IF found = {} THEN NoToken ELSE argv[(CHOOSE k \in found : \A j \in found : j <= k) + 1]
    BY DEF Asked
  <2> HIDE DEF found
  <2>5. (CHOOSE k \in found : \A j \in found : j <= k) = l
    BY <2>3, GreatestIs
  <2> QED
    BY <2>1, <2>3, <2>4, <2>5
<1> QED
  BY <1>1, <1>3, <1>6, <1>7 DEF ValueAgrees, p

\* A flag is set when it is written.
LEMMA FlagAsked ==
    ASSUME NEW argv \in CommandLines, parse[argv].stop = None
    PROVE  HasOption(parse[argv], "hot-reload") <=> HasFlag(argv, "hot-reload")
<1>1. DOMAIN argv = 1..Len(argv) /\ FlagAgrees(parse[argv].options, argv, Len(argv), "hot-reload")
  BY LinesType, ParseAgrees
<1> QED
  BY <1>1 DEF FlagAgrees, HasOption, HasFlag, IsLong

-----------------------------------------------------------------------------
(* Sequences of arguments: the last value of an option counts.             *)
IsSeq(s) == s \in Seq(Range(s))

\* A sequence has a length and consists of its elements.
LEMMA SeqIs ==
    ASSUME NEW S, NEW s \in Seq(S)
    PROVE  /\ Len(s) \in Nat /\ DOMAIN s = 1..Len(s) /\ \A k \in 1..Len(s) : s[k] \in S
           /\ Range(s) \subseteq S /\ IsSeq(s)
<1>1. Len(s) \in Nat /\ DOMAIN s = 1..Len(s) /\ \A k \in 1..Len(s) : s[k] \in S
  OBVIOUS
<1>2. Range(s) \subseteq S
  BY <1>1 DEF Range
<1>3. \A k \in 1..Len(s) : s[k] \in Range(s)
  BY <1>1 DEF Range
<1>4. s \in Seq(Range(s))
  <2> DEFINE T == Range(s)
  <2>1. \A k \in 1..Len(s) : s[k] \in T
    BY <1>3
  <2> HIDE DEF T
  <2>2. s = [k \in 1..Len(s) |-> s[k]]
    OBVIOUS
  <2>3. s \in Seq(T)
    BY <1>1, <2>1, <2>2
  <2> QED
    BY <2>3 DEF T
<1> QED
  BY <1>1, <1>2, <1>4 DEF IsSeq

\* One sequence after the other.
Joined(s, a, b) ==
    /\ IsSeq(s) /\ Len(a) \in Nat /\ Len(b) \in Nat /\ Len(s) = Len(a) + Len(b)
    /\ \A k \in 1..Len(a) : s[k] = a[k]
    /\ \A k \in Len(a) + 1..Len(s) : s[k] \in Range(b)
    /\ \A k \in 1..Len(b) : s[Len(a) + k] = b[k]
    /\ Range(s) = Range(a) \cup Range(b)

\* Appending a sequence of arguments gives the elements of both, in order.
LEMMA JoinedIs ==
    ASSUME NEW a, NEW b, IsSeq(a), IsSeq(b)
    PROVE  Joined(a \o b, a, b)
<1> DEFINE S == Range(a) \cup Range(b)
           s == a \o b
           m == Len(a)
           n == Len(b)
<1>1. /\ m \in Nat /\ DOMAIN a = 1..m /\ \A k \in 1..m : a[k] \in Range(a)
      /\ n \in Nat /\ DOMAIN b = 1..n /\ \A k \in 1..n : b[k] \in Range(b)
  <2> DEFINE A == Range(a)
             B == Range(b)
  <2>1. a \in Seq(A) /\ b \in Seq(B)
    BY DEF IsSeq
  <2> HIDE DEF A, B
  <2>2. /\ Len(a) \in Nat /\ DOMAIN a = 1..Len(a) /\ \A k \in 1..Len(a) : a[k] \in A
        /\ Len(b) \in Nat /\ DOMAIN b = 1..Len(b) /\ \A k \in 1..Len(b) : b[k] \in B
    BY <2>1
  <2> QED
    BY <2>2 DEF A, B
<1>2. a \in Seq(S) /\ b \in Seq(S)
  <2> DEFINE A == Range(a)
             B == Range(b)
  <2>1. a \in Seq(A) /\ b \in Seq(B)
    BY DEF IsSeq
  <2> HIDE DEF A, B
  <2>2. a \in Seq(A \cup B) /\ b \in Seq(A \cup B)
    BY <2>1
  <2> QED
    BY <2>2 DEF A, B
<1> HIDE DEF S
<1>3. s \in Seq(S) /\ Len(s) = m + n
  BY <1>2
<1>4. \A k \in 1..m : s[k] = a[k]
  BY <1>2
<1>5. \A k \in m + 1..m + n : s[k] = b[k - m]
  BY <1>2
<1>6. DOMAIN s = 1..m + n
  BY <1>1, <1>3
<1> HIDE DEF s, m, n
<1>7. IsSeq(s)
  BY <1>3, SeqIs
<1>8. \A k \in 1..n : m + k \in m + 1..m + n /\ (m + k) - m = k
  BY <1>1
<1>9. \A k \in 1..n : s[m + k] = b[k]
  BY <1>5, <1>8
<1>10. \A k \in 1..m + n : k \in 1..m \/ (k \in m + 1..m + n /\ k - m \in 1..n)
  BY <1>1
<1>11. \A k \in m + 1..m + n : k - m \in 1..n
  BY <1>1
<1>12. \A k \in m + 1..m + n : s[k] \in Range(b)
  BY <1>1, <1>5, <1>11
<1>13. \A k \in 1..m + n : s[k] \in Range(a) \cup Range(b)
  BY <1>1, <1>4, <1>10, <1>12
<1>14. Range(s) \subseteq Range(a) \cup Range(b)
  BY <1>6, <1>13 DEF Range
<1>15. \A k \in 1..m : k \in 1..m + n
  BY <1>1
<1>16. \A k \in 1..n : m + k \in 1..m + n
  BY <1>1
<1>17. Range(a) \subseteq Range(s)
  BY <1>1, <1>4, <1>6, <1>15 DEF Range
<1>18. Range(b) \subseteq Range(s)
  BY <1>1, <1>6, <1>9, <1>16 DEF Range
<1> QED
  BY <1>1, <1>3, <1>4, <1>7, <1>9, <1>12, <1>14, <1>17, <1>18 DEF Joined, s, m, n

\* v is the value after the last option.
Gives(s, option, v) ==
    /\ IsSeq(s)
    /\ \E k \in 1..Len(s) - 1 : /\ s[k] = option /\ s[k + 1] = v
                                /\ \A j \in k + 1..Len(s) : s[j] # option

\* That is what the compiler takes.
LEMMA GivesValue ==
    ASSUME NEW s, NEW option, NEW v, NEW default, Gives(s, option, v)
    PROVE  ValueOf(s, option, default) = v
<1> DEFINE found == {k \in DOMAIN s : s[k] = option}
           last == Len(s)
<1>1. last \in Nat /\ DOMAIN s = 1..last
  BY SeqIs DEF Gives, IsSeq
<1>2. \A k \in 1..last - 1 : k \in 1..last /\ k # 0 /\ \A j \in 1..last : j <= k \/ j \in k + 1..last
  BY <1>1
<1>3. PICK k \in 1..last - 1 : s[k] = option /\ s[k + 1] = v /\ \A j \in k + 1..last : s[j] # option
  BY DEF Gives
<1> HIDE DEF last
<1>4. found \subseteq Nat /\ k \in found /\ \A j \in found : j <= k
  BY <1>1, <1>2, <1>3
<1>5. LastIndex(s, option) = IF found = {} THEN 0 ELSE CHOOSE i \in found : \A j \in found : j <= i
  BY DEF LastIndex
<1> HIDE DEF found
<1>6. (CHOOSE i \in found : \A j \in found : j <= i) = k
  BY <1>4, GreatestIs
<1>7. LastIndex(s, option) = k
  BY <1>4, <1>5, <1>6
<1> QED
  BY <1>2, <1>3, <1>7 DEF ValueOf

\* Something else after it changes nothing.
LEMMA GivesStill ==
    ASSUME NEW a, NEW b, NEW option, NEW v, Gives(a, option, v), IsSeq(b), option \notin Range(b)
    PROVE  Gives(a \o b, option, v)
<1> DEFINE s == a \o b
           m == Len(a)
           last == Len(s)
<1>1. IsSeq(a)
  BY DEF Gives
<1>2. Joined(s, a, b)
  BY <1>1, JoinedIs
<1> HIDE DEF s
<1>3. m \in Nat /\ last \in Nat /\ m <= last
  BY <1>2 DEF Joined
<1>4. PICK k \in 1..m - 1 : a[k] = option /\ a[k + 1] = v /\ \A j \in k + 1..m : a[j] # option
  BY DEF Gives
<1>5. (\A j \in 1..m : s[j] = a[j]) /\ (\A j \in m + 1..last : s[j] \in Range(b)) /\ IsSeq(s)
  BY <1>2 DEF Joined
<1> HIDE DEF m, last
<1>6. \A i \in 1..m - 1 : /\ i \in 1..m /\ i + 1 \in 1..m /\ i \in 1..last - 1
                          /\ \A j \in i + 1..last : (j \in i + 1..m /\ j \in 1..m) \/ j \in m + 1..last
  BY <1>3
<1>7. k \in 1..last - 1 /\ s[k] = option /\ s[k + 1] = v
  BY <1>4, <1>5, <1>6
<1>8. \A j \in k + 1..last : s[j] # option
  BY <1>4, <1>5, <1>6
<1> QED
  BY <1>5, <1>7, <1>8 DEF Gives, s, last

\* Two elements make a sequence.
LEMMA PairIs ==
    ASSUME NEW x, NEW y
    PROVE  IsSeq(<<x, y>>) /\ Range(<<x, y>>) = {x, y} /\ Len(<<x, y>>) = 2
<1> DEFINE s == <<x, y>>
<1>1. s \in Seq({x, y}) /\ Len(s) = 2 /\ s[1] = x /\ s[2] = y /\ DOMAIN s = 1..2
  OBVIOUS
<1> HIDE DEF s
<1>2. IsSeq(s)
  BY <1>1, SeqIs
<1>3. 1..2 = {1, 2}
  OBVIOUS
<1>4. Range(s) = {x, y}
  BY <1>1, <1>3 DEF Range
<1> QED
  BY <1>1, <1>2, <1>4 DEF s

\* One element or none make a sequence.
LEMMA ShortIs ==
    ASSUME NEW x
    PROVE  IsSeq(<<x>>) /\ Range(<<x>>) = {x} /\ IsSeq(<<>>) /\ Range(<<>>) = {}
<1> DEFINE s == <<x>>
           e == <<>>
<1>1. s \in Seq({x}) /\ s[1] = x /\ DOMAIN s = 1..1 /\ e \in Seq({}) /\ DOMAIN e = {}
  OBVIOUS
<1> HIDE DEF s, e
<1>2. IsSeq(s) /\ IsSeq(e)
  BY <1>1, SeqIs
<1>3. 1..1 = {1}
  OBVIOUS
<1>4. Range(s) = {x}
  BY <1>1, <1>3 DEF Range
<1>5. Range(e) = {}
  BY <1>1 DEF Range
<1> QED
  BY <1>2, <1>4, <1>5 DEF s, e

\* An option and its value at the end.
LEMMA GivesLast ==
    ASSUME NEW a, IsSeq(a), NEW option, NEW v, v # option
    PROVE  Gives(a \o <<option, v>>, option, v)
<1> DEFINE b == <<option, v>>
           s == a \o b
           m == Len(a)
<1>1. IsSeq(b) /\ Range(b) = {option, v} /\ Len(b) = 2 /\ b[1] = option /\ b[2] = v
  BY PairIs
<1> HIDE DEF b
<1>2. Joined(s, a, b)
  BY <1>1, JoinedIs
<1> HIDE DEF s
<1>3. m \in Nat /\ Len(s) = m + 2 /\ IsSeq(s) /\ \A k \in 1..2 : s[m + k] = b[k]
  BY <1>1, <1>2 DEF Joined
<1> HIDE DEF m
<1>4. /\ m + 1 \in 1..(m + 2) - 1 /\ (m + 1) + 1 = m + 2
      /\ \A j \in (m + 1) + 1..m + 2 : j = m + 2
      /\ 1 \in 1..2 /\ 2 \in 1..2
  BY <1>3
<1>5. s[m + 1] = option /\ s[m + 2] = v
  BY <1>1, <1>3, <1>4
<1>6. \A j \in (m + 1) + 1..m + 2 : s[j] # option
  BY <1>4, <1>5
<1> QED
  BY <1>3, <1>4, <1>5, <1>6 DEF Gives, s, b

\* How a sequence of sequences becomes one.
LEMMA FlattenIs ==
    ASSUME NEW S, NEW seqs \in Seq(Seq(S)), seqs # <<>>
    PROVE  \E s : /\ FlattenSeq(seqs) = s[Len(seqs)]
                  /\ \A i \in 1..Len(seqs) : s[i] = IF i = 1 THEN seqs[i] ELSE s[i - 1] \o seqs[i]
<1> DEFINE last == Len(seqs)
           Flat(g) == g = [i \in 1..last |-> IF i = 1 THEN seqs[i] ELSE g[i - 1] \o seqs[i]]
           s == CHOOSE g : Flat(g)
<1>1. last \in Nat /\ last # 0
  <2> DEFINE T == Seq(S)
  <2>1. seqs \in Seq(T)
    OBVIOUS
  <2> HIDE DEF T
  <2> QED
    BY <2>1
<1>2. FlattenSeq(seqs) = s[last]
  BY <1>1 DEF FlattenSeq
<1>3. \E g : Flat(g)
  <2>1. PICK g : Rows("flatten", seqs, g, last)
    BY <1>1, RowsExist
  <2>2. Flat(g)
    BY <2>1 DEF Rows, Row, First
  <2> QED
    BY <2>2
<1>4. Flat(s)
  BY <1>3
<1> HIDE DEF s
<1>5. \A i \in 1..last : s[i] = IF i = 1 THEN seqs[i] ELSE s[i - 1] \o seqs[i]
  BY <1>4
<1> QED
  BY <1>2, <1>5

\* It consists of the elements of all.
LEMMA FlattenType ==
    ASSUME NEW S, NEW seqs \in Seq(Seq(S))
    PROVE  FlattenSeq(seqs) \in Seq(S)
<1> DEFINE last == Len(seqs)
<1>1. last \in Nat /\ \A i \in 1..last : seqs[i] \in Seq(S)
  OBVIOUS
<1>2. CASE seqs = <<>>
  <2>1. FlattenSeq(seqs) = <<>>
    BY <1>2 DEF FlattenSeq
  <2>2. <<>> \in Seq(S)
    OBVIOUS
  <2> QED
    BY <2>1, <2>2
<1>3. CASE seqs # <<>>
  <2>1. PICK s : /\ FlattenSeq(seqs) = s[last]
                 /\ \A i \in 1..last : s[i] = IF i = 1 THEN seqs[i] ELSE s[i - 1] \o seqs[i]
    BY <1>3, FlattenIs
  <2> DEFINE Bad == {i \in 1..last : s[i] \notin Seq(S)}
  <2>2. Bad = {}
    <3> SUFFICES ASSUME Bad # {} PROVE FALSE
      OBVIOUS
    <3>1. Bad \subseteq Nat
      BY <1>1
    <3>2. PICK i \in Bad : \A j \in Bad : i <= j
      BY <3>1, LeastNumber
    <3>3. i \in 1..last /\ s[i] \notin Seq(S) /\ seqs[i] \in Seq(S)
      BY <1>1, <3>2
    <3>4. i # 1
      BY <2>1, <3>3
    <3>5. i - 1 \in 1..last /\ ~(i <= i - 1)
      BY <1>1, <3>3, <3>4
    <3> DEFINE x == s[i - 1]
               y == seqs[i]
    <3>6. x \in Seq(S) /\ y \in Seq(S) /\ s[i] = x \o y
      BY <2>1, <3>2, <3>3, <3>4, <3>5
    <3> HIDE DEF x, y
    <3>7. x \o y \in Seq(S)
      BY <3>6
    <3> QED
      BY <3>3, <3>6, <3>7
  <2>3. last \in 1..last
    <3> DEFINE T == Seq(S)
    <3>1. seqs \in Seq(T)
      OBVIOUS
    <3> HIDE DEF T
    <3>2. last # 0
      BY <1>3, <3>1
    <3> QED
      BY <1>1, <3>2
  <2> QED
    BY <2>1, <2>2, <2>3
<1> QED
  BY <1>2, <1>3

-----------------------------------------------------------------------------
(* What the compiler makes of the arguments of a command.                  *)
LevelOf(r) == IF r.level # None THEN r.level ELSE IF r.config = "debug" THEN "0" ELSE "1"
Sensible(r) ==
    /\ r.target \in list_available
    /\ r.config \in {"debug", "release"} /\ r.level \in {None, "0", "1", "2"}
Ready(c) ==
    /\ Sensible(c.request)
    /\ c.type \in ManifestTypes
    /\ IsSeq(c.sourcePaths) /\ Range(c.sourcePaths) \cap OwnOptions = {}
    /\ IsSeq(c.compilerArgs) /\ Range(c.compilerArgs) \cap OwnOptions \subseteq {"--testing"}

\* The targets.
LEMMA TargetsAre ==
    ASSUME NEW t \in list_available
    PROVE  /\ t.arch \in {"x86_64", "aarch64", "wasm"}
           /\ t.os \in {"windows", "linux", "macos", "unknown", "emscripten"}
           /\ t.env \in {"msvc", "gnu", None}
           /\ t.arch = "x86_64" => t.env # None
           /\ t.arch = "aarch64" => t.os \in {"linux", "macos"}
           /\ t.arch = "wasm" => t.os \in {"unknown", "emscripten"}
           /\ (t.arch = "x86_64" /\ t.env = "msvc") <=> (t.os = "windows" /\ t.env = "msvc")
           /\ t.arch = "x86_64" => t.os \in {"windows", "linux"}
<1>1. None \notin {"msvc", "gnu"}
  BY DEF None
<1> QED
  BY <1>1 DEF list_available, Target

\* The value of an option whose last occurrence is at the start.
LEMMA StartGives ==
    ASSUME NEW type, NEW arch, NEW os
    PROVE  LET s == <<"--type", type, "--arch", arch, "--os", os>>
           IN /\ IsSeq(s) /\ Range(s) = {"--type", type, "--arch", arch, "--os", os}
              /\ arch # "--arch" /\ os # "--arch" => Gives(s, "--arch", arch)
              /\ os # "--os" => Gives(s, "--os", os)
<1> DEFINE s == <<"--type", type, "--arch", arch, "--os", os>>
           S == {"--type", type, "--arch", arch, "--os", os}
<1>1. /\ s \in Seq(S) /\ Len(s) = 6 /\ DOMAIN s = 1..6
      /\ s[1] = "--type" /\ s[2] = type /\ s[3] = "--arch" /\ s[4] = arch /\ s[5] = "--os" /\ s[6] = os
  OBVIOUS
<1> HIDE DEF s
<1>2. 1..6 = {1, 2, 3, 4, 5, 6}
  OBVIOUS
<1>3. Range(s) = S
  BY <1>1, <1>2 DEF Range
<1> HIDE DEF S
<1>4. IsSeq(s)
  BY <1>1, SeqIs
<1>5. ASSUME arch # "--arch", os # "--arch" PROVE Gives(s, "--arch", arch)
  <2>1. 3 \in 1..6 - 1 /\ 3 + 1 = 4 /\ \A j \in 4..6 : j \in {4, 5, 6}
    OBVIOUS
  <2> QED
    BY <1>1, <1>4, <1>5, <2>1 DEF Gives
<1>6. ASSUME os # "--os" PROVE Gives(s, "--os", os)
  <2>1. 5 \in 1..6 - 1 /\ 5 + 1 = 6 /\ \A j \in 6..6 : j = 6
    OBVIOUS
  <2> QED
    BY <1>1, <1>4, <1>6, <2>1 DEF Gives
<1> QED
  BY <1>3, <1>4, <1>5, <1>6 DEF s, S

\* The source directories, each after an option.
LEMMA PathsAre ==
    ASSUME NEW paths, IsSeq(paths)
    PROVE  LET s == FlattenSeq([k \in DOMAIN paths |-> <<"--path", paths[k]>>])
           IN IsSeq(s) /\ Range(s) \subseteq {"--path"} \cup Range(paths)
<1> DEFINE S == {"--path"} \cup Range(paths)
           seqs == [k \in DOMAIN paths |-> <<"--path", paths[k]>>]
           last == Len(paths)
<1>1. last \in Nat /\ DOMAIN paths = 1..last
  BY SeqIs DEF IsSeq
<1>2. \A k \in DOMAIN paths : paths[k] \in S
  BY DEF Range
<1> HIDE DEF S
<1>3. "--path" \in S
  BY DEF S
<1>4. \A x \in S : <<"--path", x>> \in Seq(S)
  BY <1>3
<1>5. \A k \in 1..last : seqs[k] \in Seq(S)
  BY <1>1, <1>2, <1>4
<1>6. seqs = [k \in 1..last |-> seqs[k]]
  BY <1>1
<1> HIDE DEF seqs, last
<1> DEFINE T == Seq(S)
<1> HIDE DEF T
<1>7. seqs \in Seq(T)
  <2>1. \A k \in 1..last : seqs[k] \in T
    BY <1>5 DEF T
  <2> QED
    BY <1>1, <1>6, <2>1
<1>8. FlattenSeq(seqs) \in Seq(S)
  BY <1>7, FlattenType DEF T
<1> QED
  BY <1>8, SeqIs DEF S, seqs

\* What follows the options that name a directory.
Listed(s) == {s[k + 1] : k \in {j \in DOMAIN s : s[j] = "--path"}}
ListsPaths(s, S) ==
    /\ IsSeq(s)
    /\ \A k \in DOMAIN s : s[k] = "--path" => k + 1 \in DOMAIN s
    /\ Listed(s) = S

\* Two lists one after the other.
LEMMA ListsBoth ==
    ASSUME NEW a, NEW b, NEW S, NEW T, ListsPaths(a, S), ListsPaths(b, T)
    PROVE  ListsPaths(a \o b, S \cup T)
<1> DEFINE s == a \o b
           n == Len(a)
           Spots(q) == {j \in DOMAIN q : q[j] = "--path"}
<1>1. /\ IsSeq(s) /\ n \in Nat /\ Len(b) \in Nat /\ Len(s) = n + Len(b)
      /\ \A k \in 1..n : s[k] = a[k]
      /\ \A k \in 1..Len(b) : s[n + k] = b[k]
  BY JoinedIs DEF ListsPaths, Joined
<1>2. DOMAIN s = 1..Len(s) /\ DOMAIN a = 1..n /\ DOMAIN b = 1..Len(b)
  BY <1>1, SeqIs DEF ListsPaths, IsSeq
<1> HIDE DEF s, n
<1>3. \A k \in Spots(a) : k \in Spots(s) /\ k + 1 \in DOMAIN s /\ s[k + 1] = a[k + 1]
  BY <1>1, <1>2 DEF ListsPaths
<1>4. \A k \in Spots(b) : n + k \in Spots(s) /\ (n + k) + 1 \in DOMAIN s /\ s[(n + k) + 1] = b[k + 1]
  <2> SUFFICES ASSUME NEW k \in Spots(b) PROVE n + k \in Spots(s) /\ (n + k) + 1 \in DOMAIN s /\ s[(n + k) + 1] = b[k + 1]
    OBVIOUS
  <2>1. k \in 1..Len(b) /\ k + 1 \in 1..Len(b) /\ b[k] = "--path"
    BY <1>2 DEF ListsPaths
  <2>2. n + k \in 1..Len(s) /\ (n + k) + 1 \in 1..Len(s) /\ (n + k) + 1 = n + (k + 1)
    <3>1. n \in Nat /\ Len(b) \in Nat /\ Len(s) = n + Len(b)
      BY <1>1
    <3>2. k \in 1..Len(b) /\ k + 1 \in 1..Len(b)
      BY <2>1
    <3> QED
      BY <3>1, <3>2
  <2> QED
    BY <1>1, <1>2, <2>1, <2>2
<1>5. \A k \in Spots(s) : k \in Spots(a) \/ (k - n \in Spots(b) /\ n + (k - n) = k)
  <2> SUFFICES ASSUME NEW k \in Spots(s), k \notin Spots(a) PROVE k - n \in Spots(b) /\ n + (k - n) = k
    OBVIOUS
  <2>1. k \in 1..Len(s) /\ s[k] = "--path"
    BY <1>2
  <2>2. k \notin 1..n
    BY <1>1, <1>2, <2>1
  <2>3. k - n \in 1..Len(b) /\ n + (k - n) = k
    BY <1>1, <2>1, <2>2
  <2> QED
    BY <1>1, <1>2, <2>1, <2>3
<1>6. \A k \in DOMAIN s : s[k] = "--path" => k + 1 \in DOMAIN s
  BY <1>3, <1>4, <1>5
<1> DEFINE X == {s[k + 1] : k \in Spots(s)}
<1>7. {a[k + 1] : k \in Spots(a)} = S /\ {b[k + 1] : k \in Spots(b)} = T
  BY DEF ListsPaths, Listed
<1> HIDE DEF Spots
<1>8. X \subseteq S \cup T
  <2> SUFFICES ASSUME NEW k \in Spots(s) PROVE s[k + 1] \in S \cup T
    OBVIOUS
  <2>1. CASE k \in Spots(a)
    BY <1>3, <1>7, <2>1
  <2>2. CASE k - n \in Spots(b) /\ n + (k - n) = k
    <3>1. s[k + 1] = b[(k - n) + 1]
      BY <1>4, <2>2
    <3> QED
      BY <1>7, <2>2, <3>1
  <2> QED
    BY <1>5, <2>1, <2>2
<1>9. S \subseteq X
  <2> SUFFICES ASSUME NEW k \in Spots(a) PROVE a[k + 1] \in X
    BY <1>7
  <2> QED
    BY <1>3
<1>10. T \subseteq X
  <2> SUFFICES ASSUME NEW k \in Spots(b) PROVE b[k + 1] \in X
    BY <1>7
  <2> QED
    BY <1>4
<1>11. X = S \cup T
  BY <1>8, <1>9, <1>10
<1> QED
  BY <1>1, <1>6, <1>11 DEF ListsPaths, Listed, s, Spots

\* A sequence without that option lists nothing.
LEMMA ListsNone ==
    ASSUME NEW s, IsSeq(s), "--path" \notin Range(s)
    PROVE  ListsPaths(s, {})
<1>1. \A k \in DOMAIN s : s[k] # "--path"
  BY DEF Range
<1> QED
  BY <1>1 DEF ListsPaths, Listed

\* The source directories are what follows.
LEMMA PathsListed ==
    ASSUME NEW paths, IsSeq(paths), "--path" \notin Range(paths)
    PROVE  ListsPaths(FlattenSeq([k \in DOMAIN paths |-> <<"--path", paths[k]>>]), Range(paths))
<1> DEFINE S == {"--path"} \cup Range(paths)
           seqs == [k \in DOMAIN paths |-> <<"--path", paths[k]>>]
           last == Len(paths)
<1>1. last \in Nat /\ DOMAIN paths = 1..last
  BY SeqIs DEF IsSeq
<1>2. \A k \in DOMAIN paths : seqs[k] = <<"--path", paths[k]>> /\ paths[k] \in S /\ paths[k] # "--path"
  BY DEF Range
<1>3. \A k \in 1..last : ListsPaths(seqs[k], {paths[k]})
  <2> SUFFICES ASSUME NEW k \in 1..last PROVE ListsPaths(seqs[k], {paths[k]})
    OBVIOUS
  <2> DEFINE x == paths[k]
             p == <<"--path", x>>
  <2>1. seqs[k] = p /\ x # "--path"
    BY <1>1, <1>2
  <2>2. IsSeq(p) /\ DOMAIN p = 1..2 /\ p[1] = "--path" /\ p[2] = x
    <3>1. IsSeq(p)
      BY PairIs
    <3> QED
      BY <3>1
  <2> HIDE DEF p, x
  <2>3. \A j \in DOMAIN p : p[j] = "--path" <=> j = 1
    <3>1. 1..2 = {1, 2}
      OBVIOUS
    <3> QED
      BY <2>1, <2>2, <3>1
  <2>4. 1 \in DOMAIN p /\ 1 + 1 \in DOMAIN p /\ p[1 + 1] = x
    BY <2>2
  <2> QED
    BY <2>1, <2>2, <2>3, <2>4 DEF ListsPaths, Listed, x
<1>4. seqs \in Seq(Seq(S)) /\ Len(seqs) = last /\ (seqs = <<>> <=> last = 0)
  <2> HIDE DEF S
  <2>1. "--path" \in S
    BY DEF S
  <2>2. \A x \in S : <<"--path", x>> \in Seq(S)
    BY <2>1
  <2>3. \A k \in 1..last : seqs[k] \in Seq(S)
    BY <1>1, <1>2, <2>2
  <2>4. seqs = [k \in 1..last |-> seqs[k]]
    BY <1>1
  <2> DEFINE T == Seq(S)
  <2> HIDE DEF T, seqs, last
  <2>5. \A k \in 1..last : seqs[k] \in T
    BY <2>3 DEF T
  <2>6. seqs \in Seq(T) /\ Len(seqs) = last
    BY <1>1, <2>4, <2>5
  <2>7. seqs = <<>> <=> last = 0
    BY <2>6
  <2> QED
    BY <2>6, <2>7 DEF T
<1> HIDE DEF S, seqs, last
<1>5. CASE last = 0
  <2>1. FlattenSeq(seqs) = <<>>
    BY <1>4, <1>5 DEF FlattenSeq
  <2>2. ListsPaths(<<>>, {})
    BY ShortIs, ListsNone
  <2>3. Range(paths) = {}
    BY <1>1, <1>5 DEF Range
  <2> QED
    BY <2>1, <2>2, <2>3 DEF seqs
<1>6. CASE last # 0
  <2>1. PICK s : /\ FlattenSeq(seqs) = s[last]
                 /\ \A i \in 1..last : s[i] = IF i = 1 THEN seqs[i] ELSE s[i - 1] \o seqs[i]
    BY <1>4, <1>6, FlattenIs
  <2> DEFINE Good(i) == ListsPaths(s[i], {paths[k] : k \in 1..i})
             Bad == {i \in 1..last : ~Good(i)}
  <2>2. Bad = {}
    <3> SUFFICES ASSUME Bad # {} PROVE FALSE
      OBVIOUS
    <3>1. Bad \subseteq Nat
      BY <1>1
    <3>2. PICK i \in Bad : \A j \in Bad : i <= j
      BY <3>1, LeastNumber
    <3>3. i \in 1..last /\ ~Good(i) /\ ListsPaths(seqs[i], {paths[i]})
      BY <1>3, <3>2
    <3>4. CASE i = 1
      <4>1. s[i] = seqs[i]
        BY <2>1, <3>3, <3>4
      <4>2. {paths[k] : k \in 1..i} = {paths[i]}
        <5>1. 1..i = {i}
          BY <3>4
        <5> QED
          BY <5>1
      <4>3. Good(i)
        BY <3>3, <4>1, <4>2
      <4> QED
        BY <3>3, <4>3
    <3>5. CASE i # 1
      <4>1. i - 1 \in 1..last /\ ~(i <= i - 1)
        BY <1>1, <3>3, <3>5
      <4>2. Good(i - 1)
        BY <3>2, <4>1
      <4>3. s[i] = s[i - 1] \o seqs[i]
        BY <2>1, <3>3, <3>5
      <4>4. ListsPaths(s[i], {paths[k] : k \in 1..i - 1} \cup {paths[i]})
        BY <3>3, <4>2, <4>3, ListsBoth
      <4>5. {paths[k] : k \in 1..i - 1} \cup {paths[i]} = {paths[k] : k \in 1..i}
        <5>1. \A k : k \in 1..i <=> k \in 1..i - 1 \/ k = i
          BY <3>3, <4>1
        <5> QED
          BY <5>1
      <4>6. Good(i)
        BY <4>4, <4>5
      <4> QED
        BY <3>3, <4>6
    <3> QED
      BY <3>4, <3>5
  <2>3. last \in 1..last
    BY <1>1, <1>6
  <2>4. Good(last)
    BY <2>2, <2>3
  <2>5. {paths[k] : k \in 1..last} = Range(paths)
    BY <1>1 DEF Range
  <2> QED
    BY <2>1, <2>4, <2>5 DEF seqs
<1> QED
  BY <1>5, <1>6

\* The arguments say what was asked for, whatever the manifests add.
Says(s, r) ==
    /\ IsSeq(s)
    /\ Gives(s, "--arch", r.target.arch)
    /\ Gives(s, "--os", r.target.os)
    /\ r.target.env # None => Gives(s, "--env", r.target.env)
Own(s, S) == Range(s) \cap OwnOptions \subseteq S

\* More arguments leave that as it is.
LEMMA SaysStill ==
    ASSUME NEW a, NEW b, NEW r, Says(a, r), IsSeq(b), Own(b, OwnOptions \ {"--arch", "--os", "--env"})
    PROVE  Says(a \o b, r)
<1>1. "--arch" \notin Range(b) /\ "--os" \notin Range(b) /\ "--env" \notin Range(b)
  BY DEF Own, OwnOptions
<1>2. IsSeq(a \o b)
  BY JoinedIs DEF Says, Joined
<1> QED
  BY <1>1, <1>2, GivesStill DEF Says

\* The first arguments say the target.
LEMMA TargetSaid ==
    ASSUME NEW c, Ready(c)
    PROVE  LET t == c.request.target
               s == <<"--type", c.type, "--arch", t.arch, "--os", t.os>> \o (IF t.env = None THEN <<>> ELSE <<"--env", t.env>>)
           IN Says(s, c.request) /\ Own(s, {"--type", "--arch", "--os", "--env"})
<1> DEFINE r == c.request
           t == c.request.target
           arch == t.arch
           os == t.os
           type == c.type
           a == <<"--type", type, "--arch", arch, "--os", os>>
           e == IF t.env = None THEN <<>> ELSE <<"--env", t.env>>
           s == a \o e
<1>1. t \in list_available /\ type \in {"executable", "static_library", "shared_library"}
  BY DEF Ready, Sensible, ManifestTypes
<1>2. /\ arch \in {"x86_64", "aarch64", "wasm"}
      /\ os \in {"windows", "linux", "macos", "unknown", "emscripten"}
      /\ t.env \in {"msvc", "gnu", None}
  BY <1>1, TargetsAre
<1> HIDE DEF t, arch, os, type
<1>3. /\ IsSeq(a) /\ Range(a) = {"--type", type, "--arch", arch, "--os", os}
      /\ Gives(a, "--arch", arch) /\ Gives(a, "--os", os)
  BY <1>2, StartGives
<1> HIDE DEF a
<1>4. Own(a, {"--type", "--arch", "--os"})
  BY <1>1, <1>2, <1>3 DEF Own, OwnOptions
<1>5. CASE t.env = None
  <2>1. IsSeq(e) /\ Range(e) = {}
    BY <1>5, ShortIs
  <2>2. Joined(s, a, e)
    BY <1>3, <2>1, JoinedIs
  <2>3. IsSeq(s) /\ Range(s) = Range(a)
    BY <2>1, <2>2 DEF Joined
  <2>4. Gives(s, "--arch", arch) /\ Gives(s, "--os", os)
    BY <1>3, <2>1, GivesStill
  <2>5. Own(s, {"--type", "--arch", "--os", "--env"})
    BY <1>4, <2>3 DEF Own
  <2> QED
    BY <1>5, <2>3, <2>4, <2>5 DEF Says, s, a, e, t, arch, os, type
<1>6. CASE t.env # None
  <2>1. e = <<"--env", t.env>> /\ t.env # "--env" /\ t.env \in {"msvc", "gnu"}
    BY <1>2, <1>6
  <2>2. IsSeq(e) /\ Range(e) = {"--env", t.env}
    BY <2>1, PairIs
  <2>3. Joined(s, a, e)
    BY <1>3, <2>2, JoinedIs
  <2>4. IsSeq(s) /\ Range(s) = Range(a) \cup {"--env", t.env}
    BY <2>2, <2>3 DEF Joined
  <2>5. Gives(s, "--arch", arch) /\ Gives(s, "--os", os)
    BY <1>3, <2>1, <2>2, GivesStill
  <2>6. Gives(s, "--env", t.env)
    BY <1>3, <2>1, GivesLast
  <2>7. Own(s, {"--type", "--arch", "--os", "--env"})
    BY <1>4, <2>1, <2>4 DEF Own, OwnOptions
  <2> QED
    BY <2>4, <2>5, <2>6, <2>7 DEF Says, s, a, e, t, arch, os, type
<1> QED
  BY <1>5, <1>6

\* A flag that is only given when it is asked for.
LEMMA FlagIs ==
    ASSUME NEW a, IsSeq(a), NEW flag, NEW given \in BOOLEAN
    PROVE  LET b == IF given THEN <<flag>> ELSE <<>>
               s == a \o b
           IN IsSeq(b) /\ IsSeq(s) /\ Range(b) = (IF given THEN {flag} ELSE {}) /\ Range(s) = Range(a) \cup (IF given THEN {flag} ELSE {})
<1> DEFINE b == IF given THEN <<flag>> ELSE <<>>
           s == a \o b
<1>1. IsSeq(b) /\ Range(b) = (IF given THEN {flag} ELSE {})
  BY ShortIs
<1> HIDE DEF b
<1>2. Joined(s, a, b)
  BY <1>1, JoinedIs
<1>3. IsSeq(s) /\ Range(s) = Range(a) \cup Range(b)
  BY <1>2 DEF Joined
<1> QED
  BY <1>1, <1>3 DEF s, b

Flags(r) == r.asm \in BOOLEAN /\ r.hot \in BOOLEAN

\* What the compiler does with the arguments of a command.
Compiled(config, c) ==
    /\ config.arch = c.request.target.arch /\ config.os = c.request.target.os
    /\ c.request.target.env # None => config.env = c.request.target.env
    /\ config.level = LevelOf(c.request)
    /\ config.asm <=> c.request.asm
    /\ config.hot <=> c.request.hot
    /\ config.testing <=> "--testing" \in Range(c.compilerArgs)

\* The directories a tool takes are those that are listed.
LEMMA PathsGiven ==
    ASSUME NEW s, NEW S, ListsPaths(s, S)
    PROVE  create_config(s).paths = S
<1>1. create_config(s).paths = Listed(s)
  BY DEF create_config, Listed
<1> QED
  BY <1>1 DEF ListsPaths

\* The arguments that the manifests and the request give.
Appended(s, c) ==
    /\ Says(s, c.request) /\ Gives(s, "--opt-level", LevelOf(c.request))
    /\ "--force-asm" \notin Range(s) /\ "--hot-reload" \notin Range(s)
    /\ "--testing" \in Range(s) <=> "--testing" \in Range(c.compilerArgs)
    /\ ListsPaths(s, Range(c.sourcePaths))

\* They say what was asked for.
LEMMA AppendedAre ==
    ASSUME NEW c, Ready(c)
    PROVE  Appended(append_compilation_args(c), c)
<1> DEFINE r == c.request
           t == c.request.target
           level == IF c.request.level # None THEN c.request.level ELSE IF c.request.config = "debug" THEN "0" ELSE "1"
           a0 == <<"--type", c.type, "--arch", t.arch, "--os", t.os>> \o (IF t.env = None THEN <<>> ELSE <<"--env", t.env>>)
           a1 == a0 \o <<"--opt-level", level>>
           paths == FlattenSeq([k \in DOMAIN c.sourcePaths |-> <<"--path", c.sourcePaths[k]>>])
           a2 == a1 \o paths
           a3 == a2 \o c.compilerArgs
<1>1. append_compilation_args(c) = a3
  BY DEF append_compilation_args
<1>2. Says(a0, r) /\ Own(a0, {"--type", "--arch", "--os", "--env"})
  BY TargetSaid
<1> HIDE DEF a0
<1>3. level \in {"0", "1", "2"} /\ level = LevelOf(r)
  BY DEF Ready, Sensible, LevelOf
<1> HIDE DEF level
<1>4. Says(a1, r) /\ Gives(a1, "--opt-level", level) /\ Own(a1, {"--type", "--arch", "--os", "--env", "--opt-level"})
  <2> DEFINE b == <<"--opt-level", level>>
  <2>1. IsSeq(b) /\ Range(b) = {"--opt-level", level}
    BY PairIs
  <2>2. Gives(a1, "--opt-level", level)
    BY <1>2, <1>3, GivesLast DEF Says
  <2> HIDE DEF b
  <2>3. Own(b, OwnOptions \ {"--arch", "--os", "--env"})
    BY <1>3, <2>1 DEF Own, OwnOptions
  <2>4. Says(a0 \o b, r)
    BY <1>2, <2>1, <2>3, SaysStill
  <2>5. Joined(a0 \o b, a0, b)
    BY <1>2, <2>1, JoinedIs DEF Says
  <2>6. Own(a0 \o b, {"--type", "--arch", "--os", "--env", "--opt-level"})
    BY <1>2, <1>3, <2>1, <2>5 DEF Own, OwnOptions, Joined
  <2> QED
    BY <2>2, <2>4, <2>6 DEF b
<1> HIDE DEF a1
<1>5. /\ Says(a2, r) /\ Gives(a2, "--opt-level", level) /\ Own(a2, {"--type", "--arch", "--os", "--env", "--opt-level", "--path"})
      /\ ListsPaths(a2, Range(c.sourcePaths))
  <2>1. IsSeq(c.sourcePaths) /\ Range(c.sourcePaths) \cap OwnOptions = {}
    BY DEF Ready
  <2>2. IsSeq(paths) /\ Range(paths) \subseteq {"--path"} \cup Range(c.sourcePaths)
    BY <2>1, PathsAre
  <2>3. ListsPaths(paths, Range(c.sourcePaths))
    <3>1. "--path" \notin Range(c.sourcePaths)
      BY <2>1 DEF OwnOptions
    <3> QED
      BY <2>1, <3>1, PathsListed
  <2> HIDE DEF paths
  <2>4. Own(paths, {"--path"})
    BY <2>1, <2>2 DEF Own
  <2>5. Own(paths, OwnOptions \ {"--arch", "--os", "--env"}) /\ "--opt-level" \notin Range(paths)
    BY <2>4 DEF Own, OwnOptions
  <2>6. Says(a2, r) /\ Gives(a2, "--opt-level", level)
    BY <1>4, <2>2, <2>5, SaysStill, GivesStill
  <2>7. Joined(a2, a1, paths)
    BY <1>4, <2>2, JoinedIs DEF Says
  <2>8. ListsPaths(a2, Range(c.sourcePaths))
    <3>1. "--path" \notin Range(a1) /\ IsSeq(a1)
      BY <1>4 DEF Own, OwnOptions, Says
    <3>2. ListsPaths(a1, {})
      BY <3>1, ListsNone
    <3>3. ListsPaths(a2, {} \cup Range(c.sourcePaths))
      BY <2>3, <3>2, ListsBoth
    <3> QED
      BY <3>3
  <2> HIDE DEF a2
  <2>9. Range(a2) = Range(a1) \cup Range(paths)
    BY <2>7 DEF Joined
  <2>10. Own(a2, {"--type", "--arch", "--os", "--env", "--opt-level", "--path"})
    BY <1>4, <2>4, <2>9 DEF Own
  <2> QED
    BY <2>6, <2>10, <2>8
<1> HIDE DEF a2, paths
<1>6. /\ Says(a3, r) /\ Gives(a3, "--opt-level", level)
      /\ "--force-asm" \notin Range(a3) /\ "--hot-reload" \notin Range(a3)
      /\ "--testing" \in Range(a3) <=> "--testing" \in Range(c.compilerArgs)
      /\ ListsPaths(a3, Range(c.sourcePaths))
  <2> DEFINE b == c.compilerArgs
  <2>1. IsSeq(b) /\ Own(b, {"--testing"})
    BY DEF Ready, Own
  <2> HIDE DEF b
  <2>2. Own(b, OwnOptions \ {"--arch", "--os", "--env"}) /\ "--opt-level" \notin Range(b)
        /\ "--force-asm" \notin Range(b) /\ "--hot-reload" \notin Range(b)
    BY <2>1 DEF Own, OwnOptions
  <2>3. Says(a2 \o b, r) /\ Gives(a2 \o b, "--opt-level", level)
    BY <1>5, <2>1, <2>2, SaysStill, GivesStill
  <2>4. Joined(a2 \o b, a2, b)
    BY <1>5, <2>1, JoinedIs DEF Says
  <2>5. Range(a2 \o b) = Range(a2) \cup Range(b)
    BY <2>4 DEF Joined
  <2>6. "--force-asm" \notin Range(a2) /\ "--hot-reload" \notin Range(a2) /\ "--testing" \notin Range(a2)
    BY <1>5 DEF Own, OwnOptions
  <2>7. ListsPaths(a2 \o b, Range(c.sourcePaths))
    <3>1. "--path" \notin Range(b)
      BY <2>1 DEF Own, OwnOptions
    <3>2. ListsPaths(b, {})
      BY <2>1, <3>1, ListsNone
    <3>3. ListsPaths(a2 \o b, Range(c.sourcePaths) \cup {})
      BY <1>5, <3>2, ListsBoth
    <3> QED
      BY <3>3
  <2> QED
    BY <2>2, <2>3, <2>5, <2>6, <2>7 DEF b
<1> HIDE DEF a3
<1> QED
  BY <1>1, <1>3, <1>6 DEF Appended

\* The compiler makes of the arguments what was asked for.
LEMMA CompilerArgsAre ==
    ASSUME NEW c, Ready(c), Flags(c.request)
    PROVE  Compiled(create_config(CompilerArgs(c)), c)
<1> DEFINE r == c.request
           level == LevelOf(r)
           a3 == append_compilation_args(c)
           a4 == a3 \o (IF c.request.asm THEN <<"--force-asm">> ELSE <<>>)
           a5 == a4 \o (IF c.request.hot THEN <<"--hot-reload">> ELSE <<>>)
<1>1. CompilerArgs(c) = a5
  BY DEF CompilerArgs
<1>2. /\ Says(a3, r) /\ Gives(a3, "--opt-level", level)
      /\ "--force-asm" \notin Range(a3) /\ "--hot-reload" \notin Range(a3)
      /\ "--testing" \in Range(a3) <=> "--testing" \in Range(c.compilerArgs)
  BY AppendedAre DEF Appended
<1>3. level = LevelOf(r)
  OBVIOUS
<1> HIDE DEF a3, level
<1>4. c.request.asm \in BOOLEAN /\ c.request.hot \in BOOLEAN
  BY DEF Flags
<1>5. /\ Says(a4, r) /\ Gives(a4, "--opt-level", level)
      /\ "--hot-reload" \notin Range(a4) /\ ("--force-asm" \in Range(a4) <=> c.request.asm)
      /\ "--testing" \in Range(a4) <=> "--testing" \in Range(c.compilerArgs)
  <2> DEFINE b == IF c.request.asm THEN <<"--force-asm">> ELSE <<>>
  <2>1. IsSeq(b) /\ Range(b) = (IF c.request.asm THEN {"--force-asm"} ELSE {})
        /\ Range(a4) = Range(a3) \cup (IF c.request.asm THEN {"--force-asm"} ELSE {})
    BY <1>2, <1>4, FlagIs DEF Says
  <2> HIDE DEF b
  <2>2. Own(b, OwnOptions \ {"--arch", "--os", "--env"}) /\ "--opt-level" \notin Range(b)
    BY <2>1 DEF Own, OwnOptions
  <2>3. Says(a3 \o b, r) /\ Gives(a3 \o b, "--opt-level", level)
    BY <1>2, <2>1, <2>2, SaysStill, GivesStill
  <2> QED
    BY <1>2, <2>1, <2>3 DEF b
<1> HIDE DEF a4
<1>6. /\ Says(a5, r) /\ Gives(a5, "--opt-level", level)
      /\ "--hot-reload" \in Range(a5) <=> c.request.hot
      /\ "--force-asm" \in Range(a5) <=> c.request.asm
      /\ "--testing" \in Range(a5) <=> "--testing" \in Range(c.compilerArgs)
  <2> DEFINE b == IF c.request.hot THEN <<"--hot-reload">> ELSE <<>>
  <2>1. IsSeq(b) /\ Range(b) = (IF c.request.hot THEN {"--hot-reload"} ELSE {})
        /\ Range(a5) = Range(a4) \cup (IF c.request.hot THEN {"--hot-reload"} ELSE {})
    BY <1>4, <1>5, FlagIs DEF Says
  <2> HIDE DEF b
  <2>2. Own(b, OwnOptions \ {"--arch", "--os", "--env"}) /\ "--opt-level" \notin Range(b)
    BY <2>1 DEF Own, OwnOptions
  <2>3. Says(a4 \o b, r) /\ Gives(a4 \o b, "--opt-level", level)
    BY <1>5, <2>1, <2>2, SaysStill, GivesStill
  <2> QED
    BY <1>5, <2>1, <2>3 DEF b
<1> HIDE DEF a5
<1> DEFINE args == CompilerArgs(c)
<1>7. /\ Says(args, r) /\ Gives(args, "--opt-level", level)
      /\ "--hot-reload" \in Range(args) <=> c.request.hot
      /\ "--force-asm" \in Range(args) <=> c.request.asm
      /\ "--testing" \in Range(args) <=> "--testing" \in Range(c.compilerArgs)
  BY <1>1, <1>6
<1> HIDE DEF args
<1> DEFINE config == create_config(args)
<1>8. /\ ValueOf(args, "--arch", "x86_64") = r.target.arch
      /\ ValueOf(args, "--os", "windows") = r.target.os
      /\ r.target.env # None => ValueOf(args, "--env", "msvc") = r.target.env
      /\ ValueOf(args, "--opt-level", "0") = LevelOf(r)
  BY <1>7, <1>3, GivesValue DEF Says
<1>9. /\ config.arch = ValueOf(args, "--arch", "x86_64") /\ config.os = ValueOf(args, "--os", "windows")
      /\ config.env = ValueOf(args, "--env", "msvc") /\ config.level = ValueOf(args, "--opt-level", "0")
  BY DEF create_config
<1>10. /\ config.hot = FlagOf(args, "--hot-reload") /\ config.testing = FlagOf(args, "--testing")
       /\ config.asm = FlagOf(args, "--force-asm")
  BY DEF create_config
<1> HIDE DEF config
<1>11. /\ config.hot <=> "--hot-reload" \in Range(args)
       /\ config.testing <=> "--testing" \in Range(args)
       /\ config.asm <=> "--force-asm" \in Range(args)
  BY <1>10 DEF FlagOf
<1> QED
  BY <1>7, <1>8, <1>9, <1>11 DEF Compiled, config, args

\* A toolchain that was written to the cache is read from it again.
LEMMA CachedIs ==
    ASSUME NEW m, NEW t, set_up(m, t) # NoToolchain
    PROVE  deserialize(toolchain_kind(t), serialize(toolchain_kind(t), set_up(m, t))) = set_up(m, t)
<1> DEFINE kind == toolchain_kind(t)
           x == set_up(m, t)
<1>1. kind \in {"MSVC", "MINGW", "UNIX", "MACOS", "EMSCRIPTEN", "WASM"}
  BY DEF toolchain_kind
<1>2. kind = "MSVC" => x = DetectMsvc(m)
  BY DEF set_up
<1>3. kind = "UNIX" => x \in {DetectUnix(m), InstallUnix(m, t.arch)}
  BY DEF set_up
<1>4. kind = "MACOS" => x \in {DetectMacOS(m), InstallMacOS(m)}
  BY DEF set_up
<1>5. x # NoToolchain
  OBVIOUS
<1> HIDE DEF kind, x
<1>6. CASE kind = "MSVC"
  <2>1. \E a, b : x = [tools_path |-> a, lib_path |-> b]
    BY <1>2, <1>5, <1>6 DEF DetectMsvc
  <2>2. deserialize(kind, serialize(kind, x)) = DeserializeMsvc(SerializeMsvc(x))
    BY <1>6 DEF deserialize, serialize
  <2> QED
    BY <2>1, <2>2 DEF DeserializeMsvc, SerializeMsvc, kind, x
<1>7. CASE kind = "UNIX"
  <2>1. \E a, b, c, d, e : x = [linker_path |-> a, linker_args |-> b, extra_libs |-> c, lib_dirs |-> d, crt_dir |-> e]
    <3>1. CASE x = DetectUnix(m)
      BY <1>5, <3>1 DEF DetectUnix
    <3>2. CASE x = InstallUnix(m, t.arch)
      BY <1>5, <3>2 DEF InstallUnix
    <3> QED
      BY <1>3, <1>7, <3>1, <3>2
  <2>2. deserialize(kind, serialize(kind, x)) = DeserializeUnix(SerializeUnix(x))
    BY <1>7 DEF deserialize, serialize
  <2> QED
    BY <2>1, <2>2 DEF DeserializeUnix, SerializeUnix, kind, x
<1>8. CASE kind = "MACOS"
  <2>1. \E a, b, c : x = [linker_path |-> a, sysroot_path |-> b, linker_args |-> c]
    <3>1. CASE x = DetectMacOS(m)
      BY <1>5, <3>1 DEF DetectMacOS
    <3>2. CASE x = InstallMacOS(m)
      BY <1>5, <3>2 DEF InstallMacOS
    <3> QED
      BY <1>4, <1>8, <3>1, <3>2
  <2>2. deserialize(kind, serialize(kind, x)) = DeserializeMacOS(SerializeMacOS(x))
    BY <1>8 DEF deserialize, serialize
  <2> QED
    BY <2>1, <2>2 DEF DeserializeMacOS, SerializeMacOS, kind, x
<1>9. CASE kind \in {"MINGW", "EMSCRIPTEN", "WASM"}
  <2>1. deserialize(kind, serialize(kind, x)) = x
    BY <1>9 DEF deserialize, serialize
  <2> QED
    BY <2>1 DEF kind, x
<1> QED
  BY <1>1, <1>6, <1>7, <1>8, <1>9

\* The compiler writes what the assembler, or else the linker, reads.
LEMMA OutputFileIs ==
    ASSUME NEW config, NEW c, Compiled(config, c), c.request.target \in list_available
    PROVE  LET t == c.request.target
               assembly == IF t.arch = "x86_64" /\ t.env = "msvc" THEN "output.asm" ELSE "output.s"
           IN /\ c.request.asm /\ t.arch # "wasm" => OutputFile(config) = assembly
              /\ c.request.asm /\ t.arch = "wasm" => OutputFile(config) = "output.o"
              /\ ~c.request.asm => OutputFile(config) = LinkedFile(toolchain_kind(t))
              /\ OutputFile(config) \in {"output.o", "output.obj", "output.s", "output.asm"}
<1> DEFINE t == c.request.target
<1>1. /\ t.arch \in {"x86_64", "aarch64", "wasm"}
      /\ t.os \in {"windows", "linux", "macos", "unknown", "emscripten"}
      /\ t.env \in {"msvc", "gnu", None}
      /\ t.arch = "x86_64" => t.env # None
      /\ t.arch = "aarch64" => t.os \in {"linux", "macos"}
      /\ t.arch = "wasm" => t.os \in {"unknown", "emscripten"}
      /\ (t.arch = "x86_64" /\ t.env = "msvc") <=> (t.os = "windows" /\ t.env = "msvc")
      /\ t.arch = "x86_64" => t.os \in {"windows", "linux"}
  BY TargetsAre
<1>2. /\ config.arch = t.arch /\ config.os = t.os /\ (t.env # None => config.env = t.env)
      /\ config.asm <=> c.request.asm
  BY DEF Compiled
<1>3. LinkedFile(toolchain_kind(t)) = IF t.os = "windows" /\ t.env = "msvc" THEN "output.obj" ELSE "output.o"
  <2>1. toolchain_kind(t) = "MSVC" <=> t.os = "windows" /\ t.env = "msvc"
    BY <1>1 DEF toolchain_kind
  <2> QED
    BY <2>1 DEF LinkedFile
<1> HIDE DEF t
<1>4. CASE t.arch = "x86_64"
  <2>1. OutputFile(config) = IF config.asm THEN (IF config.env = "msvc" THEN "output.asm" ELSE "output.s")
                             ELSE IF config.env = "msvc" THEN "output.obj" ELSE "output.o"
    BY <1>2, <1>4 DEF OutputFile
  <2>2. config.env = t.env
    BY <1>1, <1>2, <1>4
  <2> QED
    BY <1>1, <1>2, <1>3, <1>4, <2>1, <2>2 DEF t
<1>5. CASE t.arch = "aarch64"
  <2>1. OutputFile(config) = IF config.asm \/ config.os \notin {"linux", "macos"} THEN "output.s" ELSE "output.o"
    BY <1>2, <1>5 DEF OutputFile
  <2> QED
    BY <1>1, <1>2, <1>3, <1>5, <2>1 DEF t
<1>6. CASE t.arch = "wasm"
  <2>1. OutputFile(config) = "output.o"
    BY <1>2, <1>6 DEF OutputFile
  <2> QED
    BY <1>1, <1>2, <1>3, <1>6, <2>1 DEF t
<1> QED
  BY <1>1, <1>4, <1>5, <1>6

\* A shared library is linked as one, except for WebAssembly.
LEMMA SharedIs ==
    ASSUME NEW t \in list_available, t.arch # "wasm"
    PROVE  SharedFlag(toolchain_kind(t)) # None
<1>1. t.os \in {"windows", "linux", "macos"}
  BY TargetsAre
<1>2. toolchain_kind(t) \in {"MSVC", "MINGW", "UNIX", "MACOS"}
  BY <1>1 DEF toolchain_kind
<1>3. None \notin {"/DLL", "-shared", "-dylib"}
  BY DEF None
<1> QED
  BY <1>2, <1>3 DEF SharedFlag

\* What a command asks for, as the settings of the tool say and as its
\* arguments say.
TargetAsked(argv, host) == LET t == Asked(argv, "target") IN IF t = NoToken THEN host ELSE parse_target(t.parts)
LevelAsked(argv) ==
    LET level == Asked(argv, "opt-level").text
    IN IF level # None THEN level ELSE IF Asked(argv, "config").text = "release" THEN "1" ELSE "0"
RequestFor(argv, host) == Request(parse[argv], host)
Builds == {"build", "run", "test"}
Loading == {"build", "run", "test", "lsp", "format", "invoke"}

\* A valid request asks for what the tokens of its command line say.
LEMMA RequestIs ==
    ASSUME NEW argv \in CommandLines, parse[argv].stop = None, NEW host \in list_available, Valid(RequestFor(argv, host))
    PROVE  LET r == RequestFor(argv, host)
           IN /\ Sensible(r) /\ Flags(r)
              /\ r.hot <=> HasFlag(argv, "hot-reload")
              /\ r.command \in Loading => r.target = TargetAsked(argv, host)
              /\ LevelOf(r) = LevelAsked(argv)
<1> DEFINE p == parse[argv]
           r == RequestFor(argv, host)
           asked == IF p.command \in {"info", "setup", "remove"} THEN p.positional ELSE Setting(p, "target")
           config == Setting(p, "config").text
<1>1. /\ r.command = p.command
      /\ r.target = IF asked = NoToken THEN host ELSE parse_target(asked.parts)
      /\ r.config = IF config = None THEN "debug" ELSE config
      /\ r.level = Setting(p, "opt-level").text
  BY DEF RequestFor, Request
<1>2. r.asm = HasOption(p, "force-asm") /\ r.hot = HasOption(p, "hot-reload")
  BY DEF RequestFor, Request
<1>3. r.target # NoTarget /\ r.config \in {"debug", "release"} /\ r.level \in {None, "0", "1", "2"}
  BY DEF Valid
<1>4. /\ Setting(p, "target") = Asked(argv, "target")
      /\ Setting(p, "config") = Asked(argv, "config")
      /\ Setting(p, "opt-level") = Asked(argv, "opt-level")
  BY SettingAsked DEF Valued
<1>5. HasOption(p, "hot-reload") <=> HasFlag(argv, "hot-reload")
  BY FlagAsked
<1> HIDE DEF r
<1>6. r.target \in list_available
  <2>1. \A parts : parse_target(parts) \in list_available \cup {NoTarget}
    BY DEF parse_target
  <2> HIDE DEF asked
  <2> QED
    BY <1>1, <1>3, <2>1
<1>7. Flags(r)
  BY <1>2 DEF Flags, HasOption
<1>8. r.hot <=> HasFlag(argv, "hot-reload")
  BY <1>2, <1>5
<1>9. r.command \in Loading => r.target = TargetAsked(argv, host)
  BY <1>1, <1>4 DEF TargetAsked, Loading
<1>10. LevelOf(r) = LevelAsked(argv)
  BY <1>1, <1>3, <1>4, NoneIs DEF LevelOf, LevelAsked
<1> QED
  BY <1>3, <1>6, <1>7, <1>8, <1>9, <1>10 DEF Sensible, r

-----------------------------------------------------------------------------
(* The invariant: what a command knows and what it finds on the disk.      *)
Fields == {"argv", "request", "at", "code", "since", "toolchain", "tasks", "name", "type", "compilerArgs", "linkerArgs",
           "libraries", "libraryPaths", "sourcePaths", "frameworks", "generated"}
Preparing == {"cache", "setup", "open cache", "write cache", "manifest", "tasks"}
Linked == {"remove object", "running", "testing", "delegate"}
Finished == cli.code = "0" /\ cli.request.command \in Builds
Idle == [at |-> "exit", code |-> None]

AllTasks ==
    [kind : {"parse", "manifest"}, manifest : Manifests]
    \cup [kind : {"script"}, name : STRING]
    \cup [kind : {"package", "paths"}, name : DOMAIN Project.packages]

\* The project and the machine are those of a history, whose commands are run.
Known ==
    \E h \in Histories :
        /\ setting = [project |-> h.project, machine |-> h.machine]
        /\ lines \in Seq(Range(h.lines))
        /\ cli # Idle => cli.argv \in Range(h.lines)

\* A toolchain file is that of the machine, or only a part of a file.
CacheRight ==
    /\ DOMAIN cache = list_available
    /\ \A t \in list_available :
          \/ cache[t] \in {Absent, Partial}
          \/ /\ set_up(Machine, t) # NoToolchain
             /\ cache[t] = serialize(toolchain_kind(t), set_up(Machine, t))

FilesRight == DOMAIN files = {"output.o", "output.obj", "output.s", "output.asm"}

\* The request is what the arguments ask for.
Requested ==
    \/ cli.at = "exit" /\ cli.request = NoRequest
    \/ /\ parse[cli.argv].stop = None
       /\ cli.request = RequestFor(cli.argv, Machine.host)
       /\ Valid(cli.request)

Timed == cli.since \in Nat /\ sources \in Nat /\ cli.since <= sources

\* Which commands are where.
Commanded ==
    /\ cli.at # "exit" => cli.code = None
    /\ cli.at = "cache" => cli.request.command \in Loading \cup {"info", "remove"}
    /\ cli.at \in {"setup", "open cache", "write cache"} => cli.request.command \in Loading \cup {"setup"}
    /\ cli.at \in {"remove sysroot", "remove cache"} => cli.request.command = "remove"
    /\ cli.at \in {"manifest", "tasks"} => cli.request.command \in Loading
    /\ cli.at \in {"compiler", "assembler", "linker", "remove object"} => cli.request.command \in Builds \cup {"invoke"}
    /\ cli.at = "running" => cli.request.command = "run"
    /\ cli.at = "testing" => cli.request.command = "test"
    /\ cli.at = "delegate" => cli.request.command \in {"run", "lsp", "format"}
    /\ cli.at \in {"venv", "bindgen"} => cli.request.command = "bindgen"
    /\ cli.at # "exit" /\ cli.request.command = "invoke" => cli.request.name \in {"compiler", "assembler", "linker"}

\* The toolchain is that of the machine.
Equipped ==
    cli.at \in {"open cache", "write cache", "manifest", "tasks", "compiler", "assembler", "linker"} \cup Linked \/ Finished =>
        cli.toolchain = set_up(Machine, Wanted) /\ cli.toolchain # NoToolchain

\* What was collected from the manifests contains no option of the tool itself.
Collected ==
    /\ cli.tasks \in Seq(AllTasks)
    /\ IsSeq(cli.sourcePaths) /\ Range(cli.sourcePaths) \cap OwnOptions = {}
    /\ IsSeq(cli.compilerArgs) /\ Range(cli.compilerArgs) \cap OwnOptions \subseteq {"--testing"}
    /\ cli.at \in Preparing => "--testing" \notin Range(cli.compilerArgs)
    /\ cli.at = "compiler" => ("--testing" \in Range(cli.compilerArgs) <=> cli.request.command = "test")

Typed ==
    cli.at \in {"compiler", "assembler", "linker"} \cup Linked \/ Finished =>
        cli.type = IF cli.request.command = "test" THEN "executable" ELSE Project.manifest.type

\* A file was made by this command, for what it asks for.
Current(object) ==
    /\ object.sources >= cli.since
    /\ object.config.arch = Wanted.arch /\ object.config.os = Wanted.os
    /\ object.config.level = LevelOf(cli.request)
    /\ object.config.hot <=> cli.request.hot
    /\ object.config.testing <=> cli.request.command = "test"
CurrentProgram ==
    LET path == get_output_path(cli)
    IN /\ path \in DOMAIN out /\ out[path] # Partial
       /\ Current(out[path].object)
       /\ cli.type = "shared_library" => out[path].command.shared # None
Fresh ==
    cli.request.command \in Builds =>
        /\ cli.at = "assembler" => Current(files[IF Wanted.arch = "wasm" THEN "output.o" ELSE AssemblyFile])
        /\ cli.at = "linker" => Current(files[LinkedFile(toolchain_kind(Wanted))])
        /\ cli.at \in Linked \/ Finished => CurrentProgram

Generated == cli.request.command # "bindgen" => cli.generated = TRUE

InMemory ==
    /\ DOMAIN cli = Fields
    /\ Requested /\ Timed /\ Commanded /\ Equipped /\ Collected /\ Typed /\ Fresh /\ Generated
IInv == Known /\ sources \in Nat /\ CacheRight /\ FilesRight /\ (cli = Idle \/ InMemory)

-----------------------------------------------------------------------------
(* Steps that leave most of the memory of a command as it is.              *)
Steady == setting' = setting /\ sources' = sources /\ lines' = lines
Alike(S) == DOMAIN cli' = Fields /\ \A f \in Fields \ S : cli'[f] = cli[f]
EquippedAt == {"open cache", "write cache", "manifest", "tasks", "compiler", "assembler", "linker"} \cup Linked
TypedAt == {"compiler", "assembler", "linker"} \cup Linked

\* A command that runs remembers more than the place and the code.
LEMMA NotIdle ==
    ASSUME NEW c, DOMAIN c = Fields
    PROVE  c # Idle
<1>1. DOMAIN Idle = {"at", "code"}
  BY DEF Idle
<1>2. "argv" \in Fields /\ "argv" \notin {"at", "code"}
  BY DEF Fields
<1> QED
  BY <1>1, <1>2

\* A command that has not ended is in memory.
LEMMA RunningIs ==
    ASSUME IInv, cli.at # "exit"
    PROVE  InMemory
<1>1. cli = Idle => cli.at = "exit"
  BY DEF Idle
<1> QED
  BY <1>1 DEF IInv

\* The next place, and the end.
LEMMA AtIs ==
    ASSUME DOMAIN cli = Fields, NEW place, cli' = At(place)
    PROVE  Alike({"at"}) /\ cli'.at = place
BY DEF At, Alike, Fields

\* Only the place and the code change when a command ends.
LEMMA EndedIs ==
    ASSUME DOMAIN cli = Fields, NEW code, cli' = Ended(code)
    PROVE  Alike({"at", "code"}) /\ cli'.at = "exit" /\ cli'.code = code
BY DEF Ended, Alike, Fields

\* What a step leaves alone is as it was.
LEMMA AlikeKeeps ==
    ASSUME IInv, InMemory, cli.at # "exit", Steady, NEW S, Alike(S), S \cap {"argv", "request", "since", "generated"} = {}
    PROVE  /\ Known' /\ sources' \in Nat /\ DOMAIN cli' = Fields
           /\ Requested' /\ Timed' /\ Generated'
           /\ cli'.request = cli.request /\ cli'.since = cli.since
<1>1. {"argv", "request", "since", "generated"} \subseteq Fields
  BY DEF Fields
<1>2. cli'["argv"] = cli["argv"] /\ cli'["request"] = cli["request"] /\ cli'["since"] = cli["since"]
      /\ cli'["generated"] = cli["generated"] /\ DOMAIN cli' = Fields
  BY <1>1 DEF Alike
<1>3. cli'.argv = cli.argv /\ cli'.request = cli.request /\ cli'.since = cli.since /\ cli'.generated = cli.generated
  BY <1>2
<1>4. Known'
  <2>1. cli # Idle
    BY NotIdle DEF InMemory
  <2> QED
    BY <1>3, <2>1 DEF IInv, Known, Steady
<1>5. Requested'
  BY <1>3 DEF InMemory, Requested, Steady, Machine
<1>6. Timed' /\ sources' \in Nat
  BY <1>3 DEF InMemory, Timed, Steady
<1>7. Generated'
  BY <1>3 DEF InMemory, Generated
<1> QED
  BY <1>2, <1>3, <1>4, <1>5, <1>6, <1>7

\* What else a command needs to go on.
GoesOn == CacheRight' /\ FilesRight' /\ Commanded' /\ Equipped' /\ Collected' /\ Typed' /\ Fresh'

\* A step that keeps the parts of the invariant keeps the invariant.
LEMMA Together ==
    ASSUME IInv, InMemory, cli.at # "exit", Steady, NEW S, Alike(S), S \cap {"argv", "request", "since", "generated"} = {}, GoesOn
    PROVE  IInv'
<1>1. /\ Known' /\ sources' \in Nat /\ DOMAIN cli' = Fields
      /\ Requested' /\ Timed' /\ Generated'
  BY AlikeKeeps
<1> QED
  BY <1>1 DEF IInv, InMemory, GoesOn

\* A toolchain file is not touched.
LEMMA CacheKept ==
    ASSUME IInv, UNCHANGED <<setting, cache>>
    PROVE  CacheRight'
BY DEF IInv, CacheRight, Machine

\* Nor are the files between the tools.
LEMMA FilesKept ==
    ASSUME IInv, UNCHANGED files
    PROVE  FilesRight'
BY DEF IInv, FilesRight

\* A command ends without having built anything.
LEMMA EndedKeeps ==
    ASSUME IInv, cli.at # "exit", Steady, CacheRight', FilesRight', NEW code, cli' = Ended(code),
           code = "0" => cli.request.command \notin Builds
    PROVE  IInv'
<1>1. InMemory
  BY RunningIs
<1>2. Alike({"at", "code"}) /\ cli'.at = "exit" /\ cli'.code = code
  BY <1>1, EndedIs DEF InMemory
<1> DEFINE S == {"at", "code"}
<1>3. S \cap {"argv", "request", "since", "generated"} = {} /\ Alike(S)
  BY <1>2
<1> HIDE DEF S
<1>4. cli'.request = cli.request
  BY <1>1, <1>3, AlikeKeeps
<1>5. /\ cli'.tasks = cli.tasks /\ cli'.sourcePaths = cli.sourcePaths /\ cli'.compilerArgs = cli.compilerArgs
      /\ cli'.type = cli.type
  BY <1>3 DEF Alike, Fields, S
<1>6. ~Finished'
  BY <1>2, <1>4 DEF Finished
<1>7. Commanded'
  BY <1>2 DEF Commanded
<1>8. Equipped' /\ Typed' /\ Fresh'
  BY <1>2, <1>6 DEF Equipped, Typed, Fresh, Linked
<1>9. Collected'
  <2>1. Collected
    BY <1>1 DEF InMemory
  <2>2. Project' = Project
    BY DEF Steady, Project
  <2> QED
    BY <1>2, <1>5, <2>1, <2>2 DEF Collected, Preparing, AllTasks
<1> QED
  BY <1>1, <1>3, <1>7, <1>8, <1>9, Together DEF GoesOn

\* A command goes on without having linked anything.
LEMMA MovesOn ==
    ASSUME IInv, cli.at # "exit", Steady, CacheRight', FilesRight', NEW place, place # "compiler", cli' = At(place),
           Commanded', Fresh', place # "exit",
           place \in EquippedAt => cli.at \in EquippedAt,
           place \in TypedAt => cli.at \in TypedAt,
           place \in Preparing => cli.at \in Preparing
    PROVE  IInv'
<1>1. InMemory
  BY RunningIs
<1> DEFINE S == {"at"}
<1>2. S \cap {"argv", "request", "since", "generated"} = {} /\ Alike(S) /\ cli'.at = place
  BY <1>1, AtIs DEF InMemory
<1> HIDE DEF S
<1>3. cli'.request = cli.request
  BY <1>1, <1>2, AlikeKeeps
<1>4. /\ cli'.tasks = cli.tasks /\ cli'.sourcePaths = cli.sourcePaths /\ cli'.compilerArgs = cli.compilerArgs
      /\ cli'.type = cli.type /\ cli'.toolchain = cli.toolchain /\ cli'.code = cli.code
  BY <1>2 DEF Alike, Fields, S
<1>5. cli.code = None
  BY <1>1 DEF InMemory, Commanded
<1>6. ~Finished'
  BY <1>4, <1>5, NoneIs DEF Finished
<1>7. Project' = Project /\ Machine' = Machine /\ Wanted' = Wanted
  BY <1>3 DEF Steady, Project, Machine, Wanted
<1>8. Equipped'
  <2>1. Equipped
    BY <1>1 DEF InMemory
  <2> QED
    BY <1>2, <1>4, <1>6, <1>7, <2>1 DEF Equipped, EquippedAt
<1>9. Typed'
  <2>1. Typed
    BY <1>1 DEF InMemory
  <2> QED
    BY <1>2, <1>3, <1>4, <1>6, <1>7, <2>1 DEF Typed, TypedAt
<1>10. Collected'
  <2>1. Collected
    BY <1>1 DEF InMemory
  <2>2. Project' = Project
    BY DEF Steady, Project
  <2> QED
    BY <1>2, <1>4, <2>1, <2>2 DEF Collected, AllTasks
<1> QED
  BY <1>1, <1>2, <1>8, <1>9, <1>10, Together DEF GoesOn

\* A linked program stays what it is while it is run or tested.
LEMMA LinkedKeeps ==
    ASSUME IInv, cli.at \in Linked, Steady, CacheRight', FilesRight', UNCHANGED out, Commanded',
           NEW S, Alike(S), S \subseteq {"at", "code"}, cli'.at \in Linked \cup {"exit"},
           cli'.at = "exit" \/ cli'.code = cli.code
    PROVE  IInv'
<1>0. cli.at # "exit"
  BY DEF Linked
<1>1. InMemory
  BY <1>0, RunningIs
<1>2. S \cap {"argv", "request", "since", "generated"} = {}
  OBVIOUS
<1>3. cli'.request = cli.request /\ cli'.since = cli.since
  BY <1>0, <1>1, <1>2, AlikeKeeps
<1>4. /\ cli'.tasks = cli.tasks /\ cli'.sourcePaths = cli.sourcePaths /\ cli'.compilerArgs = cli.compilerArgs
      /\ cli'.type = cli.type /\ cli'.toolchain = cli.toolchain /\ cli'.name = cli.name
  BY DEF Alike, Fields
<1>5. Project' = Project /\ Machine' = Machine /\ Wanted' = Wanted
  BY <1>3 DEF Steady, Project, Machine, Wanted
<1>6. Equipped'
  <2>1. cli.toolchain = set_up(Machine, Wanted) /\ cli.toolchain # NoToolchain
    BY <1>1 DEF InMemory, Equipped
  <2> QED
    BY <1>4, <1>5, <2>1 DEF Equipped
<1>7. Typed'
  <2>1. cli.type = IF cli.request.command = "test" THEN "executable" ELSE Project.manifest.type
    BY <1>1 DEF InMemory, Typed
  <2> QED
    BY <1>3, <1>4, <1>5, <2>1 DEF Typed
<1>8. Collected'
  <2>1. Collected
    BY <1>1 DEF InMemory
  <2>2. cli'.at \notin Preparing \cup {"compiler"}
    BY DEF Linked, Preparing
  <2> QED
    BY <1>4, <1>5, <2>1, <2>2 DEF Collected, AllTasks
<1>9. Fresh'
  <2>1. cli'.at # "assembler" /\ cli'.at # "linker"
    BY DEF Linked
  <2>2. get_output_path(cli') = get_output_path(cli)
    BY <1>3, <1>4 DEF get_output_path
  <2>3. ASSUME cli.request.command \in Builds PROVE CurrentProgram'
    <3>1. CurrentProgram
      BY <1>1, <2>3 DEF InMemory, Fresh
    <3> QED
      BY <1>3, <1>4, <1>5, <2>2, <3>1 DEF CurrentProgram, Current
  <2> QED
    BY <1>3, <2>1, <2>3 DEF Fresh
<1> QED
  BY <1>0, <1>1, <1>2, <1>6, <1>7, <1>8, <1>9, Together DEF GoesOn

-----------------------------------------------------------------------------
(* The steps, one after the other.                                         *)

\* The invariant holds at the start.
LEMMA InitHolds ==
    ASSUME Init
    PROVE  IInv
<1>1. cli = Idle
  BY DEF Init, Idle
<1>2. PICK h \in Histories : setting = [project |-> h.project, machine |-> h.machine] /\ lines = h.lines
  BY DEF Init
<1>3. Known
  <2>1. h.lines \in Seq(Seq(Tokens))
    BY HistoriesAssumption
  <2>2. lines \in Seq(Range(h.lines))
    BY <1>2, <2>1, SeqIs DEF IsSeq
  <2> QED
    BY <1>1, <1>2, <2>2 DEF Known
<1>4. sources \in Nat /\ CacheRight /\ FilesRight
  BY DEF Init, CacheRight, FilesRight
<1> QED
  BY <1>1, <1>3, <1>4 DEF IInv

\* An edit makes the sources newer than any object file.
LEMMA EditSourcesKeeps ==
    ASSUME IInv, EditSources
    PROVE  IInv'
<1>1. sources' = sources + 1 /\ sources \in Nat /\ UNCHANGED <<setting, cache, installed, files, out, lines, cli, faults>>
  BY DEF EditSources, IInv, disk
<1>2. sources' \in Nat
  BY <1>1
<1>3. Known' /\ CacheRight' /\ FilesRight'
  BY <1>1 DEF IInv, Known, CacheRight, FilesRight, Machine
<1>4. ASSUME InMemory PROVE InMemory'
  <2>1. cli' = cli /\ setting' = setting /\ files' = files /\ out' = out
    BY <1>1
  <2>2. Timed'
    BY <1>1, <1>4 DEF InMemory, Timed
  <2>3. Requested' /\ Commanded' /\ Generated'
    BY <1>4, <2>1 DEF InMemory, Requested, Commanded, Generated, Machine
  <2>4. Equipped' /\ Typed'
    BY <1>4, <2>1 DEF InMemory, Equipped, Typed, Machine, Project, Wanted, Finished
  <2>5. Collected'
    BY <1>4, <2>1 DEF InMemory, Collected, AllTasks, Project
  <2>6. Fresh'
    BY <1>4, <2>1 DEF InMemory, Fresh, Current, CurrentProgram, Wanted, Finished, AssemblyFile
  <2> QED
    BY <1>4, <2>1, <2>2, <2>3, <2>4, <2>5, <2>6 DEF InMemory
<1> QED
  BY <1>1, <1>2, <1>3, <1>4 DEF IInv

\* A command is killed between two steps.
LEMMA InterruptKeeps ==
    ASSUME IInv, Interrupt
    PROVE  IInv'
<1>1. cli.at # "exit" /\ cli' = Ended("signal") /\ UNCHANGED <<setting, sources, cache, files, lines>>
  BY DEF Interrupt, disk
<1>2. CacheRight' /\ FilesRight'
  BY <1>1, CacheKept, FilesKept
<1> QED
  BY <1>1, <1>2, EndedKeeps DEF Steady

\* What a command that runs knows of its request and of the machine.
LEMMA RequestOf ==
    ASSUME IInv, cli.at # "exit"
    PROVE  /\ Sensible(cli.request) /\ Flags(cli.request)
           /\ Wanted \in list_available /\ Machine.host \in list_available
           /\ Project.manifest \in Manifests
           /\ \A n \in DOMAIN Project.packages : Project.packages[n].manifest \in Manifests
           /\ \A m \in Manifests : Range(m.packages) \subseteq DOMAIN Project.packages
<1>1. InMemory
  BY RunningIs
<1>2. PICK h \in Histories : /\ setting = [project |-> h.project, machine |-> h.machine]
                             /\ cli # Idle => cli.argv \in Range(h.lines)
  BY DEF IInv, Known
<1>3. cli.argv \in CommandLines
  <2>1. cli # Idle
    BY <1>1, NotIdle DEF InMemory
  <2> QED
    BY <1>2, <2>1 DEF CommandLines
<1>4. Machine = h.machine /\ Project = h.project
  BY <1>2 DEF Machine, Project
<1>5. Machine.host \in list_available
  BY <1>4, HistoriesAssumption
<1>6. parse[cli.argv].stop = None /\ cli.request = RequestFor(cli.argv, Machine.host) /\ Valid(cli.request)
  BY <1>1 DEF InMemory, Requested
<1>7. Sensible(cli.request) /\ Flags(cli.request)
  BY <1>3, <1>5, <1>6, RequestIs
<1>8. Wanted \in list_available
  BY <1>7 DEF Sensible, Wanted
<1> QED
  BY <1>4, <1>5, <1>7, <1>8, HistoriesAssumption

\* A command goes on where it has not built anything yet.
Early == Preparing \cup {"remove sysroot", "remove cache", "bindgen"}

\* A step to one of these places keeps the invariant.
LEMMA GoesEarly ==
    ASSUME IInv, cli.at # "exit", Steady, CacheRight', FilesRight', NEW place \in Early, cli' = At(place),
           place \in Preparing => cli.at \in Preparing,
           place \in {"open cache", "write cache", "manifest", "tasks"} => cli.at \in EquippedAt,
           place = "manifest" => cli.request.command \in Loading,
           place = "tasks" => cli.request.command \in Loading,
           place = "cache" => cli.request.command \in Loading \cup {"info", "remove"},
           place \in {"setup", "open cache", "write cache"} => cli.request.command \in Loading \cup {"setup"},
           place \in {"remove sysroot", "remove cache"} => cli.request.command = "remove",
           place = "bindgen" => cli.request.command = "bindgen"
    PROVE  IInv'
<1>1. InMemory
  BY RunningIs
<1>2. cli'.at = place /\ cli'.request = cli.request /\ cli'.code = cli.code
  BY <1>1 DEF At, InMemory, Fields
<1>3. cli.code = None /\ (cli.request.command = "invoke" => cli.request.name \in {"compiler", "assembler", "linker"})
  BY <1>1 DEF InMemory, Commanded
<1>4. place \notin {"exit", "compiler", "assembler", "linker", "venv"} \cup Linked /\ place \notin TypedAt
  BY DEF Early, Preparing, Linked, TypedAt
<1>5. Commanded'
  BY <1>2, <1>3, <1>4 DEF Commanded, Linked, Early, Preparing
<1>6. ~Finished'
  BY <1>2, <1>3, NoneIs DEF Finished
<1>7. Fresh'
  BY <1>2, <1>4, <1>6 DEF Fresh
<1>8. place \in EquippedAt => cli.at \in EquippedAt
  BY <1>4 DEF EquippedAt
<1> QED
  BY <1>4, <1>5, <1>7, <1>8, MovesOn

\* Opening the toolchain file empties it.
LEMMA OpenCacheKeeps ==
    ASSUME IInv, OpenCache
    PROVE  IInv'
<1>1. /\ cli.at = "open cache" /\ cache' = [cache EXCEPT ![Wanted] = Partial] /\ cli' = At("write cache")
      /\ Steady /\ UNCHANGED files
  BY DEF OpenCache, Steady
<1>2. CacheRight'
  BY <1>1 DEF IInv, CacheRight, Steady, Machine
<1>3. FilesRight'
  BY <1>1, FilesKept
<1>4. cli.request.command \in Loading \cup {"setup"}
  BY <1>1, RunningIs DEF InMemory, Commanded
<1> QED
  BY <1>1, <1>2, <1>3, <1>4, GoesEarly DEF Early, Preparing, EquippedAt

\* Then the toolchain of the machine is written.
LEMMA WriteCacheKeeps ==
    ASSUME IInv, WriteCache
    PROVE  IInv'
<1>1. /\ cli.at = "write cache" /\ cache' = [cache EXCEPT ![Wanted] = serialize(toolchain_kind(Wanted), cli.toolchain)]
      /\ cli' = IF cli.request.command = "setup" THEN Ended("0") ELSE At("manifest")
      /\ Steady /\ UNCHANGED files
  BY DEF WriteCache, Steady
<1>2. InMemory
  BY <1>1, RunningIs
<1>3. cli.toolchain = set_up(Machine, Wanted) /\ cli.toolchain # NoToolchain
  BY <1>1, <1>2 DEF InMemory, Equipped
<1>4. CacheRight'
  <2>1. DOMAIN cache = list_available /\ DOMAIN cache' = list_available
    BY <1>1 DEF IInv, CacheRight
  <2>2. ASSUME NEW t \in list_available, t # Wanted PROVE cache'[t] = cache[t]
    BY <1>1, <2>1, <2>2
  <2>3. Wanted \in list_available => cache'[Wanted] = serialize(toolchain_kind(Wanted), set_up(Machine, Wanted))
    BY <1>1, <1>3, <2>1
  <2>4. Machine' = Machine
    BY <1>1 DEF Steady, Machine
  <2> QED
    BY <1>3, <2>1, <2>2, <2>3, <2>4 DEF IInv, CacheRight
<1>5. FilesRight'
  BY <1>1, FilesKept
<1>6. cli.request.command \in Loading \cup {"setup"}
  BY <1>1, <1>2 DEF InMemory, Commanded
<1>7. CASE cli.request.command = "setup"
  BY <1>1, <1>4, <1>5, <1>7, EndedKeeps DEF Builds
<1>8. CASE cli.request.command # "setup"
  BY <1>1, <1>4, <1>5, <1>6, <1>8, GoesEarly DEF Early, Preparing, EquippedAt
<1> QED
  BY <1>7, <1>8

\* The sysroot is removed.
LEMMA RemoveSysrootKeeps ==
    ASSUME IInv, RemoveSysroot
    PROVE  IInv'
<1>1. cli.at = "remove sysroot" /\ cli' = At("remove cache") /\ Steady /\ UNCHANGED <<files, cache>>
  BY DEF RemoveSysroot, Steady
<1>2. CacheRight' /\ FilesRight'
  BY <1>1, CacheKept, FilesKept DEF Steady
<1>3. cli.request.command = "remove"
  BY <1>1, RunningIs DEF InMemory, Commanded
<1> QED
  BY <1>1, <1>2, <1>3, GoesEarly DEF Early, Preparing

\* A toolchain file that was removed is absent.
LEMMA RemoveCacheKeeps ==
    ASSUME IInv, RemoveCache
    PROVE  IInv'
<1>1. cli.at = "remove cache" /\ cache' = [cache EXCEPT ![Wanted] = Absent] /\ cli' = Ended("0") /\ Steady /\ UNCHANGED files
  BY DEF RemoveCache, Steady
<1>2. CacheRight'
  BY <1>1 DEF IInv, CacheRight, Steady, Machine
<1>3. FilesRight'
  BY <1>1, FilesKept
<1>4. cli.request.command = "remove"
  BY <1>1, RunningIs DEF InMemory, Commanded
<1> QED
  BY <1>1, <1>2, <1>3, <1>4, EndedKeeps DEF Builds

\* The steps of bindgen do not touch what a build needs.
LEMMA CreateEnvironmentKeeps ==
    ASSUME IInv, CreateEnvironment
    PROVE  IInv'
<1>1. cli.at = "venv" /\ cli' = At("bindgen") /\ Steady /\ UNCHANGED <<files, cache>>
  BY DEF CreateEnvironment, Steady
<1>2. CacheRight' /\ FilesRight'
  BY <1>1, CacheKept, FilesKept DEF Steady
<1>3. cli.request.command = "bindgen"
  BY <1>1, RunningIs DEF InMemory, Commanded
<1> QED
  BY <1>1, <1>2, <1>3, GoesEarly DEF Early, Preparing

\* The toolchain of the machine is at hand.
LEMMA EquippedKeeps ==
    ASSUME IInv, cli.at \in {"cache", "setup"}, Steady, CacheRight', FilesRight',
           NEW place \in {"open cache", "manifest", "remove sysroot"},
           cli' = [cli EXCEPT !.at = place, !.toolchain = set_up(Machine, Wanted)], set_up(Machine, Wanted) # NoToolchain,
           place = "open cache" => cli.request.command \in Loading \cup {"setup"},
           place = "manifest" => cli.request.command \in Loading,
           place = "remove sysroot" => cli.request.command = "remove"
    PROVE  IInv'
<1>0. cli.at # "exit" /\ cli.at \in Preparing
  BY DEF Preparing
<1>1. InMemory
  BY <1>0, RunningIs
<1> DEFINE S == {"at", "toolchain"}
<1>2. Alike(S) /\ S \cap {"argv", "request", "since", "generated"} = {}
  BY <1>1 DEF InMemory, Alike, Fields
<1> HIDE DEF S
<1>3. /\ cli'.at = place /\ cli'.toolchain = set_up(Machine, Wanted)
      /\ cli'.request = cli.request /\ cli'.code = cli.code /\ cli'.tasks = cli.tasks
      /\ cli'.sourcePaths = cli.sourcePaths /\ cli'.compilerArgs = cli.compilerArgs
  BY <1>1 DEF InMemory, Fields
<1>4. cli.code = None /\ (cli.request.command = "invoke" => cli.request.name \in {"compiler", "assembler", "linker"})
  BY <1>1 DEF InMemory, Commanded
<1>5. ~Finished'
  BY <1>3, <1>4, NoneIs DEF Finished
<1>6. Machine' = Machine /\ Wanted' = Wanted /\ Project' = Project
  BY <1>3 DEF Steady, Machine, Wanted, Project
<1>7. Commanded'
  BY <1>3, <1>4 DEF Commanded
<1>8. Equipped'
  BY <1>3, <1>6 DEF Equipped
<1>9. Typed' /\ Fresh'
  BY <1>3, <1>5 DEF Typed, Fresh, Linked
<1>10. Collected'
  BY <1>0, <1>1, <1>3, <1>6 DEF InMemory, Collected, AllTasks
<1> QED
  BY <1>0, <1>1, <1>2, <1>7, <1>8, <1>9, <1>10, Together DEF GoesOn

\* The toolchain file is looked at.
LEMMA LoadCachedToolchainKeeps ==
    ASSUME IInv, LoadCachedToolchain
    PROVE  IInv'
<1>1. cli.at = "cache" /\ Steady /\ UNCHANGED <<cache, files>>
  BY DEF LoadCachedToolchain, Steady, disk
<1>2. CacheRight' /\ FilesRight'
  BY <1>1, CacheKept, FilesKept DEF Steady
<1>3. Wanted \in list_available
  BY <1>1, RequestOf
<1>4. cli.request.command \in Loading \cup {"info", "remove"}
  BY <1>1, RunningIs DEF InMemory, Commanded
<1>5. CASE cache[Wanted] = Absent
  <2>1. cli' = CASE cli.request.command = "info" -> Ended("1") [] cli.request.command = "remove" -> Ended("0")
                 [] OTHER -> At("setup")
    BY <1>5 DEF LoadCachedToolchain
  <2>2. CASE cli.request.command = "info"
    BY <1>1, <1>2, <2>1, <2>2, EndedKeeps
  <2>3. CASE cli.request.command = "remove"
    BY <1>1, <1>2, <2>1, <2>3, EndedKeeps DEF Builds
  <2>4. CASE cli.request.command \in Loading
    <3>1. cli' = At("setup")
      BY <2>1, <2>4 DEF Loading
    <3> QED
      BY <1>1, <1>2, <2>4, <3>1, GoesEarly DEF Early, Preparing
  <2> QED
    BY <1>4, <2>2, <2>3, <2>4
<1>6. CASE cache[Wanted] # Absent /\ cache[Wanted] = Partial
  BY <1>1, <1>2, <1>6, EndedKeeps DEF LoadCachedToolchain
<1>7. CASE cache[Wanted] \notin {Absent, Partial}
  <2> DEFINE kind == toolchain_kind(Wanted)
             tc == set_up(Machine, Wanted)
  <2>1. tc # NoToolchain /\ cache[Wanted] = serialize(kind, tc)
    BY <1>3, <1>7 DEF IInv, CacheRight
  <2>2. deserialize(kind, cache[Wanted]) = tc
    BY <2>1, CachedIs
  <2>3. cli' = LET loaded == [cli EXCEPT !.toolchain = deserialize(kind, cache[Wanted])]
               IN CASE cli.request.command = "info" -> Ended("0")
                    [] cli.request.command = "remove" -> [loaded EXCEPT !.at = "remove sysroot"]
                    [] OTHER -> [loaded EXCEPT !.at = "manifest"]
    BY <1>7 DEF LoadCachedToolchain
  <2> HIDE DEF kind, tc
  <2>4. ASSUME NEW place PROVE [[cli EXCEPT !.toolchain = tc] EXCEPT !.at = place] = [cli EXCEPT !.at = place, !.toolchain = tc]
    <3>1. DOMAIN cli = Fields
      BY <1>1, RunningIs DEF InMemory
    <3> QED
      BY <3>1 DEF Fields
  <2>5. CASE cli.request.command = "info"
    BY <1>1, <1>2, <2>3, <2>5, EndedKeeps DEF Builds
  <2>6. CASE cli.request.command = "remove"
    <3>1. cli' = [cli EXCEPT !.at = "remove sysroot", !.toolchain = tc]
      BY <2>2, <2>3, <2>4, <2>6
    <3> QED
      BY <1>1, <1>2, <2>1, <2>6, <3>1, EquippedKeeps DEF tc
  <2>7. CASE cli.request.command \in Loading
    <3>1. cli.request.command \notin {"info", "remove"}
      BY <2>7 DEF Loading
    <3>2. cli' = [cli EXCEPT !.at = "manifest", !.toolchain = tc]
      BY <2>2, <2>3, <2>4, <3>1
    <3> QED
      BY <1>1, <1>2, <2>1, <2>7, <3>2, EquippedKeeps DEF tc
  <2> QED
    BY <1>4, <2>5, <2>6, <2>7
<1> QED
  BY <1>5, <1>6, <1>7

\* The tools of the machine are looked for, a sysroot is installed.
LEMMA SetUpToolchainKeeps ==
    ASSUME IInv, SetUpToolchain
    PROVE  IInv'
<1>1. cli.at = "setup" /\ Steady /\ UNCHANGED <<cache, files>>
  BY DEF SetUpToolchain, Steady
<1>2. CacheRight' /\ FilesRight'
  BY <1>1, CacheKept, FilesKept DEF Steady
<1>3. cli.request.command \in Loading \cup {"setup"}
  BY <1>1, RunningIs DEF InMemory, Commanded
<1> DEFINE tc == set_up(Machine, Wanted)
           sysroot == SysrootOf(Machine, Wanted)
           ready == [cli EXCEPT !.at = "open cache", !.toolchain = tc]
<1>4. cli' = Ended("1") \/ (tc # NoToolchain /\ cli' = ready)
  <2>1. CASE tc = NoToolchain
    BY <2>1 DEF SetUpToolchain
  <2>2. CASE tc # NoToolchain
    BY <2>2 DEF SetUpToolchain
  <2> QED
    BY <2>1, <2>2
<1>5. CASE cli' = Ended("1")
  BY <1>1, <1>2, <1>5, EndedKeeps
<1>6. CASE tc # NoToolchain /\ cli' = ready
  BY <1>1, <1>2, <1>3, <1>6, EquippedKeeps
<1> QED
  BY <1>4, <1>5, <1>6

\* A command goes on loading manifests.
Lists == {"tasks", "name", "libraryPaths", "sourcePaths", "compilerArgs", "linkerArgs", "libraries", "frameworks"}

\* A step that only adds to the lists keeps the invariant.
LEMMA LoadingKeeps ==
    ASSUME IInv, cli.at \in {"manifest", "tasks"}, Steady, UNCHANGED <<cache, files>>,
           NEW S, Alike(S), S \subseteq Lists \cup {"at"}, cli'.at = "tasks",
           cli'.tasks \in Seq(AllTasks),
           IsSeq(cli'.sourcePaths), Range(cli'.sourcePaths) \cap OwnOptions = {},
           IsSeq(cli'.compilerArgs), Range(cli'.compilerArgs) \cap OwnOptions = {}
    PROVE  IInv'
<1>0. cli.at # "exit"
  OBVIOUS
<1>1. InMemory
  BY <1>0, RunningIs
<1>2. S \cap {"argv", "request", "since", "generated"} = {}
  BY DEF Lists
<1>3. cli'.request = cli.request
  BY <1>0, <1>1, <1>2, AlikeKeeps
<1>4. cli'.toolchain = cli.toolchain /\ cli'.code = cli.code
  <2>1. {"toolchain", "code"} \subseteq Fields \ S
    BY DEF Fields, Lists
  <2>2. cli'["toolchain"] = cli["toolchain"] /\ cli'["code"] = cli["code"]
    BY <2>1 DEF Alike
  <2> QED
    BY <2>2
<1>5. cli.code = None /\ cli.request.command \in Loading /\ (cli.request.command = "invoke" => cli.request.name \in {"compiler", "assembler", "linker"})
  BY <1>1 DEF InMemory, Commanded
<1>6. ~Finished'
  BY <1>4, <1>5, NoneIs DEF Finished
<1>7. Machine' = Machine /\ Wanted' = Wanted /\ Project' = Project
  BY <1>3 DEF Steady, Machine, Wanted, Project
<1>8. Commanded'
  BY <1>3, <1>4, <1>5 DEF Commanded
<1>9. Equipped'
  <2>1. cli.toolchain = set_up(Machine, Wanted) /\ cli.toolchain # NoToolchain
    BY <1>1 DEF InMemory, Equipped
  <2> QED
    BY <1>4, <1>7, <2>1 DEF Equipped
<1>10. Typed' /\ Fresh'
  BY <1>6 DEF Typed, Fresh, Linked
<1>11. Collected'
  <2>1. "--testing" \notin Range(cli'.compilerArgs)
    BY DEF OwnOptions
  <2>2. AllTasks' = AllTasks
    BY <1>7 DEF AllTasks
  <2> QED
    BY <2>1, <2>2 DEF Collected
<1>12. CacheRight' /\ FilesRight'
  BY CacheKept, FilesKept DEF Steady
<1> QED
  BY <1>0, <1>1, <1>2, <1>8, <1>9, <1>10, <1>11, <1>12, Together DEF GoesOn

\* What a command that loads manifests has so far.
LEMMA LoadingIs ==
    ASSUME IInv, cli.at \in {"manifest", "tasks"}
    PROVE  /\ DOMAIN cli = Fields /\ cli.tasks \in Seq(AllTasks)
           /\ IsSeq(cli.sourcePaths) /\ Range(cli.sourcePaths) \cap OwnOptions = {}
           /\ IsSeq(cli.compilerArgs) /\ Range(cli.compilerArgs) \cap OwnOptions = {}
<1>1. InMemory
  BY RunningIs
<1>2. cli.at \in Preparing
  BY DEF Preparing
<1>3. /\ cli.tasks \in Seq(AllTasks)
      /\ IsSeq(cli.sourcePaths) /\ Range(cli.sourcePaths) \cap OwnOptions = {}
      /\ IsSeq(cli.compilerArgs) /\ Range(cli.compilerArgs) \cap OwnOptions \subseteq {"--testing"}
      /\ "--testing" \notin Range(cli.compilerArgs)
  BY <1>1, <1>2 DEF InMemory, Collected
<1>4. Range(cli.compilerArgs) \cap OwnOptions = {}
  BY <1>3
<1> QED
  BY <1>1, <1>3, <1>4 DEF InMemory

\* The next task names a manifest or a package of the project.
LEMMA NextTask ==
    ASSUME IInv, NEW kind, IsNext(kind)
    PROVE  /\ RestTasks \in Seq(AllTasks)
           /\ kind \in {"parse", "manifest"} => Head(cli.tasks).manifest \in Manifests
           /\ kind \in {"package", "paths"} => Head(cli.tasks).name \in DOMAIN Project.packages
<1>1. cli.tasks \in Seq(AllTasks) /\ cli.tasks # <<>> /\ Head(cli.tasks).kind = kind
  BY LoadingIs DEF IsNext
<1>2. Head(cli.tasks) \in AllTasks /\ RestTasks \in Seq(AllTasks)
  <2> DEFINE S == AllTasks
             s == cli.tasks
  <2>1. s \in Seq(S) /\ s # <<>>
    BY <1>1
  <2> HIDE DEF S, s
  <2>2. Head(s) \in S /\ Tail(s) \in Seq(S)
    BY <2>1
  <2> QED
    BY <2>2 DEF S, s, RestTasks
<1> QED
  BY <1>1, <1>2 DEF AllTasks

\* The parts of a manifest are manifests.
LEMMA PartsAre ==
    ASSUME NEW T, NEW M, NEW s \in Seq([target : T, manifest : M])
    PROVE  Len(s) \in Nat /\ DOMAIN s = 1..Len(s) /\ \A k \in DOMAIN s : s[k].manifest \in M
<1> DEFINE R == [target : T, manifest : M]
<1>1. s \in Seq(R) /\ \A r \in R : r.manifest \in M
  OBVIOUS
<1> HIDE DEF R
<1>2. Len(s) \in Nat /\ DOMAIN s = 1..Len(s) /\ \A k \in DOMAIN s : s[k] \in R
  BY <1>1
<1> QED
  BY <1>1, <1>2

\* The manifests are what they are assumed to be.
LEMMA ManifestIs ==
    ASSUME NEW m \in Manifests
    PROVE  /\ \E S : m.args \in Seq(S)
           /\ \E S : m.packages \in Seq(S)
           /\ m.targets \in Seq([target : list_available, manifest : Manifests])
           /\ m.type \in ManifestTypes
           /\ m.build_script \in STRING
BY ManifestsAssumption

\* The project's manifest comes first.
LEMMA LoadRootManifestKeeps ==
    ASSUME IInv, LoadRootManifest
    PROVE  IInv'
<1> DEFINE m == Project.manifest
           S == {"at", "name", "sourcePaths", "tasks"}
<1>1. /\ cli.at = "manifest" /\ Steady /\ UNCHANGED <<cache, files>>
      /\ cli' = [cli EXCEPT !.at = "tasks", !.name = m.name, !.sourcePaths = <<"src">>,
                            !.tasks = <<ParseTask(m), ManifestTask(m)>>]
  BY DEF LoadRootManifest, Steady, disk
<1>2. m \in Manifests
  BY <1>1, RequestOf
<1>3. DOMAIN cli = Fields /\ IsSeq(cli.compilerArgs) /\ Range(cli.compilerArgs) \cap OwnOptions = {}
  BY <1>1, LoadingIs
<1>4. <<ParseTask(m), ManifestTask(m)>> \in Seq(AllTasks)
  <2>1. ParseTask(m) \in AllTasks /\ ManifestTask(m) \in AllTasks
    BY <1>2 DEF ParseTask, ManifestTask, AllTasks
  <2> QED
    BY <2>1
<1>5. IsSeq(<<"src">>) /\ Range(<<"src">>) \cap OwnOptions = {}
  <2>1. IsSeq(<<"src">>) /\ Range(<<"src">>) = {"src"}
    BY ShortIs
  <2> QED
    BY <2>1 DEF OwnOptions
<1>6. Alike(S) /\ S \subseteq Lists \cup {"at"}
  BY <1>1, <1>3 DEF Alike, Fields, Lists
<1> HIDE DEF S, m
<1>7. /\ cli'.at = "tasks" /\ cli'.tasks = <<ParseTask(m), ManifestTask(m)>> /\ cli'.sourcePaths = <<"src">>
      /\ cli'.compilerArgs = cli.compilerArgs
  BY <1>1, <1>3 DEF Fields
<1> QED
  BY <1>1, <1>3, <1>4, <1>5, <1>6, <1>7, LoadingKeeps

\* A manifest is parsed, with its parts.
LEMMA ParseManifestKeeps ==
    ASSUME IInv, ParseManifest
    PROVE  IInv'
<1> DEFINE m == Head(cli.tasks).manifest
           parts == [k \in DOMAIN m.targets |-> ParseTask(m.targets[k].manifest)]
           S == {"libraryPaths", "tasks"}
<1>1. /\ cli.at = "tasks" /\ Steady /\ UNCHANGED <<cache, files>>
      /\ cli' = [cli EXCEPT !.libraryPaths = @ \o m.library_paths, !.tasks = parts \o RestTasks]
  BY DEF ParseManifest, IsNext, Steady, disk
<1>2. m \in Manifests /\ RestTasks \in Seq(AllTasks)
  BY NextTask DEF ParseManifest
<1>3. parts \in Seq(AllTasks)
  <2>1. m.targets \in Seq([target : list_available, manifest : Manifests])
    BY <1>2, ManifestIs
  <2>2. Len(m.targets) \in Nat /\ DOMAIN m.targets = 1..Len(m.targets) /\ \A k \in DOMAIN m.targets : m.targets[k].manifest \in Manifests
    BY <2>1, PartsAre
  <2>3. \A x \in Manifests : ParseTask(x) \in AllTasks
    BY DEF ParseTask, AllTasks
  <2> QED
    BY <2>2, <2>3
<1>4. parts \o RestTasks \in Seq(AllTasks)
  BY <1>2, <1>3
<1>5. /\ DOMAIN cli = Fields
      /\ IsSeq(cli.sourcePaths) /\ Range(cli.sourcePaths) \cap OwnOptions = {}
      /\ IsSeq(cli.compilerArgs) /\ Range(cli.compilerArgs) \cap OwnOptions = {}
  BY <1>1, LoadingIs
<1>6. Alike(S) /\ S \subseteq Lists \cup {"at"}
  BY <1>1, <1>5 DEF Alike, Fields, Lists
<1> HIDE DEF S, m, parts
<1>7. /\ cli'.at = "tasks" /\ cli'.tasks = parts \o RestTasks /\ cli'.sourcePaths = cli.sourcePaths
      /\ cli'.compilerArgs = cli.compilerArgs
  BY <1>1, <1>5 DEF Fields
<1> QED
  BY <1>1, <1>4, <1>5, <1>6, <1>7, LoadingKeeps

\* A manifest asks for its script, its packages and its parts.
LEMMA TasksOfIs ==
    ASSUME IInv, cli.at = "tasks", NEW m \in Manifests, NEW t
    PROVE  TasksOf(m, t) \in Seq(AllTasks)
<1>1. (IF m.build_script = None THEN <<>> ELSE <<Task("script", m.build_script)>>) \in Seq(AllTasks)
  <2>1. Task("script", m.build_script) \in AllTasks
    BY ManifestIs DEF Task, AllTasks
  <2> QED
    BY <2>1
<1>2. [k \in DOMAIN m.packages |-> Task("package", m.packages[k])] \in Seq(AllTasks)
  <2>1. Len(m.packages) \in Nat /\ DOMAIN m.packages = 1..Len(m.packages)
    BY ManifestIs, SeqIs
  <2>2. \A k \in DOMAIN m.packages : m.packages[k] \in DOMAIN Project.packages
    BY RequestOf DEF Range
  <2>3. \A n \in DOMAIN Project.packages : Task("package", n) \in AllTasks
    BY DEF Task, AllTasks
  <2> QED
    BY <2>1, <2>2, <2>3
<1>3. PartsFor(m, t) \in Seq(AllTasks)
  <2> DEFINE Part(k) == IF m.targets[k].target = t THEN <<ManifestTask(m.targets[k].manifest)>> ELSE <<>>
             seqs == [k \in DOMAIN m.targets |-> Part(k)]
  <2>1. m.targets \in Seq([target : list_available, manifest : Manifests])
    BY ManifestIs
  <2>2. Len(m.targets) \in Nat /\ DOMAIN m.targets = 1..Len(m.targets) /\ \A k \in DOMAIN m.targets : m.targets[k].manifest \in Manifests
    BY <2>1, PartsAre
  <2>3. \A x \in Manifests : ManifestTask(x) \in AllTasks
    BY DEF ManifestTask, AllTasks
  <2>4. \A k \in DOMAIN m.targets : Part(k) \in Seq(AllTasks)
    <3> DEFINE A == AllTasks
    <3>1. ASSUME NEW x \in A PROVE <<x>> \in Seq(A)
      <4> HIDE DEF A
      <4> QED
        BY <3>1
    <3>2. <<>> \in Seq(A)
      OBVIOUS
    <3> QED
      BY <2>2, <2>3, <3>1, <3>2
  <2> HIDE DEF Part
  <2>5. seqs \in Seq(Seq(AllTasks))
    BY <2>2, <2>4
  <2> HIDE DEF seqs
  <2>6. FlattenSeq(seqs) \in Seq(AllTasks)
    BY <2>5, FlattenType
  <2> QED
    BY <2>6 DEF PartsFor, seqs, Part
<1> DEFINE A == AllTasks
           x == IF m.build_script = None THEN <<>> ELSE <<Task("script", m.build_script)>>
           y == [k \in DOMAIN m.packages |-> Task("package", m.packages[k])]
           z == PartsFor(m, t)
<1>4. x \in Seq(A) /\ y \in Seq(A) /\ z \in Seq(A)
  BY <1>1, <1>2, <1>3
<1> HIDE DEF A, x, y, z
<1>5. x \o y \o z \in Seq(A)
  BY <1>4
<1> QED
  BY <1>5 DEF TasksOf, A, x, y, z

\* The options of a manifest are added.
LEMMA LoadManifestKeeps ==
    ASSUME IInv, PlainHistories, LoadManifest
    PROVE  IInv'
<1> DEFINE m == Head(cli.tasks).manifest
           more == TasksOf(m, Wanted)
           S == {"compilerArgs", "linkerArgs", "libraries", "frameworks", "tasks"}
<1>1. /\ cli.at = "tasks" /\ Steady /\ UNCHANGED <<cache, files>>
      /\ cli' = [cli EXCEPT !.compilerArgs = @ \o m.args, !.linkerArgs = @ \o m.linker_args,
                            !.libraries = @ \o m.libraries, !.frameworks = @ \o m.frameworks, !.tasks = more \o RestTasks]
  BY DEF LoadManifest, IsNext, Steady, disk
<1>2. m \in Manifests /\ RestTasks \in Seq(AllTasks)
  BY NextTask DEF LoadManifest
<1>3. more \in Seq(AllTasks)
  BY <1>1, <1>2, TasksOfIs
<1>4. more \o RestTasks \in Seq(AllTasks)
  BY <1>2, <1>3
<1>5. /\ DOMAIN cli = Fields
      /\ IsSeq(cli.sourcePaths) /\ Range(cli.sourcePaths) \cap OwnOptions = {}
      /\ IsSeq(cli.compilerArgs) /\ Range(cli.compilerArgs) \cap OwnOptions = {}
  BY <1>1, LoadingIs
<1>6. IsSeq(cli.compilerArgs \o m.args) /\ Range(cli.compilerArgs \o m.args) \cap OwnOptions = {}
  <2>1. IsSeq(m.args)
    BY <1>2, ManifestIs, SeqIs
  <2>2. Range(m.args) \cap OwnOptions = {}
    BY <1>2 DEF PlainHistories
  <2>3. Joined(cli.compilerArgs \o m.args, cli.compilerArgs, m.args)
    BY <1>5, <2>1, JoinedIs
  <2> QED
    BY <1>5, <2>2, <2>3 DEF Joined
<1>7. Alike(S) /\ S \subseteq Lists \cup {"at"}
  BY <1>1, <1>5 DEF Alike, Fields, Lists
<1> HIDE DEF S, m, more
<1>8. /\ cli'.at = "tasks" /\ cli'.tasks = more \o RestTasks /\ cli'.sourcePaths = cli.sourcePaths
      /\ cli'.compilerArgs = cli.compilerArgs \o m.args
  BY <1>1, <1>5 DEF Fields
<1> QED
  BY <1>1, <1>4, <1>5, <1>6, <1>7, <1>8, LoadingKeeps

\* A build script does not fail.
LEMMA RunBuildScriptKeeps ==
    ASSUME IInv, PlainHistories, RunBuildScript
    PROVE  IInv'
<1> DEFINE S == {"tasks"}
<1>1. cli.at = "tasks" /\ Steady /\ UNCHANGED <<cache, files>>
  BY DEF RunBuildScript, IsNext, Steady, disk
<1>2. cli' = [cli EXCEPT !.tasks = RestTasks]
  <2>1. ~Fails("build script")
    BY DEF PlainHistories, Fails, MayFail
  <2> QED
    BY <2>1 DEF RunBuildScript
<1>3. RestTasks \in Seq(AllTasks)
  BY NextTask DEF RunBuildScript
<1>4. /\ DOMAIN cli = Fields
      /\ IsSeq(cli.sourcePaths) /\ Range(cli.sourcePaths) \cap OwnOptions = {}
      /\ IsSeq(cli.compilerArgs) /\ Range(cli.compilerArgs) \cap OwnOptions = {}
  BY <1>1, LoadingIs
<1>5. Alike(S) /\ S \subseteq Lists \cup {"at"}
  BY <1>2, <1>4 DEF Alike, Fields, Lists
<1> HIDE DEF S
<1>6. /\ cli'.at = "tasks" /\ cli'.tasks = RestTasks /\ cli'.sourcePaths = cli.sourcePaths
      /\ cli'.compilerArgs = cli.compilerArgs
  BY <1>1, <1>2, <1>4 DEF Fields
<1> QED
  BY <1>1, <1>3, <1>4, <1>5, <1>6, LoadingKeeps

\* A package is installed.
LEMMA InstallPackageKeeps ==
    ASSUME IInv, InstallPackage
    PROVE  IInv'
<1> DEFINE S == {}
<1>1. cli.at = "tasks" /\ Steady /\ UNCHANGED <<cache, files>>
  BY DEF InstallPackage, IsNext, Steady
<1>2. cli' = cli \/ cli' = Ended("1")
  BY DEF InstallPackage
<1>3. /\ DOMAIN cli = Fields /\ cli.tasks \in Seq(AllTasks)
      /\ IsSeq(cli.sourcePaths) /\ Range(cli.sourcePaths) \cap OwnOptions = {}
      /\ IsSeq(cli.compilerArgs) /\ Range(cli.compilerArgs) \cap OwnOptions = {}
  BY <1>1, LoadingIs
<1>4. CASE cli' = cli
  <2>1. Alike(S) /\ S \subseteq Lists \cup {"at"}
    BY <1>3, <1>4 DEF Alike
  <2>2. /\ cli'.at = "tasks" /\ cli'.tasks = cli.tasks /\ cli'.sourcePaths = cli.sourcePaths
        /\ cli'.compilerArgs = cli.compilerArgs
    BY <1>1, <1>4
  <2> HIDE DEF S
  <2> QED
    BY <1>1, <1>3, <2>1, <2>2, LoadingKeeps
<1>5. CASE cli' = Ended("1")
  <2>1. CacheRight' /\ FilesRight'
    BY <1>1, CacheKept, FilesKept DEF Steady
  <2> QED
    BY <1>1, <1>5, <2>1, EndedKeeps
<1> QED
  BY <1>2, <1>4, <1>5

\* The manifest of a package is loaded, and then its paths are added.
LEMMA LoadPackageKeeps ==
    ASSUME IInv, LoadPackage
    PROVE  IInv'
<1> DEFINE name == Head(cli.tasks).name
           m == Project.packages[name].manifest
           more == <<ParseTask(m), ManifestTask(m), Task("paths", name)>>
           S == {"tasks"}
<1>1. cli.at = "tasks" /\ Steady /\ UNCHANGED <<cache, files>>
  BY DEF LoadPackage, IsNext, Steady, disk
<1>2. cli' = Ended("1") \/ cli' = [cli EXCEPT !.tasks = more \o RestTasks]
  BY DEF LoadPackage
<1>3. CASE cli' = Ended("1")
  <2>1. CacheRight' /\ FilesRight'
    BY <1>1, CacheKept, FilesKept DEF Steady
  <2> QED
    BY <1>1, <1>3, <2>1, EndedKeeps
<1>4. CASE cli' = [cli EXCEPT !.tasks = more \o RestTasks]
  <2>1. name \in DOMAIN Project.packages /\ RestTasks \in Seq(AllTasks)
    BY NextTask DEF LoadPackage
  <2>2. m \in Manifests
    BY <1>1, <2>1, RequestOf
  <2>3. more \in Seq(AllTasks)
    <3> DEFINE A == AllTasks
    <3>1. ParseTask(m) \in A /\ ManifestTask(m) \in A /\ Task("paths", name) \in A
      BY <2>1, <2>2 DEF ParseTask, ManifestTask, Task, AllTasks
    <3> HIDE DEF A
    <3>2. more \in Seq(A)
      BY <3>1
    <3> QED
      BY <3>2 DEF A
  <2> HIDE DEF more
  <2>4. more \o RestTasks \in Seq(AllTasks)
    BY <2>1, <2>3
  <2>5. /\ DOMAIN cli = Fields
        /\ IsSeq(cli.sourcePaths) /\ Range(cli.sourcePaths) \cap OwnOptions = {}
        /\ IsSeq(cli.compilerArgs) /\ Range(cli.compilerArgs) \cap OwnOptions = {}
    BY <1>1, LoadingIs
  <2>6. Alike(S) /\ S \subseteq Lists \cup {"at"}
    BY <1>4, <2>5 DEF Alike, Fields, Lists
  <2> HIDE DEF S
  <2>7. /\ cli'.at = "tasks" /\ cli'.tasks = more \o RestTasks /\ cli'.sourcePaths = cli.sourcePaths
        /\ cli'.compilerArgs = cli.compilerArgs
    BY <1>1, <1>4, <2>5 DEF Fields
  <2> QED
    BY <1>1, <2>4, <2>5, <2>6, <2>7, LoadingKeeps
<1> QED
  BY <1>2, <1>3, <1>4

\* The paths of a package are added.
LEMMA AddPackagePathsKeeps ==
    ASSUME IInv, PlainHistories, AddPackagePaths
    PROVE  IInv'
<1> DEFINE name == Head(cli.tasks).name
           Existing(dir) == IF dir \in Project.packages[name].dirs THEN <<PathOf(name, dir)>> ELSE <<>>
           S == {"sourcePaths", "libraryPaths", "tasks"}
           more == Existing("src")
<1>1. /\ cli.at = "tasks" /\ Steady /\ UNCHANGED <<cache, files>>
      /\ cli' = [cli EXCEPT !.sourcePaths = @ \o Existing("src"),
                            !.libraryPaths = @ \o Existing("lib") \o Existing(TargetDir(Wanted)),
                            !.tasks = RestTasks]
  BY DEF AddPackagePaths, IsNext, Steady, disk
<1>2. name \in DOMAIN Project.packages /\ RestTasks \in Seq(AllTasks)
  BY NextTask DEF AddPackagePaths
<1>3. PathOf(name, "src") \notin OwnOptions
  <2>1. PICK h \in Histories : setting = [project |-> h.project, machine |-> h.machine]
    BY DEF IInv, Known
  <2>2. name \in DOMAIN h.project.packages
    BY <1>2, <2>1 DEF Project
  <2> QED
    BY <2>2 DEF PlainHistories
<1>4. /\ DOMAIN cli = Fields
      /\ IsSeq(cli.sourcePaths) /\ Range(cli.sourcePaths) \cap OwnOptions = {}
      /\ IsSeq(cli.compilerArgs) /\ Range(cli.compilerArgs) \cap OwnOptions = {}
  BY <1>1, LoadingIs
<1>5. IsSeq(more) /\ Range(more) \cap OwnOptions = {}
  <2>1. IsSeq(<<>>) /\ Range(<<>>) = {} /\ IsSeq(<<PathOf(name, "src")>>) /\ Range(<<PathOf(name, "src")>>) = {PathOf(name, "src")}
    BY ShortIs
  <2> QED
    BY <1>3, <2>1
<1>6. Alike(S) /\ S \subseteq Lists \cup {"at"}
  BY <1>1, <1>4 DEF Alike, Fields, Lists
<1>7. /\ cli'.at = "tasks" /\ cli'.tasks = RestTasks /\ cli'.sourcePaths = cli.sourcePaths \o more
      /\ cli'.compilerArgs = cli.compilerArgs
  BY <1>1, <1>4 DEF Fields
<1> HIDE DEF S, more
<1>8. IsSeq(cli.sourcePaths \o more) /\ Range(cli.sourcePaths \o more) \cap OwnOptions = {}
  <2>1. Joined(cli.sourcePaths \o more, cli.sourcePaths, more)
    BY <1>4, <1>5, JoinedIs
  <2> QED
    BY <1>4, <1>5, <2>1 DEF Joined
<1> QED
  BY <1>1, <1>2, <1>4, <1>6, <1>7, <1>8, LoadingKeeps

\* What the manifests say is known: the tools can run.
LEMMA ConfigLoadedKeeps ==
    ASSUME IInv, ConfigLoaded
    PROVE  IInv'
<1> DEFINE command == cli.request.command
           type == IF command = "test" THEN "executable" ELSE Project.manifest.type
           args == IF command = "test" THEN Append(cli.compilerArgs, "--testing") ELSE cli.compilerArgs
           place == IF command = "invoke" THEN cli.request.name
                    ELSE IF command \in {"lsp", "format"} THEN "delegate" ELSE "compiler"
           S == {"at", "type", "compilerArgs"}
<1>1. cli.at = "tasks" /\ Steady /\ UNCHANGED <<cache, files>> /\ cli.at # "exit"
  BY DEF ConfigLoaded, Steady, disk
<1>2. CacheRight' /\ FilesRight'
  BY <1>1, CacheKept, FilesKept DEF Steady
<1>3. InMemory /\ DOMAIN cli = Fields
  BY <1>1, RunningIs DEF InMemory
<1>4. /\ command \in Loading /\ cli.code = None
      /\ command = "invoke" => cli.request.name \in {"compiler", "assembler", "linker"}
  BY <1>1, <1>3 DEF InMemory, Commanded
<1>5. cli' = Ended("1") \/ cli' = [cli EXCEPT !.at = place, !.type = type, !.compilerArgs = args]
  <2>1. cli' = [cli EXCEPT !.type = Project.manifest.type, !.at = "compiler", !.type = "executable",
                           !.compilerArgs = Append(@, "--testing")]
        <=> cli' = [cli EXCEPT !.at = "compiler", !.type = "executable", !.compilerArgs = Append(cli.compilerArgs, "--testing")]
    BY <1>3 DEF Fields
  <2>2. CASE command = "run" /\ ~is_executable_on_host(Wanted, Machine.host)
    BY <2>2 DEF ConfigLoaded
  <2>3. CASE command = "test"
    BY <1>3, <2>1, <2>3 DEF ConfigLoaded, Fields
  <2>4. CASE command = "invoke"
    BY <1>3, <2>4 DEF ConfigLoaded, Fields
  <2>5. CASE command \in {"lsp", "format"}
    BY <1>3, <2>5 DEF ConfigLoaded, Fields
  <2>6. CASE command = "build" \/ (command = "run" /\ is_executable_on_host(Wanted, Machine.host))
    BY <1>3, <2>6 DEF ConfigLoaded, Fields
  <2> QED
    BY <1>4, <2>2, <2>3, <2>4, <2>5, <2>6 DEF Loading
<1>6. CASE cli' = Ended("1")
  BY <1>1, <1>2, <1>6, EndedKeeps
<1>7. CASE cli' = [cli EXCEPT !.at = place, !.type = type, !.compilerArgs = args]
  <2>1. Alike(S) /\ S \cap {"argv", "request", "since", "generated"} = {}
    BY <1>3, <1>7 DEF Alike, Fields
  <2> HIDE DEF S
  <2>2. /\ cli'.at = place /\ cli'.type = type /\ cli'.compilerArgs = args
        /\ cli'.request = cli.request /\ cli'.code = cli.code /\ cli'.tasks = cli.tasks
        /\ cli'.sourcePaths = cli.sourcePaths /\ cli'.toolchain = cli.toolchain
    BY <1>3, <1>7 DEF Fields
  <2>3. ~Finished'
    BY <1>4, <2>2, NoneIs DEF Finished
  <2>4. place \in {"compiler", "assembler", "linker", "delegate"}
    BY <1>4
  <2>5. place # "compiler" => command \notin Builds
    BY DEF Builds
  <2>6. Machine' = Machine /\ Wanted' = Wanted /\ Project' = Project
    BY <1>1, <2>2 DEF Steady, Machine, Wanted, Project
  <2>7. Commanded'
    <3>1. place \in {"compiler", "assembler", "linker"} => command \in Builds \cup {"invoke"}
      BY <1>4 DEF Builds, Loading
    <3>2. place = "delegate" => command \in {"run", "lsp", "format"}
      BY <1>4
    <3>3. cli'.code = None /\ cli'.request.command = command /\ cli'.request.name = cli.request.name
      BY <1>4, <2>2
    <3> HIDE DEF place
    <3>4. place \notin {"exit", "cache", "setup", "open cache", "write cache", "remove sysroot", "remove cache", "manifest",
                       "tasks", "remove object", "running", "testing", "venv", "bindgen"}
      BY <2>4
    <3> QED
      BY <1>4, <2>2, <2>4, <3>1, <3>2, <3>3, <3>4 DEF Commanded
  <2>8. Equipped'
    <3>1. cli.toolchain = set_up(Machine, Wanted) /\ cli.toolchain # NoToolchain
      BY <1>1, <1>3 DEF InMemory, Equipped
    <3> QED
      BY <2>2, <2>6, <3>1 DEF Equipped
  <2>9. Typed'
    BY <2>2, <2>6 DEF Typed
  <2>10. Fresh'
    BY <2>2, <2>3, <2>4, <2>5 DEF Fresh, Linked
  <2>11. Collected'
    <3>1. /\ cli.tasks \in Seq(AllTasks)
          /\ IsSeq(cli.sourcePaths) /\ Range(cli.sourcePaths) \cap OwnOptions = {}
          /\ IsSeq(cli.compilerArgs) /\ Range(cli.compilerArgs) \cap OwnOptions = {}
      BY <1>1, LoadingIs
    <3>2. IsSeq(args) /\ Range(args) = Range(cli.compilerArgs) \cup (IF command = "test" THEN {"--testing"} ELSE {})
      <4>1. CASE command = "test"
        <5>1. IsSeq(<<"--testing">>) /\ Range(<<"--testing">>) = {"--testing"}
          BY ShortIs
        <5>2. Joined(cli.compilerArgs \o <<"--testing">>, cli.compilerArgs, <<"--testing">>)
          BY <3>1, <5>1, JoinedIs
        <5>3. Append(cli.compilerArgs, "--testing") = cli.compilerArgs \o <<"--testing">>
          BY <3>1 DEF IsSeq
        <5> QED
          BY <4>1, <5>1, <5>2, <5>3 DEF Joined
      <4>2. CASE command # "test"
        BY <3>1, <4>2
      <4> QED
        BY <4>1, <4>2
    <3>3. "--testing" \in OwnOptions
      BY DEF OwnOptions
    <3>4. place \notin Preparing
      BY <2>4 DEF Preparing
    <3>5. AllTasks' = AllTasks
      BY <2>6 DEF AllTasks
    <3> HIDE DEF args, place
    <3> QED
      BY <2>2, <3>1, <3>2, <3>3, <3>4, <3>5 DEF Collected
  <2> QED
    BY <1>1, <1>2, <1>3, <2>1, <2>7, <2>8, <2>9, <2>10, <2>11, Together DEF GoesOn
<1> QED
  BY <1>5, <1>6, <1>7

\* A command goes on to the assembler or the linker.
LEMMA ToolNext ==
    ASSUME IInv, cli.at \in {"compiler", "assembler"}, Steady, CacheRight', FilesRight',
           NEW place \in {"assembler", "linker"}, cli' = At(place), cli.request.command \in Builds,
           place = "assembler" => Current(files[IF Wanted.arch = "wasm" THEN "output.o" ELSE AssemblyFile])',
           place = "linker" => Current(files[LinkedFile(toolchain_kind(Wanted))])'
    PROVE  IInv'
<1>1. InMemory /\ cli.at # "exit"
  BY RunningIs
<1>2. cli'.at = place /\ cli'.request = cli.request /\ cli'.code = cli.code
  BY <1>1 DEF At, InMemory, Fields
<1>3. cli.code = None
  BY <1>1 DEF InMemory, Commanded
<1>4. ~Finished'
  BY <1>2, <1>3, NoneIs DEF Finished
<1>5. Commanded'
  BY <1>2, <1>3 DEF Commanded, Builds
<1>6. place \notin Linked /\ place \notin Preparing /\ place # "exit" /\ place # "compiler"
  BY DEF Linked, Preparing
<1>7. Fresh'
  BY <1>2, <1>4, <1>6 DEF Fresh
<1>8. cli.at \in EquippedAt /\ cli.at \in TypedAt
  BY DEF EquippedAt, TypedAt
<1> QED
  BY <1>1, <1>5, <1>6, <1>7, <1>8, MovesOn

\* The compiler writes what was asked for, or the command ends.
LEMMA InvokeCompilerKeeps ==
    ASSUME IInv, InvokeCompiler
    PROVE  IInv'
<1> DEFINE t == Wanted
<1>1. cli.at = "compiler" /\ cli.at # "exit" /\ Steady /\ UNCHANGED cache
  BY DEF InvokeCompiler, Steady
<1>2. InMemory
  BY <1>1, RunningIs
<1>3. /\ Sensible(cli.request) /\ Flags(cli.request) /\ Wanted \in list_available /\ Project.manifest \in Manifests
  BY <1>1, RequestOf
<1>4. Ready(cli)
  <2>1. cli.type \in ManifestTypes
    <3>1. cli.type = IF cli.request.command = "test" THEN "executable" ELSE Project.manifest.type
      BY <1>1, <1>2 DEF InMemory, Typed
    <3>2. Project.manifest.type \in ManifestTypes
      BY <1>3, ManifestIs
    <3> QED
      BY <3>1, <3>2 DEF ManifestTypes
  <2> QED
    BY <1>2, <1>3, <2>1 DEF InMemory, Collected, Ready
<1>5. Compiled(Result, cli)
  BY <1>3, <1>4, CompilerArgsAre DEF Result
<1>6. /\ cli.request.asm /\ t.arch # "wasm" => OutputFile(Result) = AssemblyFile
      /\ cli.request.asm /\ t.arch = "wasm" => OutputFile(Result) = "output.o"
      /\ ~cli.request.asm => OutputFile(Result) = LinkedFile(toolchain_kind(t))
      /\ OutputFile(Result) \in {"output.o", "output.obj", "output.s", "output.asm"}
  <2>1. cli.request.target \in list_available
    BY <1>3 DEF Wanted
  <2>2. LET tt == cli.request.target
            assembly == IF tt.arch = "x86_64" /\ tt.env = "msvc" THEN "output.asm" ELSE "output.s"
        IN /\ cli.request.asm /\ tt.arch # "wasm" => OutputFile(Result) = assembly
           /\ cli.request.asm /\ tt.arch = "wasm" => OutputFile(Result) = "output.o"
           /\ ~cli.request.asm => OutputFile(Result) = LinkedFile(toolchain_kind(tt))
           /\ OutputFile(Result) \in {"output.o", "output.obj", "output.s", "output.asm"}
    BY <1>5, <2>1, OutputFileIs
  <2> QED
    BY <2>2 DEF AssemblyFile, Wanted
<1>7. CacheRight' /\ FilesRight'
  <2>1. files' = files \/ \E x : files' = [files EXCEPT ![OutputFile(Result)] = x]
    BY DEF InvokeCompiler
  <2>2. DOMAIN files' = DOMAIN files
    BY <2>1
  <2> QED
    BY <1>1, <2>2, CacheKept DEF IInv, FilesRight, Steady
<1> DEFINE object == [sources |-> sources, config |-> Result]
<1>8. cli' = Ended("1") \/ (cli' = NextOf("compiler") /\ files' = [files EXCEPT ![OutputFile(Result)] = object])
  BY DEF InvokeCompiler
<1>9. CASE cli' = Ended("1")
  BY <1>1, <1>7, <1>9, EndedKeeps
<1>10. CASE cli' = NextOf("compiler") /\ files' = [files EXCEPT ![OutputFile(Result)] = object]
  <2>1. CASE cli.request.command = "invoke"
    <3>1. cli' = Ended("0")
      BY <1>10, <2>1 DEF NextOf
    <3> QED
      BY <1>1, <1>7, <2>1, <3>1, EndedKeeps DEF Builds
  <2>2. CASE cli.request.command # "invoke"
    <3>1. cli.request.command \in Builds
      BY <1>1, <1>2, <2>2 DEF InMemory, Commanded
    <3> DEFINE place == IF cli.request.asm THEN "assembler" ELSE "linker"
    <3>2. cli' = At(place)
      BY <1>10, <2>2 DEF NextOf
    <3>3. files'[OutputFile(Result)] = object
      BY <1>6, <1>10 DEF IInv, FilesRight
    <3>4. cli'.request = cli.request /\ cli'.since = cli.since
      BY <1>2, <3>2 DEF At, InMemory, Fields
    <3>5. ASSUME NEW x, x = object PROVE Current(x)'
      <4>1. sources >= cli.since
        BY <1>2 DEF InMemory, Timed
      <4>2. "--testing" \in Range(cli.compilerArgs) <=> cli.request.command = "test"
        BY <1>1, <1>2 DEF InMemory, Collected
      <4>3. x.sources = sources /\ x.config = Result
        BY <3>5
      <4> QED
        BY <1>5, <3>4, <4>1, <4>2, <4>3 DEF Current, Compiled, Wanted
    <3>6. Wanted' = Wanted /\ AssemblyFile' = AssemblyFile
      BY <3>4 DEF Wanted, AssemblyFile
    <3>7. place = "assembler" => Current(files[IF Wanted.arch = "wasm" THEN "output.o" ELSE AssemblyFile])'
      <4>1. ASSUME place = "assembler"
            PROVE  OutputFile(Result) = (IF Wanted.arch = "wasm" THEN "output.o" ELSE AssemblyFile)'
        BY <1>6, <3>6, <4>1
      <4> HIDE DEF object
      <4> QED
        BY <3>3, <3>5, <4>1
    <3>8. place = "linker" => Current(files[LinkedFile(toolchain_kind(Wanted))])'
      <4>1. ASSUME place = "linker"
            PROVE  OutputFile(Result) = LinkedFile(toolchain_kind(Wanted))'
        BY <1>6, <3>6, <4>1
      <4> HIDE DEF object
      <4> QED
        BY <3>3, <3>5, <4>1
    <3> HIDE DEF object
    <3>9. place \in {"assembler", "linker"}
      OBVIOUS
    <3> HIDE DEF place
    <3> QED
      BY <1>1, <1>7, <3>1, <3>2, <3>7, <3>8, <3>9, ToolNext
  <2> QED
    BY <2>1, <2>2
<1> QED
  BY <1>8, <1>9, <1>10

\* The assembler makes of the assembly file what the linker reads.
LEMMA InvokeAssemblerKeeps ==
    ASSUME IInv, InvokeAssembler
    PROVE  IInv'
<1>1. cli.at = "assembler" /\ cli.at # "exit" /\ Steady /\ UNCHANGED cache /\ Wanted.arch \in {"x86_64", "aarch64"}
  BY DEF InvokeAssembler, Steady
<1>2. InMemory
  BY <1>1, RunningIs
<1>3. Wanted \in list_available
  BY <1>1, RequestOf
<1>4. /\ LinkedFile(toolchain_kind(Wanted)) = AssembledFile /\ AssembledFile # AssemblyFile
      /\ AssembledFile \in {"output.o", "output.obj", "output.s", "output.asm"}
  <2>1. (Wanted.arch = "x86_64" /\ Wanted.env = "msvc") <=> (Wanted.os = "windows" /\ Wanted.env = "msvc")
    BY <1>3, TargetsAre
  <2>2. toolchain_kind(Wanted) = "MSVC" <=> (Wanted.os = "windows" /\ Wanted.env = "msvc")
    BY DEF toolchain_kind
  <2> QED
    BY <2>1, <2>2 DEF LinkedFile, AssembledFile, AssemblyFile
<1> DEFINE done == [files EXCEPT ![AssembledFile] = files[AssemblyFile], ![AssemblyFile] = Absent]
<1>5. \/ cli' = NextOf("assembler") /\ files' = done
      \/ cli' = Ended("1") /\ (files' = files \/ files' = [files EXCEPT ![AssembledFile] = Partial])
  BY DEF InvokeAssembler
<1>6. CacheRight' /\ FilesRight'
  <2>1. DOMAIN files' = DOMAIN files
    BY <1>5
  <2> QED
    BY <1>1, <2>1, CacheKept DEF IInv, FilesRight, Steady
<1>7. CASE cli' = Ended("1")
  BY <1>1, <1>6, <1>7, EndedKeeps
<1>8. CASE cli' = NextOf("assembler") /\ files' = done
  <2>1. CASE cli.request.command = "invoke"
    <3>1. cli' = Ended("0")
      BY <1>8, <2>1 DEF NextOf
    <3> QED
      BY <1>1, <1>6, <2>1, <3>1, EndedKeeps DEF Builds
  <2>2. CASE cli.request.command # "invoke"
    <3>1. cli.request.command \in Builds
      BY <1>1, <1>2, <2>2 DEF InMemory, Commanded
    <3>2. cli' = At("linker")
      BY <1>8, <2>2 DEF NextOf
    <3>3. files'[AssembledFile] = files[AssemblyFile]
      BY <1>4, <1>8 DEF IInv, FilesRight
    <3>4. cli'.request = cli.request /\ cli'.since = cli.since
      BY <1>2, <3>2 DEF At, InMemory, Fields
    <3>5. Current(files[AssemblyFile])
      BY <1>1, <1>2, <3>1 DEF InMemory, Fresh
    <3>6. Wanted' = Wanted
      BY <3>4 DEF Wanted
    <3>7. Current(files[LinkedFile(toolchain_kind(Wanted))])'
      <4>1. files'[LinkedFile(toolchain_kind(Wanted'))] = files[AssemblyFile]
        BY <1>4, <3>3, <3>6
      <4> QED
        BY <3>4, <3>5, <3>6, <4>1 DEF Current
    <3> QED
      BY <1>1, <1>6, <3>1, <3>2, <3>7, ToolNext
  <2> QED
    BY <2>1, <2>2
<1> QED
  BY <1>5, <1>7, <1>8

\* There is no assembler for WebAssembly: the compiler wrote the object file.
LEMMA SkipAssemblerKeeps ==
    ASSUME IInv, SkipAssembler
    PROVE  IInv'
<1>1. cli.at = "assembler" /\ cli.at # "exit" /\ Steady /\ UNCHANGED <<cache, files>> /\ Wanted.arch = "wasm" /\ cli' = NextOf("assembler")
  BY DEF SkipAssembler, Steady, disk
<1>2. InMemory
  BY <1>1, RunningIs
<1>3. Wanted \in list_available
  BY <1>1, RequestOf
<1>4. LinkedFile(toolchain_kind(Wanted)) = "output.o"
  <2>1. Wanted.os # "windows"
    BY <1>1, <1>3, TargetsAre
  <2>2. toolchain_kind(Wanted) # "MSVC"
    BY <2>1 DEF toolchain_kind
  <2> QED
    BY <2>2 DEF LinkedFile
<1>5. CacheRight' /\ FilesRight'
  BY <1>1, CacheKept, FilesKept DEF Steady
<1>6. CASE cli.request.command = "invoke"
  <2>1. cli' = Ended("0")
    BY <1>1, <1>6 DEF NextOf
  <2> QED
    BY <1>1, <1>5, <1>6, <2>1, EndedKeeps DEF Builds
<1>7. CASE cli.request.command # "invoke"
  <2>1. cli.request.command \in Builds
    BY <1>1, <1>2, <1>7 DEF InMemory, Commanded
  <2>2. cli' = At("linker")
    BY <1>1, <1>7 DEF NextOf
  <2>3. cli'.request = cli.request /\ cli'.since = cli.since
    BY <1>2, <2>2 DEF At, InMemory, Fields
  <2>4. Current(files["output.o"])
    BY <1>1, <1>2, <2>1 DEF InMemory, Fresh
  <2>5. Wanted' = Wanted
    BY <2>3 DEF Wanted
  <2>6. Current(files[LinkedFile(toolchain_kind(Wanted))])'
    <3>1. files'[LinkedFile(toolchain_kind(Wanted'))] = files["output.o"]
      BY <1>1, <1>4, <2>5
    <3> QED
      BY <2>3, <2>4, <2>5, <3>1 DEF Current
  <2> QED
    BY <1>1, <1>5, <2>1, <2>2, <2>6, ToolNext
<1> QED
  BY <1>6, <1>7

\* No shared library is built for WebAssembly.
LEMMA NotWasm ==
    ASSUME IInv, PlainHistories, cli.at # "exit", Project.manifest.type = "shared_library"
    PROVE  Wanted.arch # "wasm"
<1>1. InMemory
  BY RunningIs
<1>2. PICK h \in Histories : /\ setting = [project |-> h.project, machine |-> h.machine]
                             /\ cli # Idle => cli.argv \in Range(h.lines)
  BY DEF IInv, Known
<1>3. cli.argv \in Range(h.lines)
  BY <1>1, <1>2, NotIdle DEF InMemory
<1>4. h.project = Project /\ h.machine = Machine
  BY <1>2 DEF Project, Machine
<1>5. Request(parse[cli.argv], h.machine.host).target.arch # "wasm"
  BY <1>3, <1>4 DEF PlainHistories
<1>6. cli.request = Request(parse[cli.argv], h.machine.host)
  BY <1>1, <1>4 DEF InMemory, Requested, RequestFor
<1> QED
  BY <1>5, <1>6 DEF Wanted

\* The linker makes a program of what the compiler wrote.
LEMMA InvokeLinkerKeeps ==
    ASSUME IInv, PlainHistories, InvokeLinker
    PROVE  IInv'
<1> DEFINE kind == toolchain_kind(Wanted)
           path == get_output_path(cli)
           program == [object |-> files[LinkedFile(kind)], command |-> LinkerCommand(kind)]
<1>1. cli.at = "linker" /\ cli.at # "exit" /\ Steady /\ UNCHANGED <<cache, files>>
  BY DEF InvokeLinker, Steady
<1>2. InMemory
  BY <1>1, RunningIs
<1>3. CacheRight' /\ FilesRight'
  BY <1>1, CacheKept, FilesKept DEF Steady
<1>4. cli' = Ended("1") \/ (cli' = At("remove object") /\ Written(path, program))
  BY DEF InvokeLinker
<1>5. CASE cli' = Ended("1")
  BY <1>1, <1>3, <1>5, EndedKeeps
<1>6. CASE cli' = At("remove object") /\ Written(path, program)
  <2>1. path \in DOMAIN out' /\ out'[path] = program
    <3> HIDE DEF path, program
    <3> QED
      BY <1>6 DEF Written
  <2>2. cli.type = "shared_library" => LinkerCommand(kind).shared # None
    <3>1. ASSUME cli.type = "shared_library" PROVE SharedFlag(kind) # None
      <4>1. Project.manifest.type = "shared_library"
        BY <1>1, <1>2, <3>1 DEF InMemory, Typed
      <4>2. Wanted.arch # "wasm" /\ Wanted \in list_available
        BY <1>1, <4>1, NotWasm, RequestOf
      <4> QED
        BY <4>2, SharedIs
    <3> QED
      BY <3>1 DEF LinkerCommand
  <2>3. program # Partial
    <3>1. DOMAIN program # DOMAIN Partial
      <4>1. "object" \in DOMAIN program /\ "object" \notin DOMAIN Partial
        BY DEF Partial
      <4> QED
        BY <4>1
    <3> QED
      BY <3>1
  <2>4. program.object = files[LinkedFile(kind)] /\ program.command = LinkerCommand(kind)
    OBVIOUS
  <2>5. /\ cli'.at = "remove object" /\ cli'.request = cli.request /\ cli'.code = cli.code /\ cli'.since = cli.since
        /\ cli'.name = cli.name /\ cli'.type = cli.type
    BY <1>2, <1>6 DEF At, InMemory, Fields
  <2>6. Wanted' = Wanted /\ get_output_path(cli') = path
    BY <2>5 DEF Wanted, get_output_path
  <2> HIDE DEF path, program
  <2>7. Fresh'
    <3>1. cli.request.command \in Builds => Current(program.object)
      BY <1>1, <1>2, <2>4 DEF InMemory, Fresh
    <3>2. cli.request.command \in Builds => CurrentProgram'
      BY <2>1, <2>2, <2>3, <2>4, <2>5, <2>6, <3>1 DEF CurrentProgram, Current
    <3> QED
      BY <2>5, <3>2 DEF Fresh
  <2>8. Commanded'
    <3>1. /\ cli.code = None /\ cli.request.command \in Builds \cup {"invoke"}
          /\ cli.request.command = "invoke" => cli.request.name \in {"compiler", "assembler", "linker"}
      BY <1>1, <1>2 DEF InMemory, Commanded
    <3> QED
      BY <2>5, <3>1 DEF Commanded
  <2>9. cli.at \in EquippedAt /\ cli.at \in TypedAt
    BY <1>1 DEF EquippedAt, TypedAt
  <2>10. "remove object" \notin Preparing
    BY DEF Preparing
  <2> DEFINE place == "remove object"
  <2>11. cli' = At(place) /\ place # "compiler" /\ place # "exit" /\ place \notin Preparing
    BY <1>6, <2>10
  <2> HIDE DEF place
  <2> QED
    BY <1>1, <1>3, <2>7, <2>8, <2>9, <2>11, MovesOn
<1> QED
  BY <1>4, <1>5, <1>6

\* A linked program is run, tested or left.
LEMMA LeavesLinked ==
    ASSUME IInv, cli.at \in Linked, Steady, CacheRight', FilesRight', UNCHANGED out,
           \/ \E code \in {"0", "1"} : cli' = Ended(code)
           \/ cli.request.command = "run" /\ cli' = At("running")
           \/ cli.request.command = "test" /\ cli' = At("testing")
           \/ cli.request.command \in {"run", "lsp", "format"} /\ cli' = At("delegate")
    PROVE  IInv'
<1>1. InMemory /\ cli.at # "exit"
  BY RunningIs DEF Linked
<1>2. DOMAIN cli = Fields /\ cli.code = None
  BY <1>1 DEF InMemory, Commanded
<1>3. cli.request.command = "invoke" => cli.request.name \in {"compiler", "assembler", "linker"}
  BY <1>1 DEF InMemory, Commanded
<1> DEFINE S == {"at", "code"}
<1>4. CASE \E code \in {"0", "1"} : cli' = Ended(code)
  <2>1. PICK code \in {"0", "1"} : cli' = Ended(code)
    BY <1>4
  <2>2. Alike(S) /\ cli'.at = "exit"
    BY <1>2, <2>1, EndedIs
  <2>3. Commanded'
    BY <2>2 DEF Commanded
  <2> QED
    BY <2>2, <2>3, LinkedKeeps
<1>5. ASSUME NEW place \in {"running", "testing", "delegate"}, cli' = At(place),
             place = "running" => cli.request.command = "run",
             place = "testing" => cli.request.command = "test",
             place = "delegate" => cli.request.command \in {"run", "lsp", "format"}
      PROVE  IInv'
  <2>1. Alike(S) /\ cli'.at = place /\ cli'.code = cli.code /\ cli'.request = cli.request
    BY <1>2, <1>5 DEF At, Alike, Fields
  <2>2. Commanded'
    BY <1>2, <1>3, <1>5, <2>1 DEF Commanded
  <2>3. place \in Linked
    BY DEF Linked
  <2> QED
    BY <2>1, <2>2, <2>3, LinkedKeeps
<1> QED
  BY <1>4, <1>5

\* The object file is removed.
LEMMA RemoveObjectKeeps ==
    ASSUME IInv, RemoveObject
    PROVE  IInv'
<1>1. cli.at = "remove object" /\ Steady /\ UNCHANGED <<cache, out>> /\ cli' = NextOf("linker")
  BY DEF RemoveObject, Steady
<1>2. cli.at \in Linked
  BY <1>1 DEF Linked
<1>3. CacheRight' /\ FilesRight'
  <2>1. DOMAIN files' = DOMAIN files
    BY DEF RemoveObject
  <2> QED
    BY <1>1, <2>1, CacheKept DEF IInv, FilesRight, Steady
<1>4. cli.request.command \in Builds \cup {"invoke"}
  BY <1>1, RunningIs DEF InMemory, Commanded
<1>5. \/ cli' = Ended("0")
      \/ cli.request.command = "run" /\ cli' = At("running")
      \/ cli.request.command = "test" /\ cli' = At("testing")
  <2>1. CASE cli.request.command = "invoke"
    BY <1>1, <2>1 DEF NextOf
  <2>2. CASE cli.request.command = "build"
    BY <1>1, <2>2 DEF NextOf
  <2>3. CASE cli.request.command = "run"
    BY <1>1, <2>3 DEF NextOf
  <2>4. CASE cli.request.command = "test"
    BY <1>1, <2>4 DEF NextOf
  <2> QED
    BY <1>4, <2>1, <2>2, <2>3, <2>4 DEF Builds
<1> QED
  BY <1>1, <1>2, <1>3, <1>5, LeavesLinked

\* The program that was linked runs.
LEMMA RunProgramKeeps ==
    ASSUME IInv, RunProgram
    PROVE  IInv'
<1>1. cli.at = "running" /\ Steady /\ UNCHANGED <<cache, files, out>>
  BY DEF RunProgram, Steady, disk
<1>2. cli.at \in Linked
  BY <1>1 DEF Linked
<1>3. CacheRight' /\ FilesRight'
  BY <1>1, CacheKept, FilesKept DEF Steady
<1>4. cli.request.command = "run"
  BY <1>1, RunningIs DEF InMemory, Commanded
<1>5. cli' = At("delegate") \/ cli' = Ended("0")
  BY DEF RunProgram
<1> QED
  BY <1>1, <1>2, <1>3, <1>4, <1>5, LeavesLinked

\* The tests run; the command ends with what they say.
LEMMA RunTestsKeeps ==
    ASSUME IInv, RunTests
    PROVE  IInv'
<1>1. cli.at = "testing" /\ Steady /\ UNCHANGED <<cache, files, out>>
  BY DEF RunTests, Steady, disk
<1>2. cli.at \in Linked
  BY <1>1 DEF Linked
<1>3. CacheRight' /\ FilesRight'
  BY <1>1, CacheKept, FilesKept DEF Steady
<1>4. cli' = Ended("0") \/ cli' = Ended("1")
  BY DEF RunTests
<1> QED
  BY <1>1, <1>2, <1>3, <1>4, LeavesLinked

\* The language server, the formatter or the hot reloader runs.
LEMMA DelegateKeeps ==
    ASSUME IInv, Delegate
    PROVE  IInv'
<1>1. cli.at = "delegate" /\ Steady /\ UNCHANGED <<cache, files, out>>
  BY DEF Delegate, Steady, disk
<1>2. cli.at \in Linked
  BY <1>1 DEF Linked
<1>3. CacheRight' /\ FilesRight'
  BY <1>1, CacheKept, FilesKept DEF Steady
<1>4. cli' = Ended("0") \/ cli' = Ended("1")
  BY DEF Delegate
<1> QED
  BY <1>1, <1>2, <1>3, <1>4, LeavesLinked

\* bindgen may generate nothing: it builds nothing either.
LEMMA RunBindgenKeeps ==
    ASSUME IInv, RunBindgen
    PROVE  IInv'
<1>1. cli.at = "bindgen" /\ cli.at # "exit" /\ Steady /\ UNCHANGED <<cache, files, out>>
  BY DEF RunBindgen, Steady, disk
<1>2. InMemory /\ DOMAIN cli = Fields
  BY <1>1, RunningIs DEF InMemory
<1>3. CacheRight' /\ FilesRight'
  BY <1>1, CacheKept, FilesKept DEF Steady
<1>4. /\ DOMAIN cli' = Fields /\ cli'.at = "exit" /\ cli'.argv = cli.argv /\ cli'.request = cli.request /\ cli'.since = cli.since
      /\ cli'.tasks = cli.tasks /\ cli'.sourcePaths = cli.sourcePaths /\ cli'.compilerArgs = cli.compilerArgs
  BY <1>2 DEF RunBindgen, Ended, Fields
<1>5. cli.request.command = "bindgen"
  BY <1>1, <1>2 DEF InMemory, Commanded
<1>6. ~Finished' /\ Generated' /\ Commanded'
  BY <1>4, <1>5 DEF Finished, Generated, Commanded, Builds
<1>7. Equipped' /\ Typed' /\ Fresh'
  BY <1>4, <1>6 DEF Equipped, Typed, Fresh, Linked
<1>8. Project' = Project /\ Machine' = Machine
  BY <1>1 DEF Steady, Project, Machine
<1>9. Collected'
  <2>1. Collected
    BY <1>2 DEF InMemory
  <2>2. AllTasks' = AllTasks
    BY <1>8 DEF AllTasks
  <2> QED
    BY <1>4, <2>1, <2>2 DEF Collected, Preparing
<1>10. Requested' /\ Timed'
  BY <1>1, <1>2, <1>4, <1>8 DEF InMemory, Requested, Timed, Steady
<1>11. Known' /\ sources' \in Nat
  <2>1. cli # Idle
    BY <1>2, NotIdle
  <2> QED
    BY <1>1, <1>4, <2>1 DEF IInv, Known, Steady
<1> QED
  BY <1>3, <1>4, <1>6, <1>7, <1>9, <1>10, <1>11 DEF IInv, InMemory

\* A command begins, or is refused.
Entered(place, request) ==
    /\ place \in {"cache", "setup", "venv", "exit"}
    /\ place = "cache" => request.command \in Loading \cup {"info", "remove"}
    /\ place = "setup" => request.command = "setup"
    /\ place = "venv" => request.command = "bindgen"
    /\ place = "exit" => request.command \notin Builds
    /\ place # "exit" /\ request.command = "invoke" => request.name \in {"compiler", "assembler", "linker"}

\* A command that has just begun has built nothing yet.
LEMMA BeginKeeps ==
    ASSUME IInv, lines # <<>>, lines' = Tail(lines), UNCHANGED <<setting, sources, cache, files>>,
           NEW request, NEW place, NEW code, cli' = [StartCli(Head(lines), request, place) EXCEPT !.code = code],
           Entered(place, request), place # "exit" => code = None,
           \/ place = "exit" /\ request = NoRequest
           \/ /\ parse[Head(lines)].stop = None
              /\ request = RequestFor(Head(lines), Machine.host)
              /\ Valid(request)
    PROVE  IInv'
<1> DEFINE args == IF HasOption(parse[Head(lines)], "debug-compiler") THEN <<"--debug">> ELSE <<>>
<1>1. /\ DOMAIN cli' = Fields /\ cli'.argv = Head(lines) /\ cli'.request = request /\ cli'.at = place /\ cli'.code = code
      /\ cli'.since = sources /\ cli'.tasks = <<>> /\ cli'.sourcePaths = <<>> /\ cli'.generated = TRUE
      /\ cli'.compilerArgs = args
  BY DEF StartCli, Fields
<1>2. IsSeq(args) /\ Range(args) \cap OwnOptions = {}
  <2>1. IsSeq(<<>>) /\ Range(<<>>) = {} /\ IsSeq(<<"--debug">>) /\ Range(<<"--debug">>) = {"--debug"}
    BY ShortIs
  <2> QED
    BY <2>1 DEF OwnOptions
<1> HIDE DEF args
<1>3. Known' /\ sources' \in Nat
  <2>1. PICK h \in Histories : setting = [project |-> h.project, machine |-> h.machine] /\ lines \in Seq(Range(h.lines))
    BY DEF IInv, Known
  <2>2. Head(lines) \in Range(h.lines) /\ Tail(lines) \in Seq(Range(h.lines))
    <3> DEFINE R == Range(h.lines)
    <3>1. lines \in Seq(R) /\ lines # <<>>
      BY <2>1
    <3> HIDE DEF R
    <3>2. Head(lines) \in R /\ Tail(lines) \in Seq(R)
      BY <3>1
    <3> QED
      BY <3>2 DEF R
  <2> QED
    BY <1>1, <2>1, <2>2 DEF IInv, Known
<1>4. CacheRight' /\ FilesRight'
  BY CacheKept, FilesKept
<1>5. Machine' = Machine
  BY DEF Machine
<1>6. Requested'
  BY <1>1, <1>5 DEF Requested
<1>7. Timed' /\ Generated'
  BY <1>1 DEF IInv, Timed, Generated
<1>8. Commanded'
  BY <1>1 DEF Commanded, Entered
<1>9. ~Finished'
  <2>1. CASE place = "exit"
    BY <1>1, <2>1 DEF Finished, Entered
  <2>2. CASE place # "exit"
    BY <1>1, <2>2, NoneIs DEF Finished
  <2> QED
    BY <2>1, <2>2
<1>10. place \notin EquippedAt /\ place \notin TypedAt /\ place \notin Linked /\ place # "compiler" /\ place # "assembler" /\ place # "linker"
  BY DEF Entered, EquippedAt, TypedAt, Linked
<1>11. Equipped' /\ Typed' /\ Fresh'
  BY <1>1, <1>9, <1>10 DEF Equipped, Typed, Fresh, EquippedAt, TypedAt
<1>12. Collected'
  <2>1. IsSeq(<<>>) /\ Range(<<>>) = {}
    BY ShortIs
  <2>2. "--testing" \in OwnOptions
    BY DEF OwnOptions
  <2>3. <<>> \in Seq(AllTasks')
    OBVIOUS
  <2> QED
    BY <1>1, <1>2, <1>10, <2>1, <2>2, <2>3 DEF Collected
<1> QED
  BY <1>1, <1>3, <1>4, <1>6, <1>7, <1>8, <1>11, <1>12 DEF IInv, InMemory

\* The next command line is parsed.
LEMMA StartKeeps ==
    ASSUME IInv, Start
    PROVE  IInv'
<1> DEFINE argv == Head(lines)
           p == parse[argv]
           request == RequestFor(argv, Machine.host)
           place == FirstStep(request)
           code == IF place = "exit" THEN "0" ELSE None
<1>1. lines # <<>> /\ lines' = Tail(lines) /\ UNCHANGED <<setting, sources, cache, files>>
  BY DEF Start, disk
<1>2. cli' = IF p.stop # "error" /\ OnlyInforms(p) THEN Refused(argv, "0")
             ELSE IF p.stop = "error" \/ ~Valid(request) \/ place = "refuse" THEN Refused(argv, "1")
             ELSE [StartCli(argv, request, place) EXCEPT !.code = code]
  BY DEF Start, RequestFor
<1>3. argv \in CommandLines
  <2>1. PICK h \in Histories : lines \in Seq(Range(h.lines))
    BY DEF IInv, Known
  <2>2. argv \in Range(h.lines)
    BY <1>1, <2>1
  <2> QED
    BY <2>2 DEF CommandLines
<1>4. p.stop \in {None, "help", "error"}
  BY <1>3, ParseAgrees
<1>5. ASSUME NEW c, cli' = Refused(argv, c) PROVE IInv'
  <2>1. Entered("exit", NoRequest)
    <3>1. NoRequest.command = None
      BY DEF NoRequest
    <3>2. None \notin Builds
      BY DEF None, Builds
    <3> QED
      BY <3>1, <3>2 DEF Entered
  <2> DEFINE where == "exit"
  <2>2. cli' = [StartCli(Head(lines), NoRequest, where) EXCEPT !.code = c] /\ Entered(where, NoRequest) /\ where = "exit"
    BY <1>5, <2>1 DEF Refused
  <2> HIDE DEF where
  <2> QED
    BY <1>1, <2>2, BeginKeeps
<1>6. ASSUME p.stop # "error", ~OnlyInforms(p), Valid(request), place # "refuse",
             cli' = [StartCli(argv, request, place) EXCEPT !.code = code]
      PROVE  IInv'
  <2>1. p.stop = None
    BY <1>4, <1>6 DEF OnlyInforms
  <2>2. Entered(place, request)
    <3> HIDE DEF request
    <3> DEFINE command == request.command
    <3>1. CASE command \in {"build", "run", "test", "lsp", "info", "remove"}
      BY <3>1 DEF FirstStep, Entered, Loading
    <3>2. CASE command = "format"
      BY <1>6, <3>2 DEF FirstStep, Entered, Loading
    <3>3. CASE command = "invoke"
      BY <1>6, <3>3 DEF FirstStep, Entered, Loading
    <3>4. CASE command = "setup"
      BY <3>4 DEF FirstStep, Entered
    <3>5. CASE command = "bindgen"
      BY <3>5 DEF FirstStep, Entered
    <3>6. CASE command \notin {"build", "run", "test", "lsp", "info", "remove", "format", "invoke", "setup", "bindgen"}
      <4>1. place = "exit"
        BY <3>6 DEF FirstStep
      <4> QED
        BY <3>6, <4>1 DEF Entered, Builds
    <3> QED
      BY <3>1, <3>2, <3>3, <3>4, <3>5, <3>6
  <2> HIDE DEF place
  <2> QED
    BY <1>1, <1>6, <2>1, <2>2, BeginKeeps
<1> QED
  BY <1>2, <1>5, <1>6

\* A step that changes nothing.
LEMMA StutterKeeps ==
    ASSUME IInv, UNCHANGED vars
    PROVE  IInv'
<1>1. UNCHANGED <<setting, sources, cache, installed, files, out, lines, cli, faults>>
  BY DEF vars
<1>2. Known' /\ CacheRight' /\ FilesRight'
  BY <1>1 DEF IInv, Known, CacheRight, FilesRight, Machine
<1>3. ASSUME InMemory PROVE InMemory'
  <2>1. Timed' /\ Requested' /\ Commanded' /\ Generated'
    BY <1>1, <1>3 DEF InMemory, Timed, Requested, Commanded, Generated, Machine
  <2>2. Equipped' /\ Typed'
    BY <1>1, <1>3 DEF InMemory, Equipped, Typed, Machine, Project, Wanted, Finished
  <2>3. Collected'
    BY <1>1, <1>3 DEF InMemory, Collected, AllTasks, Project
  <2>4. Fresh'
    BY <1>1, <1>3 DEF InMemory, Fresh, Current, CurrentProgram, Wanted, Finished, AssemblyFile
  <2> QED
    BY <1>1, <1>3, <2>1, <2>2, <2>3, <2>4 DEF InMemory
<1> QED
  BY <1>1, <1>2, <1>3 DEF IInv

-----------------------------------------------------------------------------
(* The theorem.                                                            *)

\* The invariant holds in every step, whoever takes it.
LEMMA Invariance ==
    ASSUME IInv, PlainHistories, [Next]_vars
    PROVE  IInv'
<1>1. CASE Step
  BY <1>1, StartKeeps, LoadCachedToolchainKeeps, SetUpToolchainKeeps, OpenCacheKeeps, WriteCacheKeeps, RemoveSysrootKeeps,
     RemoveCacheKeeps, LoadRootManifestKeeps, ParseManifestKeeps, LoadManifestKeeps, RunBuildScriptKeeps, InstallPackageKeeps,
     LoadPackageKeeps, AddPackagePathsKeeps, ConfigLoadedKeeps, InvokeCompilerKeeps, InvokeAssemblerKeeps, SkipAssemblerKeeps,
     InvokeLinkerKeeps, RemoveObjectKeeps, RunProgramKeeps, RunTestsKeeps, DelegateKeeps, CreateEnvironmentKeeps,
     RunBindgenKeeps DEF Step
<1> QED
  BY <1>1, EditSourcesKeeps, InterruptKeeps, StutterKeeps DEF Next

\* What a command builds for is what its arguments ask for.
LEMMA AskedIs ==
    ASSUME IInv, InMemory, cli.request.command \in Loading
    PROVE  /\ Wanted = AskedTarget /\ LevelOf(cli.request) = AskedLevel
           /\ cli.request.hot <=> HasFlag(cli.argv, "hot-reload")
<1>1. PICK h \in Histories : /\ setting = [project |-> h.project, machine |-> h.machine]
                             /\ cli # Idle => cli.argv \in Range(h.lines)
  BY DEF IInv, Known
<1>2. cli.argv \in CommandLines
  <2>1. cli # Idle
    BY NotIdle DEF InMemory
  <2> QED
    BY <1>1, <2>1 DEF CommandLines
<1>3. Machine.host \in list_available
  BY <1>1, HistoriesAssumption DEF Machine
<1>4. cli.request # NoRequest
  <2>1. NoRequest.command \notin Loading
    BY DEF NoRequest, None, Loading
  <2> QED
    BY <2>1
<1>5. parse[cli.argv].stop = None /\ cli.request = RequestFor(cli.argv, Machine.host) /\ Valid(cli.request)
  BY <1>4 DEF InMemory, Requested
<1> DEFINE argv == cli.argv
           host == Machine.host
<1>6. /\ RequestFor(argv, host).hot <=> HasFlag(argv, "hot-reload")
      /\ RequestFor(argv, host).command \in Loading => RequestFor(argv, host).target = TargetAsked(argv, host)
      /\ LevelOf(RequestFor(argv, host)) = LevelAsked(argv)
  BY <1>2, <1>3, <1>5, RequestIs
<1> QED
  BY <1>5, <1>6 DEF Wanted, AskedTarget, AskedLevel, TargetAsked, LevelAsked

\* The invariant says what a built program is.
LEMMA Enough ==
    ASSUME IInv
    PROVE  LinkedCurrent
<1> SUFFICES ASSUME Built PROVE LinkedCurrent
  BY DEF LinkedCurrent
<1>1. InMemory
  <2>1. cli # Idle
    <3>1. Idle.code = None /\ Idle.at = "exit"
      BY DEF Idle
    <3> QED
      BY <3>1, NoneIs DEF Built
  <2> QED
    BY <2>1 DEF IInv
<1>2. cli.request.command \in Builds /\ (cli.at \in Linked \/ Finished)
  BY <1>1 DEF InMemory, Commanded, Built, Builds, Linked, Finished
<1>3. CurrentProgram
  BY <1>1, <1>2 DEF InMemory, Fresh
<1>4. /\ Wanted = AskedTarget /\ LevelOf(cli.request) = AskedLevel
      /\ cli.request.hot <=> HasFlag(cli.argv, "hot-reload")
  <2>1. cli.request.command \in Loading
    BY <1>2 DEF Builds, Loading
  <2> QED
    BY <1>1, <2>1, AskedIs
<1>5. cli.toolchain = set_up(Machine, Wanted)
  BY <1>1, <1>2 DEF InMemory, Equipped
<1>6. cli.generated
  <2>1. cli.request.command # "bindgen"
    BY <1>2 DEF Builds
  <2> QED
    BY <1>1, <2>1 DEF InMemory, Generated
<1> DEFINE path == get_output_path(cli)
           program == out[path]
           config == program.object.config
           t == AskedTarget
<1>7. /\ path \in DOMAIN out /\ program # Partial
      /\ program.object.sources >= cli.since
      /\ config.arch = t.arch /\ config.os = t.os /\ config.level = AskedLevel
      /\ config.hot <=> HasFlag(cli.argv, "hot-reload")
      /\ config.testing <=> cli.request.command = "test"
      /\ cli.type = "shared_library" => program.command.shared # None
  BY <1>3, <1>4 DEF CurrentProgram, Current
<1> QED
  BY <1>4, <1>5, <1>6, <1>7 DEF LinkedCurrent

\* A command that has built a program leaves what the linker made of the
\* sources as they are, for what the arguments ask for, whatever commands
\* were run, failed or were interrupted before.  (build, invoke_compiler,
\* invoke_assembler, invoke_linker, load_cached_toolchain)
THEOREM AlwaysLinkedCurrent ==
    ASSUME PlainHistories
    PROVE  Spec => []LinkedCurrent
<1>1. Init => IInv
  BY InitHolds
<1>2. IInv /\ [Next]_vars => IInv'
  BY Invariance
<1>3. IInv => LinkedCurrent
  BY Enough
<1> QED
  BY <1>1, <1>2, <1>3, PTL DEF Spec

-----------------------------------------------------------------------------
(* What a command collects from the manifests: c is its memory, needed are *)
(* the manifests that count for the target t, loaded those of which it has *)
(* taken the options, parsed those of which it knows the library paths.    *)
PackagesOf(ms) == UNION {Range(m.packages) : m \in ms}
LibrariesOf(ms) == UNION {Range(m.libraries) : m \in ms}
FrameworksOf(ms) == UNION {Range(m.frameworks) : m \in ms}
LinkerArgsOf(ms) == UNION {Range(m.linker_args) : m \in ms}
ArgsOf(ms) == UNION {Range(m.args) : m \in ms}
PathsOf(ms) == UNION {Range(m.library_paths) : m \in ms}
LibraryDirs(p, n, t) == {PathOf(n, d) : d \in p.packages[n].dirs \cap {"lib", TargetDir(t)}}
SourceDirs(p, n) == {PathOf(n, d) : d \in p.packages[n].dirs \cap {"src"}}
AllLibraryDirs(p, ns, t) == UNION {LibraryDirs(p, n, t) : n \in ns}
AllSourceDirs(p, ns) == UNION {SourceDirs(p, n) : n \in ns}
Has(c, x) == x \in Range(c.tasks)

\* The manifests that count are the fewest.
Least(needed, p, t) ==
    /\ needed \subseteq Manifests /\ NeededFor(p, t, needed)
    /\ \A ms \in SUBSET Manifests : NeededFor(p, t, ms) => needed \subseteq ms

\* Nothing is loaded that does not count.
Within(needed, parsed, p, c) ==
    /\ \A m \in Manifests : Has(c, ManifestTask(m)) => m \in needed
    /\ \A m \in Manifests : m \in parsed \/ Has(c, ParseTask(m)) => m \in needed \/ (m.library_paths = <<>> /\ m.targets = <<>>)
    /\ \A n \in DOMAIN p.packages : Has(c, Task("package", n)) \/ Has(c, Task("paths", n)) => n \in PackagesOf(needed)

\* What is needed is loaded or still to be loaded.
Reached(loaded, c, m) == m \in loaded \/ Has(c, ManifestTask(m))
Covers(loaded, p, t, c) ==
    /\ Reached(loaded, c, p.manifest)
    /\ \A m \in loaded :
          /\ \A k \in DOMAIN m.targets : m.targets[k].target = t => Reached(loaded, c, m.targets[k].manifest)
          /\ \A n \in Range(m.packages) : Has(c, Task("package", n)) \/ Reached(loaded, c, p.packages[n].manifest)

\* All is parsed before anything else happens.
ParsedFirst(s) == \A k \in DOMAIN s : s[k].kind = "parse" => \A j \in 1..k : s[j].kind = "parse"
Announced(loaded, parsed, c) ==
    /\ ParsedFirst(c.tasks)
    /\ \A m \in Manifests : Reached(loaded, c, m) => m \in parsed \/ Has(c, ParseTask(m))
    /\ \A m \in parsed : \A k \in DOMAIN m.targets :
          m.targets[k].manifest \in parsed \/ Has(c, ParseTask(m.targets[k].manifest))

\* The options of the manifests that are loaded.
Taken(loaded, c) ==
    /\ IsSeq(c.libraries) /\ Range(c.libraries) = LibrariesOf(loaded)
    /\ IsSeq(c.frameworks) /\ Range(c.frameworks) = FrameworksOf(loaded)
    /\ IsSeq(c.linkerArgs) /\ Range(c.linkerArgs) = LinkerArgsOf(loaded)
    /\ IsSeq(c.compilerArgs) /\ ArgsOf(loaded) \subseteq Range(c.compilerArgs)

\* The directories of the manifests that are parsed and of the packages.
Searched(needed, loaded, parsed, p, t, c) ==
    /\ IsSeq(c.libraryPaths) /\ IsSeq(c.sourcePaths)
    /\ PathsOf(parsed) \subseteq Range(c.libraryPaths)
    /\ Range(c.libraryPaths) \subseteq PathsOf(parsed) \cup AllLibraryDirs(p, PackagesOf(needed), t)
    /\ "src" \in Range(c.sourcePaths)
    /\ Range(c.sourcePaths) \subseteq {"src"} \cup AllSourceDirs(p, PackagesOf(needed))
    /\ \A n \in PackagesOf(loaded) :
          \/ Has(c, Task("package", n)) \/ Has(c, Task("paths", n))
          \/ LibraryDirs(p, n, t) \subseteq Range(c.libraryPaths) /\ SourceDirs(p, n) \subseteq Range(c.sourcePaths)

\* The libraries of a package come after those that need it.
Follow(libraries, m, q) ==
    \A k \in DOMAIN libraries : libraries[k] \in Range(m.libraries) =>
        \A l \in Range(q.libraries) : \E j \in k + 1..Len(libraries) : libraries[j] = l
Sorted(loaded, p, c) ==
    \A m \in loaded : \A n \in Range(m.packages) :
        \/ Has(c, Task("package", n)) \/ Has(c, ManifestTask(p.packages[n].manifest))
        \/ Follow(c.libraries, m, p.packages[n].manifest)

Walk(needed, loaded, parsed, p, t, c) ==
    /\ loaded \subseteq needed /\ parsed \subseteq Manifests
    /\ Within(needed, parsed, p, c) /\ Covers(loaded, p, t, c) /\ Announced(loaded, parsed, c)
    /\ Taken(loaded, c) /\ Searched(needed, loaded, parsed, p, t, c) /\ Sorted(loaded, p, c)

\* What the tools get in the end.
Gathered(needed, p, t, c) ==
    /\ Taken(needed, c)
    /\ IsSeq(c.sourcePaths)
    /\ Range(c.libraryPaths) = PathsOf(needed) \cup AllLibraryDirs(p, PackagesOf(needed), t)
    /\ Range(c.sourcePaths) = {"src"} \cup AllSourceDirs(p, PackagesOf(needed))
    /\ \A m \in needed : \A n \in Range(m.packages) : Follow(c.libraries, m, p.packages[n].manifest)

Starting == {"cache", "setup", "open cache", "write cache", "manifest"}
Blank(c) == c.libraries = <<>> /\ c.frameworks = <<>> /\ c.linkerArgs = <<>> /\ c.libraryPaths = <<>>
Inputs ==
    /\ cli.at \in Starting => Blank(cli)
    /\ cli.at = "tasks" => \E loaded, parsed \in SUBSET Manifests : Walk(ManifestsFor(Wanted), loaded, parsed, Project, Wanted, cli)
    /\ cli.at \in TypedAt => Gathered(ManifestsFor(Wanted), Project, Wanted, cli)

-----------------------------------------------------------------------------
(* Tasks.                                                                  *)

\* A task says what kind it is of.
LEMMA KindsAre ==
    /\ \A m : ParseTask(m).kind = "parse" /\ ParseTask(m).manifest = m
    /\ \A m : ManifestTask(m).kind = "manifest" /\ ManifestTask(m).manifest = m
    /\ \A kind, n : Task(kind, n).kind = kind /\ Task(kind, n).name = n
BY DEF ParseTask, ManifestTask, Task

\* A task is replaced by others, before the rest.
LEMMA TasksAre ==
    ASSUME NEW A, NEW s \in Seq(A), s # <<>>, NEW more \in Seq(A)
    PROVE  LET d == more \o Tail(s)
           IN /\ d \in Seq(A) /\ Len(d) = Len(more) + Len(s) - 1 /\ DOMAIN d = 1..Len(d) /\ DOMAIN s = 1..Len(s)
              /\ Len(more) \in Nat /\ Len(s) \in Nat /\ 1 \in DOMAIN s /\ s[1] = Head(s) /\ Len(s) > 0
              /\ \A k \in 1..Len(more) : d[k] = more[k]
              /\ \A k \in 2..Len(s) : k + Len(more) - 1 \in DOMAIN d /\ d[k + Len(more) - 1] = s[k]
              /\ \A k \in Len(more) + 1..Len(d) : k - Len(more) + 1 \in 2..Len(s) /\ d[k] = s[k - Len(more) + 1]
<1> DEFINE b == Tail(s)
           d == more \o b
<1>1. s \in Seq(A) /\ Len(s) \in Nat /\ Len(s) > 0 /\ DOMAIN s = 1..Len(s) /\ s[1] = Head(s) /\ more \in Seq(A) /\ Len(more) \in Nat
  OBVIOUS
<1>2. b \in Seq(A) /\ Len(b) = Len(s) - 1 /\ \A k \in 1..Len(b) : b[k] = s[k + 1]
  OBVIOUS
<1> HIDE DEF b
<1>3. /\ d \in Seq(A) /\ Len(d) = Len(more) + Len(b) /\ DOMAIN d = 1..Len(d)
      /\ \A k \in 1..Len(more) : d[k] = more[k]
      /\ \A k \in Len(more) + 1..Len(d) : d[k] = b[k - Len(more)]
  <2>1. d \in Seq(A) /\ Len(d) = Len(more) + Len(b)
    <3>1. more \in Seq(A) /\ b \in Seq(A)
      BY <1>1, <1>2
    <3>2. more \o b \in Seq(A)
      BY <3>1
    <3>3. Len(more \o b) = Len(more) + Len(b)
      BY <3>1
    <3> QED
      BY <3>2, <3>3
  <2>2. \A k \in 1..Len(more) + Len(b) : d[k] = IF k <= Len(more) THEN more[k] ELSE b[k - Len(more)]
    BY <1>1, <1>2
  <2>3. Len(more) \in Nat /\ Len(b) \in Nat
    BY <1>1, <1>2
  <2> HIDE DEF d
  <2>4. DOMAIN d = 1..Len(d)
    BY <2>1
  <2> QED
    BY <2>1, <2>2, <2>3, <2>4
<1> HIDE DEF d
<1>4. \A k \in 2..Len(s) : k + Len(more) - 1 \in DOMAIN d /\ d[k + Len(more) - 1] = s[k]
  <2> SUFFICES ASSUME NEW k \in 2..Len(s) PROVE k + Len(more) - 1 \in DOMAIN d /\ d[k + Len(more) - 1] = s[k]
    OBVIOUS
  <2>1. k + Len(more) - 1 \in Len(more) + 1..Len(d) /\ (k + Len(more) - 1) - Len(more) = k - 1 /\ k - 1 \in 1..Len(b) /\ (k - 1) + 1 = k
    BY <1>1, <1>2, <1>3
  <2>2. k + Len(more) - 1 \in 1..Len(d)
    BY <1>1, <2>1
  <2> QED
    BY <1>2, <1>3, <2>1, <2>2
<1>5. \A k \in Len(more) + 1..Len(d) : k - Len(more) + 1 \in 2..Len(s) /\ d[k] = s[k - Len(more) + 1]
  <2> SUFFICES ASSUME NEW k \in Len(more) + 1..Len(d) PROVE k - Len(more) + 1 \in 2..Len(s) /\ d[k] = s[k - Len(more) + 1]
    OBVIOUS
  <2>1. k - Len(more) \in 1..Len(b) /\ k - Len(more) + 1 \in 2..Len(s)
    BY <1>1, <1>2, <1>3
  <2> QED
    BY <1>2, <1>3, <2>1
<1>6. 1 \in DOMAIN s
  BY <1>1
<1>7. Len(d) = Len(more) + Len(s) - 1
  BY <1>1, <1>2, <1>3
<1> QED
  BY <1>1, <1>3, <1>4, <1>5, <1>6, <1>7 DEF d, b

\* A task is done, and has left new ones.
Moved(s, d, h, new) ==
    /\ \A x \in Range(d) : x \in Range(s) \/ x \in new
    /\ \A x \in Range(s) : x = h \/ x \in Range(d)
    /\ new \subseteq Range(d) /\ h \in Range(s)

\* The tasks of the rest stay.
LEMMA MovedIs ==
    ASSUME NEW A, NEW s \in Seq(A), s # <<>>, NEW more \in Seq(A)
    PROVE  Moved(s, more \o Tail(s), Head(s), Range(more))
<1> DEFINE d == more \o Tail(s)
           n == Len(more)
<1>1. /\ DOMAIN d = 1..Len(d) /\ DOMAIN s = 1..Len(s) /\ n \in Nat /\ Len(s) \in Nat /\ Len(d) \in Nat
      /\ 1 \in DOMAIN s /\ s[1] = Head(s) /\ Len(d) = n + Len(s) - 1 /\ Len(s) > 0
      /\ \A k \in 1..n : d[k] = more[k]
      /\ \A k \in 2..Len(s) : k + n - 1 \in DOMAIN d /\ d[k + n - 1] = s[k]
      /\ \A k \in n + 1..Len(d) : k - n + 1 \in 2..Len(s) /\ d[k] = s[k - n + 1]
  BY TasksAre
<1>2. DOMAIN more = 1..n
  OBVIOUS
<1> HIDE DEF d, n
<1>3. 1..n \subseteq 1..Len(d) /\ 2..Len(s) \subseteq 1..Len(s) /\ (\A k \in 1..Len(s) : k = 1 \/ k \in 2..Len(s))
      /\ (\A k \in 1..Len(d) : k \in 1..n \/ k \in n + 1..Len(d))
  BY <1>1
<1>4. \A x \in Range(d) : x \in Range(s) \/ x \in Range(more)
  <2> SUFFICES ASSUME NEW k \in DOMAIN d PROVE d[k] \in Range(s) \/ d[k] \in Range(more)
    BY DEF Range
  <2>1. CASE k \in 1..n
    BY <1>1, <1>2, <2>1 DEF Range
  <2>2. CASE k \in n + 1..Len(d)
    BY <1>1, <1>3, <2>2 DEF Range
  <2> QED
    BY <1>1, <1>3, <2>1, <2>2
<1>5. \A x \in Range(s) : x = Head(s) \/ x \in Range(d)
  <2> SUFFICES ASSUME NEW k \in DOMAIN s PROVE s[k] = Head(s) \/ s[k] \in Range(d)
    BY DEF Range
  <2> QED
    BY <1>1, <1>3 DEF Range
<1>6. Range(more) \subseteq Range(d)
  BY <1>1, <1>2, <1>3 DEF Range
<1>7. Head(s) \in Range(s)
  BY <1>1 DEF Range
<1> QED
  BY <1>4, <1>5, <1>6, <1>7 DEF Moved, d

\* Nothing is parsed after something else.
LEMMA NoneParsed ==
    ASSUME NEW A, NEW s \in Seq(A), s # <<>>, ParsedFirst(s), Head(s).kind # "parse"
    PROVE  \A x \in Range(s) : x.kind # "parse"
<1>1. DOMAIN s = 1..Len(s) /\ Len(s) \in Nat /\ s[1] = Head(s)
  OBVIOUS
<1>2. \A k \in 1..Len(s) : 1 \in 1..k
  BY <1>1
<1> QED
  BY <1>1, <1>2 DEF ParsedFirst, Range

\* Parsing goes on being first.
LEMMA FirstStill ==
    ASSUME NEW A, NEW s \in Seq(A), s # <<>>, NEW more \in Seq(A), ParsedFirst(s), ParsedFirst(more),
           Head(s).kind # "parse" \/ \A x \in Range(more) : x.kind = "parse"
    PROVE  ParsedFirst(more \o Tail(s))
<1> DEFINE d == more \o Tail(s)
           n == Len(more)
<1>1. /\ DOMAIN d = 1..Len(d) /\ DOMAIN s = 1..Len(s) /\ n \in Nat /\ Len(s) \in Nat /\ Len(d) \in Nat
      /\ 1 \in DOMAIN s /\ s[1] = Head(s) /\ Len(d) = n + Len(s) - 1
      /\ \A k \in 1..n : d[k] = more[k]
      /\ \A k \in n + 1..Len(d) : k - n + 1 \in 2..Len(s) /\ d[k] = s[k - n + 1]
  BY TasksAre
<1>2. DOMAIN more = 1..n
  OBVIOUS
<1> HIDE DEF d, n
<1>3. ASSUME NEW k \in DOMAIN d, d[k].kind = "parse", NEW j \in 1..k
      PROVE  d[j].kind = "parse"
  <2>1. CASE k \in 1..n
    <3>1. j \in 1..n
      BY <1>1, <2>1
    <3> QED
      BY <1>1, <1>2, <1>3, <2>1, <3>1 DEF ParsedFirst
  <2>2. CASE k \notin 1..n
    <3>1. k \in n + 1..Len(d) /\ k - n + 1 \in 1..Len(s) /\ 1 \in 1..k - n + 1
      BY <1>1, <2>2
    <3>2. s[k - n + 1].kind = "parse"
      BY <1>1, <1>3, <3>1
    <3>3. \A i \in 1..k - n + 1 : s[i].kind = "parse"
      BY <1>1, <3>1, <3>2 DEF ParsedFirst
    <3>4. CASE j \in 1..n
      <4>1. more[j] \in Range(more)
        BY <1>2, <3>4 DEF Range
      <4>2. Head(s).kind = "parse"
        BY <1>1, <3>1, <3>3
      <4> QED
        BY <1>1, <3>4, <4>1, <4>2
    <3>5. CASE j \notin 1..n
      <4>1. j \in n + 1..Len(d) /\ j - n + 1 \in 1..k - n + 1
        BY <1>1, <3>1, <3>5
      <4> QED
        BY <1>1, <3>3, <4>1
    <3> QED
      BY <3>4, <3>5
  <2> QED
    BY <2>1, <2>2
<1> QED
  BY <1>3 DEF ParsedFirst, d

-----------------------------------------------------------------------------
(* A task of the walk.                                                     *)

\* Parts for other targets than t have nothing that matters.
OthersPlain(t) ==
    \A m \in Manifests : \A k \in DOMAIN m.targets :
        \/ m.targets[k].target = t
        \/ m.targets[k].manifest.library_paths = <<>> /\ m.targets[k].manifest.targets = <<>>
\* Every package that a manifest names is there.
Stocked(p) ==
    /\ p.manifest \in Manifests
    /\ \A n \in DOMAIN p.packages : p.packages[n].manifest \in Manifests
    /\ \A m \in Manifests : Range(m.packages) \subseteq DOMAIN p.packages
\* A library needs the same packages wherever it is named.
LibrariesPlain ==
    \A m, q \in Manifests : Range(m.libraries) \cap Range(q.libraries) # {} => Range(m.packages) = Range(q.packages)
WalkOf(needed, p, t) == Least(needed, p, t) /\ OthersPlain(t) /\ Stocked(p) /\ LibrariesPlain

\* The parts of a manifest are manifests.
LEMMA PartIs ==
    ASSUME NEW m \in Manifests, NEW k \in DOMAIN m.targets
    PROVE  m.targets[k].manifest \in Manifests
BY ManifestIs, PartsAre

\* What a manifest gives are sequences.
LEMMA GivesSeqs ==
    ASSUME NEW m \in Manifests
    PROVE  IsSeq(m.libraries) /\ IsSeq(m.frameworks) /\ IsSeq(m.linker_args) /\ IsSeq(m.args) /\ IsSeq(m.library_paths)
<1>1. /\ m.libraries \in Seq(STRING) /\ m.frameworks \in Seq(STRING) /\ m.linker_args \in Seq(STRING)
      /\ m.args \in Seq(STRING) /\ m.library_paths \in Seq(STRING)
  BY ManifestsAssumption
<1> QED
  BY <1>1, SeqIs

\* One more manifest.
LEMMA OneMore ==
    ASSUME NEW ms, NEW m
    PROVE  /\ PackagesOf(ms \cup {m}) = PackagesOf(ms) \cup Range(m.packages)
           /\ LibrariesOf(ms \cup {m}) = LibrariesOf(ms) \cup Range(m.libraries)
           /\ FrameworksOf(ms \cup {m}) = FrameworksOf(ms) \cup Range(m.frameworks)
           /\ LinkerArgsOf(ms \cup {m}) = LinkerArgsOf(ms) \cup Range(m.linker_args)
           /\ ArgsOf(ms \cup {m}) = ArgsOf(ms) \cup Range(m.args)
           /\ PathsOf(ms \cup {m}) = PathsOf(ms) \cup Range(m.library_paths)
BY DEF PackagesOf, LibrariesOf, FrameworksOf, LinkerArgsOf, ArgsOf, PathsOf

\* A manifest is parsed: its parts are next.
LEMMA ParseWalks ==
    ASSUME NEW needed, NEW loaded, NEW parsed, NEW p, NEW t, NEW c, NEW d, WalkOf(needed, p, t),
           Walk(needed, loaded, parsed, p, t, c), NEW m \in Manifests,
           Moved(c.tasks, d.tasks, ParseTask(m), {ParseTask(m.targets[k].manifest) : k \in DOMAIN m.targets}),
           ParsedFirst(d.tasks), d.libraryPaths = c.libraryPaths \o m.library_paths,
           d.libraries = c.libraries, d.frameworks = c.frameworks, d.linkerArgs = c.linkerArgs,
           d.compilerArgs = c.compilerArgs, d.sourcePaths = c.sourcePaths
    PROVE  Walk(needed, loaded, parsed \cup {m}, p, t, d)
<1> DEFINE new == {ParseTask(m.targets[k].manifest) : k \in DOMAIN m.targets}
           after == parsed \cup {m}
<1>1. /\ \A x : Has(d, x) => Has(c, x) \/ x \in new
      /\ \A x : Has(c, x) => x = ParseTask(m) \/ Has(d, x)
      /\ \A x \in new : Has(d, x)
      /\ Has(c, ParseTask(m))
  BY DEF Moved, Has
<1>2. /\ \A q \in Manifests : Has(d, ManifestTask(q)) <=> Has(c, ManifestTask(q))
      /\ \A n : Has(d, Task("package", n)) <=> Has(c, Task("package", n))
      /\ \A n : Has(d, Task("paths", n)) <=> Has(c, Task("paths", n))
  BY <1>1, KindsAre
<1>3. \A q : Has(c, ParseTask(q)) => q = m \/ Has(d, ParseTask(q))
  BY <1>1, KindsAre
<1>4. \A q : Has(d, ParseTask(q)) => Has(c, ParseTask(q)) \/ \E k \in DOMAIN m.targets : q = m.targets[k].manifest
  BY <1>1, KindsAre
<1>5. \A k \in DOMAIN m.targets : Has(d, ParseTask(m.targets[k].manifest))
  BY <1>1
<1>6. \A q \in Manifests : Reached(loaded, d, q) <=> Reached(loaded, c, q)
  BY <1>2 DEF Reached
<1> HIDE DEF new
<1>7. Within(needed, after, p, d)
  <2>1. m \in needed \/ (m.library_paths = <<>> /\ m.targets = <<>>)
    BY <1>1 DEF Walk, Within
  <2>2. ASSUME NEW k \in DOMAIN m.targets
        PROVE  LET q == m.targets[k].manifest IN q \in needed \/ (q.library_paths = <<>> /\ q.targets = <<>>)
    <3>1. CASE m \in needed
      BY <3>1 DEF WalkOf, Least, NeededFor, OthersPlain
    <3>2. CASE m \notin needed
      <4>1. m.targets = <<>>
        BY <2>1, <3>2
      <4> QED
        BY <4>1
    <3> QED
      BY <3>1, <3>2
  <2>3. ASSUME NEW q \in Manifests, q \in after \/ Has(d, ParseTask(q))
        PROVE  q \in needed \/ (q.library_paths = <<>> /\ q.targets = <<>>)
    BY <1>4, <2>1, <2>2, <2>3 DEF Walk, Within
  <2> QED
    BY <1>2, <2>3 DEF Walk, Within
<1>8. Covers(loaded, p, t, d)
  <2>1. loaded \subseteq Manifests
    BY DEF Walk, WalkOf, Least
  <2> QED
    BY <1>2, <1>6, <2>1, PartIs DEF Walk, Covers, WalkOf, Stocked
<1>9. Announced(loaded, after, d)
  <2>1. ASSUME NEW q \in Manifests, Reached(loaded, d, q)
        PROVE  q \in after \/ Has(d, ParseTask(q))
    BY <1>3, <1>6, <2>1 DEF Walk, Announced
  <2>2. ASSUME NEW q \in after, NEW k \in DOMAIN q.targets
        PROVE  q.targets[k].manifest \in after \/ Has(d, ParseTask(q.targets[k].manifest))
    BY <1>3, <1>5, <2>2 DEF Walk, Announced
  <2> QED
    BY <2>1, <2>2 DEF Announced
<1>10. Taken(loaded, d)
  BY DEF Walk, Taken
<1>11. Searched(needed, loaded, after, p, t, d)
  <2>1. Joined(d.libraryPaths, c.libraryPaths, m.library_paths)
    BY GivesSeqs, JoinedIs DEF Walk, Searched
  <2>2. IsSeq(d.libraryPaths) /\ Range(d.libraryPaths) = Range(c.libraryPaths) \cup Range(m.library_paths)
    BY <2>1 DEF Joined
  <2>3. PathsOf(after) = PathsOf(parsed) \cup Range(m.library_paths)
    BY OneMore
  <2> HIDE DEF after
  <2> QED
    BY <1>2, <2>2, <2>3 DEF Walk, Searched
<1>12. Sorted(loaded, p, d)
  <2>1. \A q \in loaded : \A n \in Range(q.packages) : p.packages[n].manifest \in Manifests
    BY DEF Walk, WalkOf, Least, Stocked
  <2> QED
    BY <1>2, <2>1 DEF Walk, Sorted
<1> QED
  BY <1>7, <1>8, <1>9, <1>10, <1>11, <1>12 DEF Walk

\* A build script is run.
LEMMA ScriptWalks ==
    ASSUME NEW needed, NEW loaded, NEW parsed, NEW p, NEW t, NEW c, NEW d, WalkOf(needed, p, t),
           Walk(needed, loaded, parsed, p, t, c), NEW script,
           Moved(c.tasks, d.tasks, script, {}), script.kind = "script",
           ParsedFirst(d.tasks), d.libraryPaths = c.libraryPaths,
           d.libraries = c.libraries, d.frameworks = c.frameworks, d.linkerArgs = c.linkerArgs,
           d.compilerArgs = c.compilerArgs, d.sourcePaths = c.sourcePaths
    PROVE  Walk(needed, loaded, parsed, p, t, d)
<1>1. /\ \A x : Has(d, x) => Has(c, x)
      /\ \A x : Has(c, x) => x = script \/ Has(d, x)
  BY DEF Moved, Has
<1>2. /\ \A q : Has(d, ManifestTask(q)) <=> Has(c, ManifestTask(q))
      /\ \A q : Has(d, ParseTask(q)) <=> Has(c, ParseTask(q))
      /\ \A n : Has(d, Task("package", n)) <=> Has(c, Task("package", n))
      /\ \A n : Has(d, Task("paths", n)) <=> Has(c, Task("paths", n))
  BY <1>1, KindsAre
<1>3. \A q : Reached(loaded, d, q) <=> Reached(loaded, c, q)
  BY <1>2 DEF Reached
<1>4. Within(needed, parsed, p, d)
  BY <1>2 DEF Walk, Within
<1>5. Covers(loaded, p, t, d)
  BY <1>2, <1>3 DEF Walk, Covers
<1>6. Announced(loaded, parsed, d)
  BY <1>2, <1>3 DEF Walk, Announced
<1>7. Taken(loaded, d)
  BY DEF Walk, Taken
<1>8. Searched(needed, loaded, parsed, p, t, d)
  BY <1>2 DEF Walk, Searched
<1>9. Sorted(loaded, p, d)
  BY <1>2 DEF Walk, Sorted
<1> QED
  BY <1>4, <1>5, <1>6, <1>7, <1>8, <1>9 DEF Walk

\* The manifest of a package is next, then its directories.
LEMMA PackageWalks ==
    ASSUME NEW needed, NEW loaded, NEW parsed, NEW p, NEW t, NEW c, NEW d, WalkOf(needed, p, t),
           Walk(needed, loaded, parsed, p, t, c), NEW name \in DOMAIN p.packages,
           Moved(c.tasks, d.tasks, Task("package", name),
                 {ParseTask(p.packages[name].manifest), ManifestTask(p.packages[name].manifest), Task("paths", name)}),
           ParsedFirst(d.tasks), d.libraryPaths = c.libraryPaths,
           d.libraries = c.libraries, d.frameworks = c.frameworks, d.linkerArgs = c.linkerArgs,
           d.compilerArgs = c.compilerArgs, d.sourcePaths = c.sourcePaths
    PROVE  Walk(needed, loaded, parsed, p, t, d)
<1> DEFINE m == p.packages[name].manifest
<1>1. /\ \A x : Has(d, x) => Has(c, x) \/ x \in {ParseTask(m), ManifestTask(m), Task("paths", name)}
      /\ \A x : Has(c, x) => x = Task("package", name) \/ Has(d, x)
      /\ Has(d, ParseTask(m)) /\ Has(d, ManifestTask(m)) /\ Has(d, Task("paths", name))
      /\ Has(c, Task("package", name))
  BY DEF Moved, Has
<1>2. /\ \A q : Has(d, ManifestTask(q)) => Has(c, ManifestTask(q)) \/ q = m
      /\ \A q : Has(c, ManifestTask(q)) => Has(d, ManifestTask(q))
      /\ \A q : Has(d, ParseTask(q)) => Has(c, ParseTask(q)) \/ q = m
      /\ \A q : Has(c, ParseTask(q)) => Has(d, ParseTask(q))
      /\ \A n : Has(d, Task("package", n)) => Has(c, Task("package", n))
      /\ \A n : Has(c, Task("package", n)) => n = name \/ Has(d, Task("package", n))
      /\ \A n : Has(d, Task("paths", n)) => Has(c, Task("paths", n)) \/ n = name
      /\ \A n : Has(c, Task("paths", n)) => Has(d, Task("paths", n))
  BY <1>1, KindsAre
<1>3. \A q : Reached(loaded, c, q) => Reached(loaded, d, q)
  BY <1>2 DEF Reached
<1>4. \A q : Reached(loaded, d, q) => Reached(loaded, c, q) \/ q = m
  BY <1>2 DEF Reached
<1>5. Reached(loaded, d, m)
  BY <1>1 DEF Reached
<1>6. name \in PackagesOf(needed) /\ m \in needed
  <2>1. name \in PackagesOf(needed)
    BY <1>1 DEF Walk, Within
  <2>2. PICK q \in needed : name \in Range(q.packages)
    BY <2>1 DEF PackagesOf
  <2> QED
    BY <2>1, <2>2 DEF WalkOf, Least, NeededFor
<1>7. m \in Manifests
  BY DEF WalkOf, Stocked
<1> HIDE DEF m
<1>8. Within(needed, parsed, p, d)
  BY <1>2, <1>6 DEF Walk, Within
<1>9. Covers(loaded, p, t, d)
  <2>1. \A n : Has(c, Task("package", n)) => Has(d, Task("package", n)) \/ Reached(loaded, d, p.packages[n].manifest)
    BY <1>2, <1>5 DEF m
  <2> QED
    BY <1>3, <2>1 DEF Walk, Covers
<1>10. Announced(loaded, parsed, d)
  BY <1>1, <1>2, <1>4 DEF Walk, Announced
<1>11. Taken(loaded, d)
  BY DEF Walk, Taken
<1>12. Searched(needed, loaded, parsed, p, t, d)
  <2>1. \A n : Has(c, Task("package", n)) \/ Has(c, Task("paths", n)) => Has(d, Task("package", n)) \/ Has(d, Task("paths", n))
    BY <1>1, <1>2
  <2> QED
    BY <2>1 DEF Walk, Searched
<1>13. Sorted(loaded, p, d)
  <2>1. \A n : Has(c, Task("package", n)) \/ Has(c, ManifestTask(p.packages[n].manifest))
               => Has(d, Task("package", n)) \/ Has(d, ManifestTask(p.packages[n].manifest))
    BY <1>1, <1>2 DEF m
  <2> QED
    BY <2>1 DEF Walk, Sorted
<1> QED
  BY <1>8, <1>9, <1>10, <1>11, <1>12, <1>13 DEF Walk

\* The directories of a package are added.
LEMMA PathsWalk ==
    ASSUME NEW needed, NEW loaded, NEW parsed, NEW p, NEW t, NEW c, NEW d, WalkOf(needed, p, t),
           Walk(needed, loaded, parsed, p, t, c), NEW name,
           Moved(c.tasks, d.tasks, Task("paths", name), {}),
           ParsedFirst(d.tasks), IsSeq(d.libraryPaths), IsSeq(d.sourcePaths),
           Range(d.libraryPaths) = Range(c.libraryPaths) \cup LibraryDirs(p, name, t),
           Range(d.sourcePaths) = Range(c.sourcePaths) \cup SourceDirs(p, name),
           d.libraries = c.libraries, d.frameworks = c.frameworks, d.linkerArgs = c.linkerArgs,
           d.compilerArgs = c.compilerArgs, name \in DOMAIN p.packages
    PROVE  Walk(needed, loaded, parsed, p, t, d)
<1>1. /\ \A x : Has(d, x) => Has(c, x)
      /\ \A x : Has(c, x) => x = Task("paths", name) \/ Has(d, x)
      /\ Has(c, Task("paths", name))
  BY DEF Moved, Has
<1>2. /\ \A q : Has(d, ManifestTask(q)) <=> Has(c, ManifestTask(q))
      /\ \A q : Has(d, ParseTask(q)) <=> Has(c, ParseTask(q))
      /\ \A n : Has(d, Task("package", n)) <=> Has(c, Task("package", n))
      /\ \A n : Has(d, Task("paths", n)) => Has(c, Task("paths", n))
      /\ \A n : Has(c, Task("paths", n)) => n = name \/ Has(d, Task("paths", n))
  BY <1>1, KindsAre
<1>3. \A q : Reached(loaded, d, q) <=> Reached(loaded, c, q)
  BY <1>2 DEF Reached
<1>4. Within(needed, parsed, p, d)
  BY <1>2 DEF Walk, Within
<1>5. Covers(loaded, p, t, d)
  BY <1>2, <1>3 DEF Walk, Covers
<1>6. Announced(loaded, parsed, d)
  BY <1>2, <1>3 DEF Walk, Announced
<1>7. Taken(loaded, d)
  BY DEF Walk, Taken
<1>8. Searched(needed, loaded, parsed, p, t, d)
  <2>1. name \in PackagesOf(needed)
    BY <1>1 DEF Walk, Within
  <2>2. LibraryDirs(p, name, t) \subseteq AllLibraryDirs(p, PackagesOf(needed), t) /\ SourceDirs(p, name) \subseteq AllSourceDirs(p, PackagesOf(needed))
    BY <2>1 DEF AllLibraryDirs, AllSourceDirs
  <2> QED
    BY <1>2, <2>2 DEF Walk, Searched
<1>9. Sorted(loaded, p, d)
  BY <1>2 DEF Walk, Sorted
<1> QED
  BY <1>4, <1>5, <1>6, <1>7, <1>8, <1>9 DEF Walk

\* Libraries that are added at the end come after all others.
LEMMA FollowStill ==
    ASSUME NEW s, NEW a, NEW b, Joined(s, a, b), NEW m, NEW q, Range(b) \cap Range(m.libraries) = {},
           Follow(a, m, q) \/ q.libraries = b, IsSeq(a), IsSeq(b)
    PROVE  Follow(s, m, q)
<1>1. /\ Len(a) \in Nat /\ Len(b) \in Nat /\ Len(s) = Len(a) + Len(b)
      /\ DOMAIN a = 1..Len(a) /\ DOMAIN b = 1..Len(b) /\ DOMAIN s = 1..Len(s)
  BY SeqIs DEF Joined, IsSeq
<1>2. /\ \A k \in 1..Len(a) : s[k] = a[k]
      /\ \A k \in Len(a) + 1..Len(s) : s[k] \in Range(b)
      /\ \A k \in 1..Len(b) : s[Len(a) + k] = b[k]
  BY DEF Joined
<1> SUFFICES ASSUME NEW k \in DOMAIN s, s[k] \in Range(m.libraries), NEW l \in Range(q.libraries)
             PROVE  \E j \in k + 1..Len(s) : s[j] = l
  BY DEF Follow
<1>3. k \in 1..Len(a)
  <2>1. k \notin Len(a) + 1..Len(s)
    BY <1>2
  <2> QED
    BY <1>1, <2>1
<1>4. CASE Follow(a, m, q)
  <2>1. PICK j \in k + 1..Len(a) : a[j] = l
    BY <1>1, <1>2, <1>3, <1>4 DEF Follow
  <2>2. j \in 1..Len(a) /\ j \in k + 1..Len(s)
    BY <1>1, <1>3
  <2> QED
    BY <1>2, <2>1, <2>2
<1>5. CASE q.libraries = b
  <2>1. PICK j \in 1..Len(b) : b[j] = l
    BY <1>1, <1>5 DEF Range
  <2>2. Len(a) + j \in k + 1..Len(s)
    BY <1>1, <1>3
  <2> QED
    BY <1>2, <2>1, <2>2
<1> QED
  BY <1>4, <1>5

\* What a manifest asks for next.
Asks(m, t, new) ==
    /\ \A x \in new : \/ x.kind = "script"
                      \/ \E n \in Range(m.packages) : x = Task("package", n)
                      \/ \E k \in DOMAIN m.targets : m.targets[k].target = t /\ x = ManifestTask(m.targets[k].manifest)
    /\ \A n \in Range(m.packages) : Task("package", n) \in new
    /\ \A k \in DOMAIN m.targets : m.targets[k].target = t => ManifestTask(m.targets[k].manifest) \in new

\* The options of a manifest are added.
LEMMA LoadWalks ==
    ASSUME NEW needed, NEW loaded, NEW parsed, NEW p, NEW t, NEW c, NEW d, WalkOf(needed, p, t),
           Walk(needed, loaded, parsed, p, t, c), NEW m \in Manifests, NEW new, Asks(m, t, new),
           Moved(c.tasks, d.tasks, ManifestTask(m), new), \A x \in Range(c.tasks) : x.kind # "parse",
           ParsedFirst(d.tasks), d.libraryPaths = c.libraryPaths, d.sourcePaths = c.sourcePaths,
           d.libraries = c.libraries \o m.libraries, d.frameworks = c.frameworks \o m.frameworks,
           d.linkerArgs = c.linkerArgs \o m.linker_args, d.compilerArgs = c.compilerArgs \o m.args
    PROVE  Walk(needed, loaded \cup {m}, parsed, p, t, d)
<1> DEFINE after == loaded \cup {m}
<1>1. /\ \A x : Has(d, x) => Has(c, x) \/ x \in new
      /\ \A x : Has(c, x) => x = ManifestTask(m) \/ Has(d, x)
      /\ \A x \in new : Has(d, x)
      /\ Has(c, ManifestTask(m))
  BY DEF Moved, Has
<1>2. /\ \A q : Has(d, ManifestTask(q)) => Has(c, ManifestTask(q))
                   \/ \E k \in DOMAIN m.targets : m.targets[k].target = t /\ q = m.targets[k].manifest
      /\ \A q : Has(c, ManifestTask(q)) => q = m \/ Has(d, ManifestTask(q))
      /\ \A k \in DOMAIN m.targets : m.targets[k].target = t => Has(d, ManifestTask(m.targets[k].manifest))
  BY <1>1, KindsAre DEF Asks
<1>3. /\ \A n : Has(d, Task("package", n)) => Has(c, Task("package", n)) \/ n \in Range(m.packages)
      /\ \A n : Has(c, Task("package", n)) => Has(d, Task("package", n))
      /\ \A n \in Range(m.packages) : Has(d, Task("package", n))
      /\ \A n : Has(d, Task("paths", n)) <=> Has(c, Task("paths", n))
  BY <1>1, KindsAre DEF Asks
<1>4. \A q : ~Has(c, ParseTask(q)) /\ ~Has(d, ParseTask(q))
  BY <1>1, KindsAre DEF Asks, Has
<1>5. m \in needed /\ m \in parsed
  BY <1>1, <1>4 DEF Walk, Within, Announced, Reached
<1>6. \A k \in DOMAIN m.targets : m.targets[k].target = t => m.targets[k].manifest \in needed \cap parsed
  BY <1>4, <1>5 DEF WalkOf, Least, NeededFor, Walk, Announced
<1>7. \A q : Reached(loaded, c, q) => Reached(after, d, q)
  BY <1>2 DEF Reached
<1>8. Within(needed, parsed, p, d)
  <2>1. Range(m.packages) \subseteq PackagesOf(needed)
    BY <1>5 DEF PackagesOf
  <2> QED
    BY <1>2, <1>3, <1>4, <1>6, <2>1 DEF Walk, Within
<1>9. Covers(after, p, t, d)
  <2>1. Reached(after, d, p.manifest)
    BY <1>7 DEF Walk, Covers
  <2>2. ASSUME NEW q \in loaded
        PROVE  /\ \A k \in DOMAIN q.targets : q.targets[k].target = t => Reached(after, d, q.targets[k].manifest)
               /\ \A n \in Range(q.packages) : Has(d, Task("package", n)) \/ Reached(after, d, p.packages[n].manifest)
    BY <1>3, <1>7 DEF Walk, Covers
  <2>3. /\ \A k \in DOMAIN m.targets : m.targets[k].target = t => Reached(after, d, m.targets[k].manifest)
        /\ \A n \in Range(m.packages) : Has(d, Task("package", n)) \/ Reached(after, d, p.packages[n].manifest)
    BY <1>2, <1>3 DEF Reached
  <2> QED
    BY <2>1, <2>2, <2>3 DEF Covers
<1>10. Announced(after, parsed, d)
  <2>1. ASSUME NEW q \in Manifests, Reached(after, d, q)
        PROVE  q \in parsed
    <3>1. Reached(loaded, c, q) => q \in parsed
      BY <1>4 DEF Walk, Announced
    <3>2. Reached(loaded, c, q) \/ q = m \/ \E k \in DOMAIN m.targets : m.targets[k].target = t /\ q = m.targets[k].manifest
      BY <1>2, <2>1 DEF Reached
    <3> QED
      BY <1>5, <1>6, <3>1, <3>2
  <2> QED
    BY <1>4, <2>1 DEF Walk, Announced
<1>11. Joined(d.libraries, c.libraries, m.libraries)
  BY GivesSeqs, JoinedIs DEF Walk, Taken
<1>12. Taken(after, d)
  <2>1. /\ Joined(d.frameworks, c.frameworks, m.frameworks) /\ Joined(d.linkerArgs, c.linkerArgs, m.linker_args)
        /\ Joined(d.compilerArgs, c.compilerArgs, m.args)
    BY GivesSeqs, JoinedIs DEF Walk, Taken
  <2>2. /\ LibrariesOf(after) = LibrariesOf(loaded) \cup Range(m.libraries)
        /\ FrameworksOf(after) = FrameworksOf(loaded) \cup Range(m.frameworks)
        /\ LinkerArgsOf(after) = LinkerArgsOf(loaded) \cup Range(m.linker_args)
        /\ ArgsOf(after) = ArgsOf(loaded) \cup Range(m.args)
    BY OneMore
  <2> HIDE DEF after
  <2> QED
    BY <1>11, <2>1, <2>2 DEF Walk, Taken, Joined
<1>13. Searched(needed, after, parsed, p, t, d)
  <2>1. PackagesOf(after) = PackagesOf(loaded) \cup Range(m.packages)
    BY OneMore
  <2> HIDE DEF after
  <2> QED
    BY <1>3, <2>1 DEF Walk, Searched
<1>14. Sorted(after, p, d)
  <2> SUFFICES ASSUME NEW q \in after, NEW n \in Range(q.packages), ~Has(d, Task("package", n)),
                      ~Has(d, ManifestTask(p.packages[n].manifest))
               PROVE  Follow(d.libraries, q, p.packages[n].manifest)
    BY DEF Sorted
  <2> DEFINE r == p.packages[n].manifest
  <2>1. q \in loaded /\ n \notin Range(m.packages)
    BY <1>3
  <2>2. q \in Manifests
    BY <2>1 DEF Walk, WalkOf, Least
  <2>3. Range(m.libraries) \cap Range(q.libraries) = {}
    BY <2>1, <2>2 DEF WalkOf, LibrariesPlain
  <2>4. Follow(c.libraries, q, r) \/ r = m
    BY <1>2, <1>3, <2>1 DEF Walk, Sorted
  <2>5. Follow(c.libraries, q, r) \/ r.libraries = m.libraries
    BY <2>4
  <2>6. IsSeq(c.libraries) /\ IsSeq(m.libraries)
    BY GivesSeqs DEF Walk, Taken
  <2> HIDE DEF r
  <2>7. Follow(d.libraries, q, r)
    BY <1>11, <2>3, <2>5, <2>6, FollowStill
  <2> QED
    BY <2>7 DEF r
<1>15. after \subseteq needed
  BY <1>5 DEF Walk
<1> QED
  BY <1>8, <1>9, <1>10, <1>12, <1>13, <1>14, <1>15 DEF Walk

-----------------------------------------------------------------------------
(* The steps of a command.                                                 *)

\* The manifests that count for a target are the fewest.
LEMMA NeededIs ==
    ASSUME NEW h \in Histories, NEW t \in list_available
    PROVE  Least(Needed[h.project][t], h.project, t)
<1> DEFINE p == h.project
           closed == {ms \in SUBSET Manifests : NeededFor(p, t, ms)}
           needed == {m \in Manifests : \A ms \in SUBSET Manifests : NeededFor(p, t, ms) => m \in ms}
<1>1. Needed[p][t] = needed
  BY DEF Needed
<1>2. \A m \in Manifests : m \in needed <=> \A ms \in closed : m \in ms
  OBVIOUS
<1>3. needed \subseteq Manifests /\ \A ms \in closed : needed \subseteq ms
  OBVIOUS
<1> HIDE DEF needed
<1>4. p.manifest \in needed
  BY <1>2, HistoriesAssumption DEF NeededFor
<1>5. ASSUME NEW m \in needed, NEW k \in DOMAIN m.targets, m.targets[k].target = t
      PROVE  m.targets[k].manifest \in needed
  <2>1. m.targets[k].manifest \in Manifests
    BY <1>3, PartIs
  <2>2. \A ms \in closed : m.targets[k].manifest \in ms
    BY <1>3, <1>5 DEF NeededFor
  <2> QED
    BY <1>2, <2>1, <2>2
<1>6. ASSUME NEW m \in needed, NEW n \in Range(m.packages)
      PROVE  p.packages[n].manifest \in needed
  <2>1. p.packages[n].manifest \in Manifests
    BY <1>3, HistoriesAssumption
  <2>2. \A ms \in closed : p.packages[n].manifest \in ms
    BY <1>3 DEF NeededFor
  <2> QED
    BY <1>2, <2>1, <2>2
<1>7. NeededFor(p, t, needed)
  BY <1>4, <1>5, <1>6 DEF NeededFor
<1> QED
  BY <1>1, <1>3, <1>7 DEF Least

\* What a command that runs knows of the manifests.
LEMMA WalkOfIs ==
    ASSUME IInv, PlainManifests, cli.at # "exit"
    PROVE  WalkOf(ManifestsFor(Wanted), Project, Wanted)
<1>1. InMemory
  BY RunningIs
<1>2. PICK h \in Histories : /\ setting = [project |-> h.project, machine |-> h.machine]
                             /\ cli # Idle => cli.argv \in Range(h.lines)
  BY DEF IInv, Known
<1>3. cli.argv \in Range(h.lines) /\ Project = h.project /\ Machine = h.machine
  BY <1>1, <1>2, NotIdle DEF InMemory, Project, Machine
<1>4. Wanted = Request(parse[cli.argv], h.machine.host).target
  BY <1>1, <1>3 DEF InMemory, Requested, Wanted, RequestFor
<1>5. OthersPlain(Wanted) /\ LibrariesPlain
  BY <1>3, <1>4 DEF PlainManifests, OthersPlain, LibrariesPlain
<1>6. Wanted \in list_available /\ Stocked(Project)
  BY RequestOf DEF Stocked
<1>7. Least(ManifestsFor(Wanted), Project, Wanted)
  BY <1>3, <1>6, NeededIs DEF ManifestsFor
<1> QED
  BY <1>5, <1>6, <1>7 DEF WalkOf

\* What a step does not touch.
LEMMA SameWalk ==
    ASSUME NEW needed, NEW loaded, NEW parsed, NEW p, NEW t, NEW c, NEW d, Walk(needed, loaded, parsed, p, t, c),
           d.tasks = c.tasks, d.libraryPaths = c.libraryPaths, d.sourcePaths = c.sourcePaths,
           d.libraries = c.libraries, d.frameworks = c.frameworks, d.linkerArgs = c.linkerArgs,
           d.compilerArgs = c.compilerArgs
    PROVE  Walk(needed, loaded, parsed, p, t, d)
<1>1. \A x : Has(d, x) <=> Has(c, x)
  BY DEF Has
<1>2. \A m : Reached(loaded, d, m) <=> Reached(loaded, c, m)
  BY <1>1 DEF Reached
<1> QED
  BY <1>1, <1>2 DEF Walk, Within, Covers, Announced, Taken, Searched, Sorted

\* A step that leaves the lists alone.
LEMMA InputsKept ==
    ASSUME Inputs, UNCHANGED setting, NEW S \in SUBSET {"at", "code", "toolchain", "generated"}, Alike(S),
           cli'.at \in Starting => cli.at \in Starting, cli'.at = "tasks" => cli.at = "tasks",
           cli'.at \in TypedAt => cli.at \in TypedAt
    PROVE  Inputs'
<1>1. /\ cli'.tasks = cli.tasks /\ cli'.libraryPaths = cli.libraryPaths /\ cli'.sourcePaths = cli.sourcePaths
      /\ cli'.libraries = cli.libraries /\ cli'.frameworks = cli.frameworks /\ cli'.linkerArgs = cli.linkerArgs
      /\ cli'.compilerArgs = cli.compilerArgs /\ cli'.request = cli.request
  BY DEF Alike, Fields
<1>2. Project' = Project /\ Wanted' = Wanted
  BY <1>1 DEF Project, Wanted
<1>3. ManifestsFor(Wanted)' = ManifestsFor(Wanted)
  BY <1>2 DEF ManifestsFor
<1> DEFINE N == ManifestsFor(Wanted)
           p == Project
           t == Wanted
<1>4. N' = N /\ p' = p /\ t' = t
  BY <1>2, <1>3
<1>5. Inputs' = /\ cli'.at \in Starting => Blank(cli')
                /\ cli'.at = "tasks" => \E loaded, parsed \in SUBSET Manifests : Walk(N, loaded, parsed, p, t, cli')
                /\ cli'.at \in TypedAt => Gathered(N, p, t, cli')
  BY <1>4 DEF Inputs
<1>6. Blank(cli) => Blank(cli')
  BY <1>1 DEF Blank
<1>7. Inputs = /\ cli.at \in Starting => Blank(cli)
               /\ cli.at = "tasks" => \E loaded, parsed \in SUBSET Manifests : Walk(N, loaded, parsed, p, t, cli)
               /\ cli.at \in TypedAt => Gathered(N, p, t, cli)
  BY DEF Inputs
<1> HIDE DEF N, p, t
<1>8. \A loaded, parsed : Walk(N, loaded, parsed, p, t, cli) => Walk(N, loaded, parsed, p, t, cli')
  BY <1>1, SameWalk
<1>9. Gathered(N, p, t, cli) => Gathered(N, p, t, cli')
  BY <1>1 DEF Gathered, Taken
<1> QED
  BY <1>5, <1>6, <1>7, <1>8, <1>9

\* A command ends.
LEMMA InputsEnded ==
    ASSUME IInv, Inputs, cli.at # "exit", UNCHANGED setting, NEW code, cli' = Ended(code)
    PROVE  Inputs'
<1>1. DOMAIN cli = Fields
  BY RunningIs DEF InMemory
<1>2. Alike({"at", "code"}) /\ cli'.at = "exit"
  BY <1>1, EndedIs
<1>3. "exit" \notin Starting \cup TypedAt \cup {"tasks"}
  BY DEF Starting, TypedAt, Linked
<1> QED
  BY <1>2, <1>3, InputsKept

\* A command goes on somewhere else.
LEMMA InputsMoved ==
    ASSUME IInv, Inputs, cli.at # "exit", UNCHANGED setting, NEW place, cli' = At(place), place # "tasks",
           place \in Starting => cli.at \in Starting, place \in TypedAt => cli.at \in TypedAt
    PROVE  Inputs'
<1>1. DOMAIN cli = Fields
  BY RunningIs DEF InMemory
<1>2. Alike({"at"}) /\ cli'.at = place
  BY <1>1, AtIs
<1> QED
  BY <1>2, InputsKept

\* Getting the toolchain touches no list.
LEMMA ToolchainInputs ==
    ASSUME IInv, Inputs, LoadCachedToolchain \/ SetUpToolchain
    PROVE  Inputs'
<1>1. cli.at \in {"cache", "setup"} /\ UNCHANGED setting
  BY DEF LoadCachedToolchain, SetUpToolchain
<1>2. DOMAIN cli = Fields
  BY <1>1, RunningIs DEF InMemory
<1>3. \/ \E code : cli' = Ended(code)
      \/ cli' = At("setup")
      \/ \E tc, place : /\ place \in {"remove sysroot", "manifest", "open cache"}
                        /\ cli' = [cli EXCEPT !.at = place, !.toolchain = tc]
  <2>1. ASSUME NEW tc, NEW place PROVE [[cli EXCEPT !.toolchain = tc] EXCEPT !.at = place] = [cli EXCEPT !.at = place, !.toolchain = tc]
    BY <1>2 DEF Fields
  <2>2. CASE LoadCachedToolchain
    <3> DEFINE tc == deserialize(toolchain_kind(Wanted), cache[Wanted])
    <3>1. \/ \E code : cli' = Ended(code)
          \/ cli' = At("setup")
          \/ cli' = [[cli EXCEPT !.toolchain = tc] EXCEPT !.at = "remove sysroot"]
          \/ cli' = [[cli EXCEPT !.toolchain = tc] EXCEPT !.at = "manifest"]
      BY <2>2 DEF LoadCachedToolchain
    <3> HIDE DEF tc
    <3>2. [[cli EXCEPT !.toolchain = tc] EXCEPT !.at = "remove sysroot"] = [cli EXCEPT !.at = "remove sysroot", !.toolchain = tc]
      BY <2>1
    <3>3. [[cli EXCEPT !.toolchain = tc] EXCEPT !.at = "manifest"] = [cli EXCEPT !.at = "manifest", !.toolchain = tc]
      BY <2>1
    <3>4. \/ \E code : cli' = Ended(code)
          \/ cli' = At("setup")
          \/ cli' = [cli EXCEPT !.at = "remove sysroot", !.toolchain = tc]
          \/ cli' = [cli EXCEPT !.at = "manifest", !.toolchain = tc]
      BY <3>1, <3>2, <3>3
    <3> QED
      BY <3>4
  <2>3. CASE SetUpToolchain
    <3> DEFINE tc == set_up(Machine, Wanted)
    <3>1. (\E code : cli' = Ended(code)) \/ cli' = [cli EXCEPT !.at = "open cache", !.toolchain = tc]
      <4> HIDE DEF tc
      <4> QED
        BY <2>3 DEF SetUpToolchain, tc
    <3> QED
      BY <3>1
  <2> QED
    BY <2>2, <2>3
<1>4. CASE \E code : cli' = Ended(code)
  BY <1>1, <1>4, InputsEnded
<1>5. CASE cli' = At("setup")
  <2>1. cli.at \in Starting /\ "setup" \notin TypedAt
    BY <1>1 DEF Starting, TypedAt, Linked
  <2> QED
    BY <1>1, <1>5, <2>1, InputsMoved
<1>6. ASSUME NEW tc, NEW place \in {"remove sysroot", "manifest", "open cache"},
             cli' = [cli EXCEPT !.at = place, !.toolchain = tc]
      PROVE  Inputs'
  <2> DEFINE S == {"at", "toolchain"}
  <2>1. Alike(S) /\ cli'.at = place
    BY <1>2, <1>6 DEF Alike, Fields
  <2>2. S \in SUBSET {"at", "code", "toolchain", "generated"}
    OBVIOUS
  <2> HIDE DEF S
  <2>3. cli.at \in Starting /\ place \notin TypedAt /\ place # "tasks"
    BY <1>1 DEF Starting, TypedAt, Linked
  <2> QED
    BY <1>1, <2>1, <2>2, <2>3, InputsKept
<1> QED
  BY <1>3, <1>4, <1>5, <1>6

\* Nor do the other steps before and beside the manifests.
LEMMA OtherInputs ==
    ASSUME IInv, Inputs,
           OpenCache \/ WriteCache \/ RemoveSysroot \/ RemoveCache \/ CreateEnvironment
    PROVE  Inputs'
<1>1. UNCHANGED setting /\ cli.at # "exit"
  BY DEF OpenCache, WriteCache, RemoveSysroot, RemoveCache, CreateEnvironment
<1>2. \/ \E code : cli' = Ended(code)
      \/ cli.at = "open cache" /\ cli' = At("write cache")
      \/ cli.at = "write cache" /\ cli' = At("manifest")
      \/ cli' = At("remove cache")
      \/ cli' = At("bindgen")
  BY DEF OpenCache, WriteCache, RemoveSysroot, RemoveCache, CreateEnvironment
<1>3. {"open cache", "write cache", "manifest"} \subseteq Starting /\ {"remove cache", "bindgen"} \cap Starting = {}
      /\ {"write cache", "manifest", "remove cache", "bindgen"} \cap TypedAt = {}
  BY DEF Starting, TypedAt, Linked
<1> QED
  BY <1>1, <1>2, <1>3, InputsEnded, InputsMoved

\* Nor do the tools.
LEMMA ToolInputs ==
    ASSUME IInv, Inputs,
           InvokeCompiler \/ InvokeAssembler \/ SkipAssembler \/ InvokeLinker \/ RemoveObject \/ RunProgram \/ RunTests \/ Delegate
    PROVE  Inputs'
<1>1. UNCHANGED setting /\ cli.at \in TypedAt
  BY DEF InvokeCompiler, InvokeAssembler, SkipAssembler, InvokeLinker, RemoveObject, RunProgram, RunTests, Delegate, TypedAt, Linked
<1>2. \/ \E code : cli' = Ended(code)
      \/ \E place \in {"assembler", "linker", "remove object", "running", "testing", "delegate"} : cli' = At(place)
  <2>1. CASE InvokeCompiler \/ InvokeAssembler \/ SkipAssembler
    <3>1. NextOf("compiler") \in {Ended("0"), At("assembler"), At("linker")} /\ NextOf("assembler") \in {Ended("0"), At("linker")}
      BY DEF NextOf
    <3>2. cli' \in {NextOf("compiler"), NextOf("assembler"), Ended("1")}
      BY <2>1 DEF InvokeCompiler, InvokeAssembler, SkipAssembler
    <3> QED
      BY <3>1, <3>2
  <2>2. CASE InvokeLinker \/ RunProgram \/ RunTests \/ Delegate
    BY <2>2 DEF InvokeLinker, RunProgram, RunTests, Delegate
  <2>3. CASE RemoveObject
    <3>1. cli.request.command \in Builds \cup {"invoke"}
      BY <2>3, RunningIs DEF RemoveObject, InMemory, Commanded
    <3>2. NextOf("linker") \in {Ended("0"), At("running"), At("testing")}
      BY <3>1 DEF NextOf, Builds
    <3> QED
      BY <2>3, <3>2 DEF RemoveObject
  <2> QED
    BY <2>1, <2>2, <2>3
<1>3. cli.at # "exit" /\ {"assembler", "linker", "remove object", "running", "testing", "delegate"} \cap (Starting \cup {"tasks"}) = {}
  BY <1>1 DEF Starting, TypedAt, Linked
<1> QED
  BY <1>1, <1>2, <1>3, InputsEnded, InputsMoved

\* bindgen has no lists.
LEMMA BindgenInputs ==
    ASSUME IInv, Inputs, RunBindgen
    PROVE  Inputs'
<1>1. UNCHANGED setting /\ cli.at = "bindgen"
  BY DEF RunBindgen
<1>2. DOMAIN cli = Fields
  BY <1>1, RunningIs DEF InMemory
<1> DEFINE S == {"at", "code", "generated"}
<1>3. Alike(S) /\ cli'.at = "exit"
  BY <1>2 DEF RunBindgen, Ended, Alike, Fields
<1>4. S \in SUBSET {"at", "code", "toolchain", "generated"}
  OBVIOUS
<1> HIDE DEF S
<1>5. "exit" \notin Starting \cup TypedAt \cup {"tasks"}
  BY DEF Starting, TypedAt, Linked
<1> QED
  BY <1>1, <1>3, <1>4, <1>5, InputsKept

\* The user touches nothing of it, and ends a command.
LEMMA UserInputs ==
    ASSUME IInv, Inputs, EditSources \/ Interrupt \/ UNCHANGED vars
    PROVE  Inputs'
<1>1. UNCHANGED setting
  BY DEF EditSources, Interrupt, vars
<1>2. CASE UNCHANGED cli
  BY <1>1, <1>2 DEF Inputs, Project, Wanted, ManifestsFor
<1>3. CASE Interrupt
  BY <1>1, <1>3, InputsEnded DEF Interrupt
<1> QED
  BY <1>2, <1>3 DEF EditSources, vars

\* A command begins with empty lists.
LEMMA StartInputs ==
    ASSUME IInv, Start
    PROVE  Inputs'
<1> DEFINE argv == Head(lines)
           request == RequestFor(argv, Machine.host)
           place == FirstStep(request)
           code == IF place = "exit" THEN "0" ELSE None
<1>1. \/ \E c : cli' = [StartCli(argv, NoRequest, "exit") EXCEPT !.code = c]
      \/ place # "refuse" /\ cli' = [StartCli(argv, request, place) EXCEPT !.code = code]
  BY DEF Start, RequestFor, Refused
<1>2. place \in {"cache", "refuse", "setup", "venv", "exit"}
  <2> HIDE DEF request
  <2> QED
    BY DEF FirstStep
<1>3. \E q, c, w : w \in {"cache", "setup", "venv", "exit"} /\ cli' = [StartCli(argv, q, w) EXCEPT !.code = c]
  <2> HIDE DEF argv, request, place, code
  <2> QED
    BY <1>1, <1>2
<1>4. cli'.at \in {"cache", "setup", "venv", "exit"} /\ Blank(cli)'
  <2> HIDE DEF argv
  <2> QED
    BY <1>3 DEF StartCli, Blank
<1>5. {"cache", "setup", "venv", "exit"} \cap (TypedAt \cup {"tasks"}) = {}
  BY DEF TypedAt, Linked
<1> QED
  BY <1>4, <1>5 DEF Inputs

-----------------------------------------------------------------------------
(* The tasks of the walk are steps of a command.                           *)

\* It has the elements of all.
LEMMA FlattenRange ==
    ASSUME NEW S, NEW seqs \in Seq(Seq(S))
    PROVE  \A x : x \in Range(FlattenSeq(seqs)) <=> \E k \in DOMAIN seqs : x \in Range(seqs[k])
<1> DEFINE T == Seq(S)
           last == Len(seqs)
<1>1. seqs \in Seq(T)
  OBVIOUS
<1> HIDE DEF T
<1>2. last \in Nat /\ DOMAIN seqs = 1..last /\ \A i \in 1..last : seqs[i] \in T
  BY <1>1
<1>3. \A i \in 1..last : IsSeq(seqs[i])
  BY <1>2, SeqIs DEF T
<1>4. CASE seqs = <<>>
  <2>1. FlattenSeq(seqs) = <<>>
    BY <1>4 DEF FlattenSeq
  <2>2. DOMAIN seqs = {}
    BY <1>4
  <2> QED
    BY <2>1, <2>2, ShortIs
<1>5. CASE seqs # <<>>
  <2>1. PICK s : /\ FlattenSeq(seqs) = s[last]
                 /\ \A i \in 1..last : s[i] = IF i = 1 THEN seqs[i] ELSE s[i - 1] \o seqs[i]
    BY <1>5, FlattenIs
  <2> DEFINE Good(i) == IsSeq(s[i]) /\ \A x : x \in Range(s[i]) <=> \E k \in 1..i : x \in Range(seqs[k])
             Bad == {i \in 1..last : ~Good(i)}
  <2>2. Bad = {}
    <3> SUFFICES ASSUME Bad # {} PROVE FALSE
      OBVIOUS
    <3>1. Bad \subseteq Nat
      BY <1>2
    <3>2. PICK i \in Bad : \A j \in Bad : i <= j
      BY <3>1, LeastNumber
    <3>3. i \in 1..last /\ ~Good(i) /\ IsSeq(seqs[i])
      BY <1>3, <3>2
    <3>4. CASE i = 1
      <4>1. s[i] = seqs[i]
        BY <2>1, <3>3, <3>4
      <4>2. \A k \in 1..i : k = i
        BY <3>4
      <4>3. i \in 1..i
        BY <3>4
      <4>4. Good(i)
        BY <3>3, <4>1, <4>2, <4>3
      <4> QED
        BY <3>3, <4>4
    <3>5. CASE i # 1
      <4>1. i - 1 \in 1..last /\ ~(i <= i - 1)
        BY <1>2, <3>3, <3>5
      <4>2. Good(i - 1)
        BY <3>2, <4>1
      <4>3. s[i] = s[i - 1] \o seqs[i]
        BY <2>1, <3>3, <3>5
      <4>4. Joined(s[i], s[i - 1], seqs[i])
        BY <3>3, <4>2, <4>3, JoinedIs
      <4>5. IsSeq(s[i]) /\ Range(s[i]) = Range(s[i - 1]) \cup Range(seqs[i])
        BY <4>4 DEF Joined
      <4>6. \A k : k \in 1..i <=> k \in 1..i - 1 \/ k = i
        BY <3>3, <4>1
      <4>7. Good(i)
        BY <4>2, <4>5, <4>6
      <4> QED
        BY <3>3, <4>7
    <3> QED
      BY <3>4, <3>5
  <2>3. last \in 1..last
    BY <1>1, <1>2, <1>5
  <2>4. Good(last)
    BY <2>2, <2>3
  <2> QED
    BY <1>2, <2>1, <2>4
<1> QED
  BY <1>4, <1>5

\* What a manifest asks for next are its script, its packages and its parts
\* for the target.
LEMMA TasksOfAre ==
    ASSUME NEW m \in Manifests, NEW t
    PROVE  Asks(m, t, Range(TasksOf(m, t)))
<1> DEFINE x == IF m.build_script = None THEN <<>> ELSE <<Task("script", m.build_script)>>
           y == [k \in DOMAIN m.packages |-> Task("package", m.packages[k])]
           z == PartsFor(m, t)
<1>1. IsSeq(x) /\ \A e \in Range(x) : e.kind = "script"
  BY ShortIs, KindsAre
<1>2. /\ IsSeq(y)
      /\ \A e \in Range(y) : \E n \in Range(m.packages) : e = Task("package", n)
      /\ \A n \in Range(m.packages) : Task("package", n) \in Range(y)
  <2>1. Len(m.packages) \in Nat /\ DOMAIN m.packages = 1..Len(m.packages)
    BY ManifestIs, SeqIs
  <2>2. DOMAIN y = DOMAIN m.packages /\ \A k \in DOMAIN m.packages : y[k] = Task("package", m.packages[k])
    OBVIOUS
  <2>3. y \in Seq(Range(y))
    <3> DEFINE R == Range(y)
    <3>1. \A k \in 1..Len(m.packages) : y[k] \in R
      BY <2>1, <2>2 DEF Range
    <3>2. y = [k \in 1..Len(m.packages) |-> y[k]]
      BY <2>1
    <3> HIDE DEF R, y
    <3>3. y \in Seq(R)
      BY <2>1, <3>1, <3>2
    <3> QED
      BY <3>3 DEF R
  <2> HIDE DEF y
  <2> QED
    BY <2>2, <2>3 DEF Range, IsSeq
<1>3. /\ IsSeq(z)
      /\ \A e \in Range(z) : \E k \in DOMAIN m.targets : m.targets[k].target = t /\ e = ManifestTask(m.targets[k].manifest)
      /\ \A k \in DOMAIN m.targets : m.targets[k].target = t => ManifestTask(m.targets[k].manifest) \in Range(z)
  <2> DEFINE Part(k) == IF m.targets[k].target = t THEN <<ManifestTask(m.targets[k].manifest)>> ELSE <<>>
             seqs == [k \in DOMAIN m.targets |-> Part(k)]
             A == {ManifestTask(q) : q \in Manifests}
  <2>1. Len(m.targets) \in Nat /\ DOMAIN m.targets = 1..Len(m.targets)
    BY ManifestIs, PartsAre
  <2>2. \A k \in DOMAIN m.targets : Part(k) \in Seq(A)
    <3>1. \A k \in DOMAIN m.targets : ManifestTask(m.targets[k].manifest) \in A
      BY PartIs
    <3> HIDE DEF A
    <3>2. \A e \in A : <<e>> \in Seq(A)
      OBVIOUS
    <3>3. <<>> \in Seq(A)
      OBVIOUS
    <3> QED
      BY <3>1, <3>2, <3>3
  <2>3. \A k \in DOMAIN m.targets : \A e : e \in Range(Part(k)) <=> m.targets[k].target = t /\ e = ManifestTask(m.targets[k].manifest)
    BY ShortIs
  <2> HIDE DEF Part, A
  <2>4. seqs \in Seq(Seq(A))
    BY <2>1, <2>2
  <2>5. DOMAIN seqs = DOMAIN m.targets /\ \A k \in DOMAIN m.targets : seqs[k] = Part(k)
    OBVIOUS
  <2> HIDE DEF seqs
  <2>6. FlattenSeq(seqs) \in Seq(A)
    BY <2>4, FlattenType
  <2>7. \A e : e \in Range(FlattenSeq(seqs)) <=> \E k \in DOMAIN seqs : e \in Range(seqs[k])
    BY <2>4, FlattenRange
  <2>8. z = FlattenSeq(seqs)
    BY DEF PartsFor, seqs, Part
  <2>9. IsSeq(z)
    BY <2>6, <2>8, SeqIs
  <2> HIDE DEF z
  <2> QED
    BY <2>3, <2>5, <2>7, <2>8, <2>9
<1> HIDE DEF x, y, z
<1>4. Joined(x \o y, x, y) /\ IsSeq(x \o y)
  BY <1>1, <1>2, JoinedIs DEF Joined
<1>5. Joined((x \o y) \o z, x \o y, z)
  BY <1>3, <1>4, JoinedIs
<1>6. Range((x \o y) \o z) = Range(x) \cup Range(y) \cup Range(z)
  BY <1>4, <1>5 DEF Joined
<1>7. TasksOf(m, t) = (x \o y) \o z
  BY DEF TasksOf, x, y, z
<1> QED
  BY <1>1, <1>2, <1>3, <1>6, <1>7 DEF Asks

\* The next task is what it is called.
LEMMA HeadIs ==
    ASSUME IInv, NEW kind, IsNext(kind)
    PROVE  LET h == Head(cli.tasks)
           IN /\ kind = "parse" => h = ParseTask(h.manifest)
              /\ kind = "manifest" => h = ManifestTask(h.manifest)
              /\ kind \in {"package", "paths"} => h = Task(kind, h.name)
<1> DEFINE h == Head(cli.tasks)
<1>1. cli.tasks \in Seq(AllTasks) /\ cli.tasks # <<>> /\ h.kind = kind
  BY LoadingIs DEF IsNext
<1>2. h \in AllTasks
  <2> DEFINE S == AllTasks
             s == cli.tasks
  <2>1. s \in Seq(S) /\ s # <<>>
    BY <1>1
  <2> HIDE DEF S, s
  <2>2. Head(s) \in S
    BY <2>1
  <2> QED
    BY <2>2 DEF S, s
<1> HIDE DEF h
<1>3. kind \in {"parse", "manifest"} => h \in [kind : {"parse", "manifest"}, manifest : Manifests]
  BY <1>1, <1>2 DEF AllTasks
<1>4. kind \in {"package", "paths"} => h \in [kind : {"package", "paths"}, name : DOMAIN Project.packages]
  BY <1>1, <1>2 DEF AllTasks
<1> QED
  BY <1>1, <1>3, <1>4 DEF ParseTask, ManifestTask, Task, h

\* What a task does to the other tasks.
LEMMA TasksMove ==
    ASSUME IInv, NEW kind, IsNext(kind), NEW more, more \in Seq(AllTasks), NEW d, d.tasks = more \o RestTasks,
           ParsedFirst(cli.tasks), ParsedFirst(more), kind # "parse" \/ \A x \in Range(more) : x.kind = "parse"
    PROVE  /\ Moved(cli.tasks, d.tasks, Head(cli.tasks), Range(more)) /\ ParsedFirst(d.tasks)
           /\ kind # "parse" => \A x \in Range(cli.tasks) : x.kind # "parse"
<1> DEFINE A == AllTasks
           s == cli.tasks
<1>1. s \in Seq(A) /\ s # <<>> /\ Head(s).kind = kind /\ more \in Seq(A) /\ d.tasks = more \o Tail(s)
  BY LoadingIs DEF IsNext, RestTasks
<1> HIDE DEF A
<1>2. ParsedFirst(s)
  OBVIOUS
<1> HIDE DEF s
<1>3. Moved(s, more \o Tail(s), Head(s), Range(more))
  BY <1>1, MovedIs
<1>4. ParsedFirst(more \o Tail(s))
  BY <1>1, <1>2, FirstStill
<1>5. kind # "parse" => \A x \in Range(s) : x.kind # "parse"
  BY <1>1, <1>2, NoneParsed
<1> QED
  BY <1>1, <1>3, <1>4, <1>5 DEF s

\* The walk goes on.
LEMMA WalkGoes ==
    ASSUME UNCHANGED setting, cli'.request = cli.request, cli'.at = "tasks",
           NEW loaded, NEW parsed, loaded \subseteq Manifests,
           Walk(ManifestsFor(Wanted), loaded, parsed, Project, Wanted, cli')
    PROVE  Inputs'
<1> DEFINE N == ManifestsFor(Wanted)
           p == Project
           t == Wanted
<1>1. p' = p /\ t' = t
  BY DEF Project, Wanted
<1>2. N' = N
  BY <1>1 DEF ManifestsFor
<1>3. "tasks" \notin Starting \cup TypedAt
  BY DEF Starting, TypedAt, Linked
<1>4. Inputs' <=> \E l, q \in SUBSET Manifests : Walk(N, l, q, p, t, cli')
  BY <1>1, <1>2, <1>3 DEF Inputs
<1>5. Walk(N, loaded, parsed, p, t, cli')
  OBVIOUS
<1> HIDE DEF N, p, t
<1>6. parsed \subseteq Manifests
  BY <1>5 DEF Walk
<1> QED
  BY <1>4, <1>5, <1>6

\* The walk before a task.
LEMMA WalkHere ==
    ASSUME IInv, Inputs, PlainManifests, cli.at = "tasks"
    PROVE  /\ WalkOf(ManifestsFor(Wanted), Project, Wanted)
           /\ \E loaded, parsed \in SUBSET Manifests : Walk(ManifestsFor(Wanted), loaded, parsed, Project, Wanted, cli)
BY WalkOfIs DEF Inputs

\* The project's manifest comes first.
LEMMA RootInputs ==
    ASSUME IInv, Inputs, PlainManifests, LoadRootManifest
    PROVE  Inputs'
<1> DEFINE m == Project.manifest
           d == cli'
<1>1. /\ cli.at = "manifest" /\ UNCHANGED setting
      /\ cli' = [cli EXCEPT !.at = "tasks", !.name = m.name, !.sourcePaths = <<"src">>,
                            !.tasks = <<ParseTask(m), ManifestTask(m)>>]
  BY DEF LoadRootManifest
<1>2. DOMAIN cli = Fields /\ IsSeq(cli.compilerArgs)
  BY <1>1, LoadingIs
<1>3. Blank(cli)
  BY <1>1 DEF Inputs, Starting
<1>4. /\ cli'.at = "tasks" /\ cli'.request = cli.request /\ cli'.tasks = <<ParseTask(m), ManifestTask(m)>>
      /\ cli'.sourcePaths = <<"src">> /\ cli'.compilerArgs = cli.compilerArgs
      /\ cli'.libraries = <<>> /\ cli'.frameworks = <<>> /\ cli'.linkerArgs = <<>> /\ cli'.libraryPaths = <<>>
  BY <1>1, <1>2, <1>3 DEF Fields, Blank
<1>5. WalkOf(ManifestsFor(Wanted), Project, Wanted)
  BY <1>1, WalkOfIs
<1>6. \A x : Has(d, x) <=> x = ParseTask(m) \/ x = ManifestTask(m)
  BY <1>4, PairIs DEF Has
<1> DEFINE N == ManifestsFor(Wanted)
           none == {}
<1>7. m \in Manifests /\ m \in N
  BY <1>5 DEF WalkOf, Stocked, Least, NeededFor
<1>8. Within(N, none, Project, d)
  BY <1>6, <1>7, KindsAre DEF Within
<1>9. Covers(none, Project, Wanted, d)
  BY <1>6 DEF Covers, Reached
<1>10. Announced(none, none, d)
  <2>1. ParsedFirst(d.tasks)
    <3>1. DOMAIN d.tasks = 1..2 /\ d.tasks[1] = ParseTask(m) /\ d.tasks[2] = ManifestTask(m)
      BY <1>4
    <3>2. \A k \in 1..2 : k = 1 \/ k = 2
      OBVIOUS
    <3>3. \A j \in 1..1 : j = 1
      OBVIOUS
    <3> HIDE DEF d
    <3>4. d.tasks[1].kind = "parse" /\ d.tasks[2].kind = "manifest"
      BY <3>1, KindsAre
    <3> QED
      BY <3>1, <3>2, <3>3, <3>4 DEF ParsedFirst
  <2>2. \A q \in Manifests : Reached(none, d, q) => Has(d, ParseTask(q))
    BY <1>6, KindsAre DEF Reached
  <2> QED
    BY <2>1, <2>2 DEF Announced
<1>11. Taken(none, d)
  <2>1. LibrariesOf(none) = {} /\ FrameworksOf(none) = {} /\ LinkerArgsOf(none) = {} /\ ArgsOf(none) = {}
    BY DEF LibrariesOf, FrameworksOf, LinkerArgsOf, ArgsOf
  <2> HIDE DEF none
  <2> QED
    BY <1>2, <1>4, <2>1, ShortIs DEF Taken
<1>12. Searched(N, none, none, Project, Wanted, d)
  <2>1. PathsOf(none) = {} /\ PackagesOf(none) = {}
    BY DEF PathsOf, PackagesOf
  <2>2. Range(<<"src">>) = {"src"} /\ IsSeq(<<"src">>) /\ Range(<<>>) = {} /\ IsSeq(<<>>)
    BY ShortIs
  <2> HIDE DEF none, N
  <2> QED
    BY <1>4, <2>1, <2>2 DEF Searched
<1>13. Sorted(none, Project, d)
  BY DEF Sorted
<1>14. Walk(N, none, none, Project, Wanted, d)
  BY <1>8, <1>9, <1>10, <1>11, <1>12, <1>13 DEF Walk
<1> HIDE DEF none
<1>15. none \subseteq Manifests
  BY DEF none
<1> QED
  BY <1>1, <1>4, <1>14, <1>15, WalkGoes

\* A manifest is parsed.
LEMMA ParseInputs ==
    ASSUME IInv, Inputs, PlainManifests, ParseManifest
    PROVE  Inputs'
<1> DEFINE m == Head(cli.tasks).manifest
           parts == [k \in DOMAIN m.targets |-> ParseTask(m.targets[k].manifest)]
           N == ManifestsFor(Wanted)
<1>1. /\ cli.at = "tasks" /\ UNCHANGED setting /\ IsNext("parse")
      /\ cli' = [cli EXCEPT !.libraryPaths = @ \o m.library_paths, !.tasks = parts \o RestTasks]
  BY DEF ParseManifest, IsNext
<1>2. m \in Manifests
  BY <1>1, NextTask
<1>3. DOMAIN cli = Fields
  BY <1>1, LoadingIs
<1> HIDE DEF parts
<1>4. /\ cli'.at = "tasks" /\ cli'.request = cli.request /\ cli'.tasks = parts \o RestTasks
      /\ cli'.sourcePaths = cli.sourcePaths /\ cli'.compilerArgs = cli.compilerArgs /\ cli'.libraries = cli.libraries
      /\ cli'.frameworks = cli.frameworks /\ cli'.linkerArgs = cli.linkerArgs
      /\ cli'.libraryPaths = cli.libraryPaths \o m.library_paths
  <2> HIDE DEF m
  <2> QED
    BY <1>1, <1>3 DEF Fields
<1>5. PICK loaded \in SUBSET Manifests, parsed \in SUBSET Manifests : Walk(N, loaded, parsed, Project, Wanted, cli)
  BY <1>1, WalkHere
<1>6. WalkOf(N, Project, Wanted)
  BY <1>1, WalkHere
<1>7. /\ Len(m.targets) \in Nat /\ DOMAIN m.targets = 1..Len(m.targets)
      /\ \A k \in DOMAIN m.targets : m.targets[k].manifest \in Manifests
  BY <1>2, ManifestIs, PartsAre
<1>8. /\ DOMAIN parts = DOMAIN m.targets /\ \A k \in DOMAIN m.targets : parts[k] = ParseTask(m.targets[k].manifest)
      /\ parts \in Seq(AllTasks)
  <2>1. \A x \in Manifests : ParseTask(x) \in AllTasks
    BY DEF ParseTask, AllTasks
  <2> QED
    BY <1>7, <2>1 DEF parts
<1> DEFINE new == {ParseTask(m.targets[k].manifest) : k \in DOMAIN m.targets}
<1>9. Range(parts) = new
  BY <1>8 DEF Range
<1>10. \A x \in Range(parts) : x.kind = "parse"
  BY <1>9, KindsAre
<1>11. ParsedFirst(parts)
  <2>1. \A k \in DOMAIN parts : 1..k \subseteq DOMAIN parts
    BY <1>7, <1>8
  <2>2. \A k \in DOMAIN parts : parts[k].kind = "parse"
    BY <1>10 DEF Range
  <2> QED
    BY <2>1, <2>2 DEF ParsedFirst
<1>12. ParsedFirst(cli.tasks)
  BY <1>5 DEF Walk, Announced
<1> DEFINE d == cli'
           c == cli
           h == Head(cli.tasks)
<1>13. Moved(c.tasks, d.tasks, h, Range(parts)) /\ ParsedFirst(d.tasks)
  <2>1. IsNext("parse") /\ parts \in Seq(AllTasks) /\ d.tasks = parts \o RestTasks
    BY <1>1, <1>4, <1>8
  <2> HIDE DEF m, N, new, d
  <2> QED
    BY <1>10, <1>11, <1>12, <2>1, TasksMove
<1>14. h = ParseTask(m)
  BY <1>1, HeadIs
<1>15. Moved(c.tasks, d.tasks, ParseTask(m), new)
  BY <1>9, <1>13, <1>14
<1> HIDE DEF m, N, new, h
<1>16. Walk(N, loaded, parsed \cup {m}, Project, Wanted, d)
  BY <1>2, <1>4, <1>5, <1>6, <1>13, <1>15, ParseWalks DEF new
<1> QED
  BY <1>1, <1>4, <1>16, WalkGoes DEF N

\* The options of a manifest are added.
LEMMA LoadInputs ==
    ASSUME IInv, Inputs, PlainManifests, LoadManifest
    PROVE  Inputs'
<1> DEFINE m == Head(cli.tasks).manifest
           more == TasksOf(m, Wanted)
           N == ManifestsFor(Wanted)
<1>1. /\ cli.at = "tasks" /\ UNCHANGED setting /\ IsNext("manifest")
      /\ cli' = [cli EXCEPT !.compilerArgs = @ \o m.args, !.linkerArgs = @ \o m.linker_args,
                            !.libraries = @ \o m.libraries, !.frameworks = @ \o m.frameworks, !.tasks = more \o RestTasks]
  BY DEF LoadManifest, IsNext
<1>2. m \in Manifests
  BY <1>1, NextTask
<1>3. DOMAIN cli = Fields
  BY <1>1, LoadingIs
<1>4. more \in Seq(AllTasks) /\ Asks(m, Wanted, Range(more))
  BY <1>1, <1>2, TasksOfIs, TasksOfAre
<1> HIDE DEF more
<1>5. /\ cli'.at = "tasks" /\ cli'.request = cli.request /\ cli'.tasks = more \o RestTasks
      /\ cli'.sourcePaths = cli.sourcePaths /\ cli'.libraryPaths = cli.libraryPaths
      /\ cli'.compilerArgs = cli.compilerArgs \o m.args /\ cli'.libraries = cli.libraries \o m.libraries
      /\ cli'.frameworks = cli.frameworks \o m.frameworks /\ cli'.linkerArgs = cli.linkerArgs \o m.linker_args
  <2> HIDE DEF m
  <2> QED
    BY <1>1, <1>3 DEF Fields
<1>6. PICK loaded \in SUBSET Manifests, parsed \in SUBSET Manifests : Walk(N, loaded, parsed, Project, Wanted, cli)
  BY <1>1, WalkHere
<1>7. WalkOf(N, Project, Wanted)
  BY <1>1, WalkHere
<1>8. \A x \in Range(more) : x.kind # "parse"
  BY <1>4, KindsAre DEF Asks
<1>9. ParsedFirst(more)
  BY <1>8 DEF ParsedFirst, Range
<1>10. ParsedFirst(cli.tasks)
  BY <1>6 DEF Walk, Announced
<1>11. Head(cli.tasks) = ManifestTask(m)
  BY <1>1, HeadIs
<1> DEFINE d == cli'
           c == cli
<1>12. /\ Moved(c.tasks, d.tasks, ManifestTask(m), Range(more)) /\ ParsedFirst(d.tasks)
       /\ \A x \in Range(c.tasks) : x.kind # "parse"
  <2> DEFINE kind == "manifest"
  <2>1. IsNext(kind) /\ d.tasks = more \o RestTasks /\ kind # "parse"
    BY <1>1, <1>5
  <2>2. more \in Seq(AllTasks)
    BY <1>4
  <2> HIDE DEF m, N, d, kind
  <2>3. kind # "parse" \/ \A x \in Range(more) : x.kind = "parse"
    BY <2>1
  <2>4. /\ Moved(cli.tasks, d.tasks, Head(cli.tasks), Range(more)) /\ ParsedFirst(d.tasks)
        /\ kind # "parse" => \A x \in Range(cli.tasks) : x.kind # "parse"
    BY <1>9, <1>10, <2>1, <2>2, <2>3, TasksMove
  <2> QED
    BY <1>11, <2>1, <2>4
<1> HIDE DEF m, N
<1>13. Walk(N, loaded \cup {m}, parsed, Project, Wanted, d)
  BY <1>2, <1>4, <1>5, <1>6, <1>7, <1>12, LoadWalks
<1>14. loaded \cup {m} \subseteq Manifests
  BY <1>2
<1> QED
  BY <1>1, <1>5, <1>13, <1>14, WalkGoes DEF N

\* A build script changes no list.
LEMMA ScriptInputs ==
    ASSUME IInv, Inputs, PlainManifests, PlainHistories, RunBuildScript
    PROVE  Inputs'
<1> DEFINE more == <<>>
           N == ManifestsFor(Wanted)
           script == Head(cli.tasks)
<1>1. cli.at = "tasks" /\ UNCHANGED setting /\ IsNext("script")
  BY DEF RunBuildScript, IsNext
<1>2. cli' = [cli EXCEPT !.tasks = RestTasks]
  <2>1. ~Fails("build script")
    BY DEF PlainHistories, Fails, MayFail
  <2> QED
    BY <2>1 DEF RunBuildScript
<1>3. DOMAIN cli = Fields /\ RestTasks \in Seq(AllTasks) /\ script.kind = "script"
  BY <1>1, LoadingIs, NextTask DEF IsNext
<1>4. /\ cli'.at = "tasks" /\ cli'.request = cli.request /\ cli'.tasks = RestTasks
      /\ cli'.sourcePaths = cli.sourcePaths /\ cli'.libraryPaths = cli.libraryPaths
      /\ cli'.compilerArgs = cli.compilerArgs /\ cli'.libraries = cli.libraries
      /\ cli'.frameworks = cli.frameworks /\ cli'.linkerArgs = cli.linkerArgs
  BY <1>1, <1>2, <1>3 DEF Fields
<1>5. PICK loaded \in SUBSET Manifests, parsed \in SUBSET Manifests : Walk(N, loaded, parsed, Project, Wanted, cli)
  BY <1>1, WalkHere
<1>6. WalkOf(N, Project, Wanted)
  BY <1>1, WalkHere
<1>7. more \in Seq(AllTasks) /\ Range(more) = {} /\ cli'.tasks = more \o RestTasks /\ ParsedFirst(more)
  <2>1. more \o RestTasks = RestTasks
    BY <1>3
  <2>2. more \in Seq(AllTasks) /\ DOMAIN more = {}
    OBVIOUS
  <2>3. Range(more) = {} /\ ParsedFirst(more)
    BY <2>2 DEF Range, ParsedFirst
  <2> QED
    BY <1>4, <2>1, <2>2, <2>3
<1>8. ParsedFirst(cli.tasks)
  BY <1>5 DEF Walk, Announced
<1> DEFINE d == cli'
           c == cli
<1>9. Moved(c.tasks, d.tasks, script, {}) /\ ParsedFirst(d.tasks)
  <2> HIDE DEF more, N, d
  <2>1. IsNext("script") /\ more \in Seq(AllTasks) /\ d.tasks = more \o RestTasks /\ "script" # "parse"
    BY <1>1, <1>7 DEF d
  <2> QED
    BY <1>7, <1>8, <2>1, TasksMove
<1> HIDE DEF script, N, more
<1>10. Walk(N, loaded, parsed, Project, Wanted, d)
  BY <1>3, <1>4, <1>5, <1>6, <1>9, ScriptWalks
<1> QED
  BY <1>1, <1>4, <1>10, WalkGoes DEF N

\* A package is installed, or its manifest is next.
LEMMA PackageInputs ==
    ASSUME IInv, Inputs, PlainManifests, InstallPackage \/ LoadPackage
    PROVE  Inputs'
<1> DEFINE name == Head(cli.tasks).name
           m == Project.packages[name].manifest
           more == <<ParseTask(m), ManifestTask(m), Task("paths", name)>>
           N == ManifestsFor(Wanted)
<1>1. cli.at = "tasks" /\ cli.at # "exit" /\ UNCHANGED setting /\ IsNext("package")
  BY DEF InstallPackage, LoadPackage, IsNext
<1>2. cli' = cli \/ cli' = Ended("1") \/ cli' = [cli EXCEPT !.tasks = more \o RestTasks]
  BY DEF InstallPackage, LoadPackage
<1>3. CASE cli' = cli
  BY <1>1, <1>3 DEF Inputs, Project, Wanted, ManifestsFor
<1>4. CASE cli' = Ended("1")
  BY <1>1, <1>4, InputsEnded
<1>5. CASE cli' = [cli EXCEPT !.tasks = more \o RestTasks]
  <2>1. name \in DOMAIN Project.packages /\ DOMAIN cli = Fields
    BY <1>1, NextTask, LoadingIs
  <2>2. m \in Manifests
    BY <1>1, <2>1, RequestOf
  <2>3. more \in Seq(AllTasks)
    <3> DEFINE A == AllTasks
    <3>1. ParseTask(m) \in A /\ ManifestTask(m) \in A /\ Task("paths", name) \in A
      BY <2>1, <2>2 DEF ParseTask, ManifestTask, Task, AllTasks
    <3> HIDE DEF A
    <3>2. more \in Seq(A)
      BY <3>1
    <3> QED
      BY <3>2 DEF A
  <2>4. DOMAIN more = 1..3 /\ more[1] = ParseTask(m) /\ more[2] = ManifestTask(m) /\ more[3] = Task("paths", name)
    OBVIOUS
  <2>5. \A k \in 1..3 : k \in {1, 2, 3}
    OBVIOUS
  <2> HIDE DEF more
  <2>6. Range(more) = {ParseTask(m), ManifestTask(m), Task("paths", name)}
    BY <2>4, <2>5 DEF Range
  <2>7. ParsedFirst(more)
    <3>1. \A j \in 1..1 : j = 1
      OBVIOUS
    <3> QED
      BY <2>4, <2>5, <3>1, KindsAre DEF ParsedFirst
  <2>8. /\ cli'.at = "tasks" /\ cli'.request = cli.request /\ cli'.tasks = more \o RestTasks
        /\ cli'.sourcePaths = cli.sourcePaths /\ cli'.libraryPaths = cli.libraryPaths
        /\ cli'.compilerArgs = cli.compilerArgs /\ cli'.libraries = cli.libraries
        /\ cli'.frameworks = cli.frameworks /\ cli'.linkerArgs = cli.linkerArgs
    BY <1>1, <1>5, <2>1 DEF Fields
  <2>9. PICK loaded \in SUBSET Manifests, parsed \in SUBSET Manifests : Walk(N, loaded, parsed, Project, Wanted, cli)
    BY <1>1, WalkHere
  <2>10. WalkOf(N, Project, Wanted)
    BY <1>1, WalkHere
  <2>11. ParsedFirst(cli.tasks)
    BY <2>9 DEF Walk, Announced
  <2>12. Head(cli.tasks) = Task("package", name)
    BY <1>1, HeadIs
  <2> DEFINE d == cli'
             c == cli
  <2>13. Moved(c.tasks, d.tasks, Task("package", name), {ParseTask(m), ManifestTask(m), Task("paths", name)}) /\ ParsedFirst(d.tasks)
    <3>1. IsNext("package") /\ more \in Seq(AllTasks) /\ d.tasks = more \o RestTasks /\ "package" # "parse"
      BY <1>1, <2>3, <2>8
    <3> HIDE DEF m, name, N, d
    <3> QED
      BY <2>6, <2>7, <2>11, <2>12, <3>1, TasksMove
  <2> HIDE DEF name, N
  <2>14. Walk(N, loaded, parsed, Project, Wanted, d)
    BY <2>1, <2>8, <2>9, <2>10, <2>13, PackageWalks
  <2> QED
    BY <1>1, <2>8, <2>14, WalkGoes DEF N
<1> QED
  BY <1>2, <1>3, <1>4, <1>5

\* The directories of a package are added.
LEMMA PathsInputs ==
    ASSUME IInv, Inputs, PlainManifests, AddPackagePaths
    PROVE  Inputs'
<1> DEFINE name == Head(cli.tasks).name
           dirs == Project.packages[name].dirs
           Existing(dir) == IF dir \in dirs THEN <<PathOf(name, dir)>> ELSE <<>>
           none == <<>>
           N == ManifestsFor(Wanted)
<1>1. /\ cli.at = "tasks" /\ UNCHANGED setting /\ IsNext("paths")
      /\ cli' = [cli EXCEPT !.sourcePaths = @ \o Existing("src"),
                            !.libraryPaths = @ \o Existing("lib") \o Existing(TargetDir(Wanted)),
                            !.tasks = RestTasks]
  BY DEF AddPackagePaths, IsNext
<1>2. /\ name \in DOMAIN Project.packages /\ DOMAIN cli = Fields /\ RestTasks \in Seq(AllTasks)
      /\ Head(cli.tasks) = Task("paths", name)
  BY <1>1, NextTask, LoadingIs, HeadIs
<1>3. \A dir : IsSeq(Existing(dir)) /\ Range(Existing(dir)) = {PathOf(name, x) : x \in dirs \cap {dir}}
  <2> SUFFICES ASSUME NEW dir PROVE IsSeq(Existing(dir)) /\ Range(Existing(dir)) = {PathOf(name, x) : x \in dirs \cap {dir}}
    OBVIOUS
  <2>1. CASE dir \in dirs
    <3>1. Existing(dir) = <<PathOf(name, dir)>>
      BY <2>1
    <3>2. {PathOf(name, x) : x \in dirs \cap {dir}} = {PathOf(name, dir)}
      BY <2>1
    <3> QED
      BY <3>1, <3>2, ShortIs
  <2>2. CASE dir \notin dirs
    BY <2>2, ShortIs
  <2> QED
    BY <2>1, <2>2
<1> DEFINE x == Existing("src")
           y == Existing("lib")
           z == Existing(TargetDir(Wanted))
<1>4. /\ cli'.at = "tasks" /\ cli'.request = cli.request /\ cli'.tasks = RestTasks
      /\ cli'.sourcePaths = cli.sourcePaths \o x /\ cli'.libraryPaths = (cli.libraryPaths \o y) \o z
      /\ cli'.compilerArgs = cli.compilerArgs /\ cli'.libraries = cli.libraries
      /\ cli'.frameworks = cli.frameworks /\ cli'.linkerArgs = cli.linkerArgs
  <2> HIDE DEF Existing
  <2> QED
    BY <1>1, <1>2 DEF Fields
<1>5. PICK loaded \in SUBSET Manifests, parsed \in SUBSET Manifests : Walk(N, loaded, parsed, Project, Wanted, cli)
  BY <1>1, WalkHere
<1>6. WalkOf(N, Project, Wanted)
  BY <1>1, WalkHere
<1>7. /\ IsSeq(x) /\ Range(x) = SourceDirs(Project, name)
      /\ IsSeq(y) /\ IsSeq(z) /\ Range(y) \cup Range(z) = LibraryDirs(Project, name, Wanted)
  <2>1. {PathOf(name, e) : e \in dirs \cap {"lib"}} \cup {PathOf(name, e) : e \in dirs \cap {TargetDir(Wanted)}}
          = {PathOf(name, e) : e \in dirs \cap {"lib", TargetDir(Wanted)}}
    OBVIOUS
  <2> HIDE DEF Existing
  <2> QED
    BY <1>3, <2>1 DEF SourceDirs, LibraryDirs
<1> HIDE DEF x, y, z
<1> DEFINE d == cli'
           c == cli
<1>8. IsSeq(c.libraryPaths) /\ IsSeq(c.sourcePaths)
  BY <1>5 DEF Walk, Searched
<1>9. /\ IsSeq(d.sourcePaths) /\ Range(d.sourcePaths) = Range(c.sourcePaths) \cup SourceDirs(Project, name)
      /\ IsSeq(d.libraryPaths) /\ Range(d.libraryPaths) = Range(c.libraryPaths) \cup LibraryDirs(Project, name, Wanted)
  <2>1. Joined(d.sourcePaths, c.sourcePaths, x)
    BY <1>4, <1>7, <1>8, JoinedIs
  <2> DEFINE l == c.libraryPaths \o y
  <2>2. Joined(l, c.libraryPaths, y)
    BY <1>7, <1>8, JoinedIs
  <2>3. IsSeq(l)
    BY <2>2 DEF Joined
  <2>4. d.libraryPaths = l \o z
    BY <1>4
  <2> HIDE DEF l, d
  <2>5. Joined(d.libraryPaths, l, z)
    BY <1>7, <2>3, <2>4, JoinedIs
  <2> QED
    BY <1>7, <2>1, <2>2, <2>5 DEF Joined
<1>10. none \in Seq(AllTasks) /\ Range(none) = {} /\ cli'.tasks = none \o RestTasks /\ ParsedFirst(none)
  <2>1. none \o RestTasks = RestTasks
    BY <1>2
  <2>2. none \in Seq(AllTasks) /\ DOMAIN none = {}
    OBVIOUS
  <2>3. Range(none) = {} /\ ParsedFirst(none)
    BY <2>2 DEF Range, ParsedFirst
  <2> QED
    BY <1>4, <2>1, <2>2, <2>3
<1>11. ParsedFirst(cli.tasks)
  BY <1>5 DEF Walk, Announced
<1>12. Moved(c.tasks, d.tasks, Task("paths", name), {}) /\ ParsedFirst(d.tasks)
  <2> HIDE DEF none, N, d, name
  <2>1. IsNext("paths") /\ none \in Seq(AllTasks) /\ d.tasks = none \o RestTasks /\ "paths" # "parse"
    BY <1>1, <1>10 DEF d
  <2> QED
    BY <1>2, <1>10, <1>11, <2>1, TasksMove
<1> HIDE DEF name, N, none
<1>13. Walk(N, loaded, parsed, Project, Wanted, d)
  BY <1>2, <1>4, <1>5, <1>6, <1>9, <1>12, PathsWalk
<1> QED
  BY <1>1, <1>4, <1>13, WalkGoes DEF N
-----------------------------------------------------------------------------
(* The end of the walk.                                                    *)

\* When no task is left, all is collected.
LEMMA WalkEnds ==
    ASSUME NEW needed, NEW loaded, NEW parsed, NEW p, NEW t, NEW c, NEW d, WalkOf(needed, p, t), loaded \subseteq Manifests,
           Walk(needed, loaded, parsed, p, t, c), c.tasks = <<>>,
           d.libraries = c.libraries, d.frameworks = c.frameworks, d.linkerArgs = c.linkerArgs,
           d.libraryPaths = c.libraryPaths, d.sourcePaths = c.sourcePaths,
           IsSeq(d.compilerArgs), Range(c.compilerArgs) \subseteq Range(d.compilerArgs)
    PROVE  Gathered(needed, p, t, d)
<1>1. \A x : ~Has(c, x)
  BY ShortIs DEF Has
<1>2. /\ \A q : Reached(loaded, c, q) <=> q \in loaded
      /\ loaded \subseteq needed /\ needed \subseteq Manifests /\ parsed \subseteq Manifests
  BY <1>1 DEF Reached, Walk, WalkOf, Least
<1>3. NeededFor(p, t, loaded)
  BY <1>1, <1>2 DEF Walk, Covers, NeededFor
<1>4. loaded = needed
  BY <1>2, <1>3 DEF WalkOf, Least
<1>5. needed \subseteq parsed
  BY <1>1, <1>2, <1>4 DEF Walk, Announced
<1>6. PathsOf(parsed) = PathsOf(needed)
  <2>1. \A q \in parsed : q \in needed \/ q.library_paths = <<>>
    BY <1>2 DEF Walk, Within
  <2>2. \A q \in parsed : q \in needed \/ Range(q.library_paths) = {}
    BY <2>1, ShortIs
  <2> QED
    BY <1>5, <2>2 DEF PathsOf
<1>7. Taken(needed, d)
  BY <1>4 DEF Walk, Taken
<1>8. /\ IsSeq(d.sourcePaths) /\ PathsOf(needed) \subseteq Range(d.libraryPaths)
      /\ Range(d.libraryPaths) \subseteq PathsOf(needed) \cup AllLibraryDirs(p, PackagesOf(needed), t)
      /\ "src" \in Range(d.sourcePaths)
      /\ Range(d.sourcePaths) \subseteq {"src"} \cup AllSourceDirs(p, PackagesOf(needed))
      /\ \A n \in PackagesOf(needed) : LibraryDirs(p, n, t) \subseteq Range(d.libraryPaths) /\ SourceDirs(p, n) \subseteq Range(d.sourcePaths)
  BY <1>1, <1>4, <1>6 DEF Walk, Searched
<1>9. AllLibraryDirs(p, PackagesOf(needed), t) \subseteq Range(d.libraryPaths) /\ AllSourceDirs(p, PackagesOf(needed)) \subseteq Range(d.sourcePaths)
  BY <1>8 DEF AllLibraryDirs, AllSourceDirs
<1>10. \A m \in needed : \A n \in Range(m.packages) : Follow(d.libraries, m, p.packages[n].manifest)
  BY <1>1, <1>4 DEF Walk, Sorted
<1> QED
  BY <1>7, <1>8, <1>9, <1>10 DEF Gathered

\* What is loaded is given to the tools.
LEMMA ConfigInputs ==
    ASSUME IInv, Inputs, PlainManifests, ConfigLoaded
    PROVE  Inputs'
<1> DEFINE command == cli.request.command
           type == IF command = "test" THEN "executable" ELSE Project.manifest.type
           args == IF command = "test" THEN Append(cli.compilerArgs, "--testing") ELSE cli.compilerArgs
           place == IF command = "invoke" THEN cli.request.name
                    ELSE IF command \in {"lsp", "format"} THEN "delegate" ELSE "compiler"
           N == ManifestsFor(Wanted)
<1>1. cli.at = "tasks" /\ cli.tasks = <<>> /\ UNCHANGED setting
  BY DEF ConfigLoaded
<1>2. InMemory /\ DOMAIN cli = Fields
  BY <1>1, RunningIs DEF InMemory
<1>3. command \in Loading /\ (command = "invoke" => cli.request.name \in {"compiler", "assembler", "linker"})
  BY <1>1, <1>2 DEF InMemory, Commanded
<1>4. cli' = Ended("1") \/ cli' = [cli EXCEPT !.at = place, !.type = type, !.compilerArgs = args]
  <2>1. CASE command = "run" /\ ~is_executable_on_host(Wanted, Machine.host)
    BY <2>1 DEF ConfigLoaded
  <2>2. CASE command = "test"
    BY <1>2, <2>2 DEF ConfigLoaded, Fields
  <2>3. CASE command = "invoke"
    BY <1>2, <2>3 DEF ConfigLoaded, Fields
  <2>4. CASE command \in {"lsp", "format"}
    BY <1>2, <2>4 DEF ConfigLoaded, Fields
  <2>5. CASE command = "build" \/ (command = "run" /\ is_executable_on_host(Wanted, Machine.host))
    BY <1>2, <2>5 DEF ConfigLoaded, Fields
  <2> QED
    BY <1>3, <2>1, <2>2, <2>3, <2>4, <2>5 DEF Loading
<1>5. CASE cli' = Ended("1")
  BY <1>1, <1>5, InputsEnded
<1>6. CASE cli' = [cli EXCEPT !.at = place, !.type = type, !.compilerArgs = args]
  <2>1. place \in {"compiler", "assembler", "linker", "delegate"}
    BY <1>3
  <2>2. /\ cli'.at = place /\ cli'.compilerArgs = args /\ cli'.request = cli.request
        /\ cli'.sourcePaths = cli.sourcePaths /\ cli'.libraryPaths = cli.libraryPaths /\ cli'.libraries = cli.libraries
        /\ cli'.frameworks = cli.frameworks /\ cli'.linkerArgs = cli.linkerArgs
    BY <1>2, <1>6 DEF Fields
  <2>3. cli'.at \in TypedAt /\ cli'.at \notin Starting \cup {"tasks"}
    <3> HIDE DEF place
    <3> QED
      BY <2>1, <2>2 DEF TypedAt, Linked, Starting
  <2>4. PICK loaded \in SUBSET Manifests, parsed \in SUBSET Manifests : Walk(N, loaded, parsed, Project, Wanted, cli)
    BY <1>1, WalkHere
  <2>5. WalkOf(N, Project, Wanted)
    BY <1>1, WalkHere
  <2>6. IsSeq(args) /\ Range(cli.compilerArgs) \subseteq Range(args)
    <3>1. IsSeq(cli.compilerArgs)
      BY <2>4 DEF Walk, Taken
    <3>2. CASE command = "test"
      <4>1. IsSeq(<<"--testing">>)
        BY ShortIs
      <4>2. Joined(cli.compilerArgs \o <<"--testing">>, cli.compilerArgs, <<"--testing">>)
        BY <3>1, <4>1, JoinedIs
      <4>3. Append(cli.compilerArgs, "--testing") = cli.compilerArgs \o <<"--testing">>
        BY <3>1 DEF IsSeq
      <4> QED
        BY <3>2, <4>2, <4>3 DEF Joined
    <3> QED
      BY <3>1, <3>2
  <2> DEFINE c == cli
             d == cli'
  <2>7. /\ c.tasks = <<>> /\ d.libraries = c.libraries /\ d.frameworks = c.frameworks /\ d.linkerArgs = c.linkerArgs
        /\ d.libraryPaths = c.libraryPaths /\ d.sourcePaths = c.sourcePaths
        /\ IsSeq(d.compilerArgs) /\ Range(c.compilerArgs) \subseteq Range(d.compilerArgs)
    BY <1>1, <2>2, <2>6
  <2> HIDE DEF N, d, args
  <2>8. Gathered(N, Project, Wanted, d)
    BY <2>4, <2>5, <2>7, WalkEnds
  <2>9. Gathered(N, Project, Wanted, cli')
    BY <2>8 DEF d
  <2>10. Project' = Project /\ Wanted' = Wanted
    BY <1>1, <2>2 DEF Project, Wanted
  <2>11. ManifestsFor(Wanted)' = ManifestsFor(Wanted)
    BY <2>10 DEF ManifestsFor
  <2> QED
    BY <2>3, <2>9, <2>10, <2>11 DEF Inputs, N
<1> QED
  BY <1>4, <1>5, <1>6

-----------------------------------------------------------------------------
(* What the tools are given is what was asked for.                         *)

\* What the options say to the tool that a command hands its work to.
LEMMA DelegatedIs ==
    ASSUME IInv, cli.at \in TypedAt
    PROVE  /\ Delegated.arch = Wanted.arch /\ Delegated.os = Wanted.os
           /\ Delegated.level = LevelOf(cli.request) /\ Delegated.paths = Range(cli.sourcePaths)
<1>1. InMemory /\ Sensible(cli.request) /\ Project.manifest \in Manifests
  <2>1. cli.at # "exit"
    BY DEF TypedAt, Linked
  <2> QED
    BY <2>1, RunningIs, RequestOf
<1>2. Ready(cli)
  <2>1. Sensible(cli.request)
    BY <1>1
  <2>2. cli.type \in ManifestTypes
    <3>1. cli.type = IF cli.request.command = "test" THEN "executable" ELSE Project.manifest.type
      BY <1>1 DEF InMemory, Typed, TypedAt
    <3>2. Project.manifest.type \in ManifestTypes
      BY <1>1, ManifestIs
    <3> QED
      BY <3>1, <3>2 DEF ManifestTypes
  <2> QED
    BY <1>1, <2>1, <2>2 DEF InMemory, Collected, Ready
<1> DEFINE s == append_compilation_args(cli)
<1>3. Appended(s, cli)
  BY <1>2, AppendedAre
<1> HIDE DEF s
<1>4. /\ ValueOf(s, "--arch", "x86_64") = Wanted.arch /\ ValueOf(s, "--os", "windows") = Wanted.os
      /\ ValueOf(s, "--opt-level", "0") = LevelOf(cli.request)
  BY <1>3, GivesValue DEF Appended, Says, Wanted
<1> DEFINE config == create_config(s)
<1>5. config.paths = Range(cli.sourcePaths)
  BY <1>3, PathsGiven DEF Appended
<1>6. /\ config.arch = ValueOf(s, "--arch", "x86_64") /\ config.os = ValueOf(s, "--os", "windows")
      /\ config.level = ValueOf(s, "--opt-level", "0")
  BY DEF create_config
<1>7. Delegated = config
  BY DEF Delegated, s
<1> HIDE DEF config
<1> QED
  BY <1>4, <1>5, <1>6, <1>7

\* The invariant says what the tools are given.
LEMMA GatheredEnough ==
    ASSUME IInv, Inputs
    PROVE  InputsExact
<1> SUFFICES ASSUME Loaded PROVE InputsExact
  BY DEF InputsExact
<1>1. cli.at \in TypedAt /\ cli.at # "exit"
  BY DEF Loaded, TypedAt, Linked
<1>2. InMemory
  BY <1>1, RunningIs
<1>3. cli.request.command \in Loading
  BY <1>1, <1>2 DEF InMemory, Commanded, TypedAt, Linked, Builds, Loading
<1> DEFINE t == AskedTarget
           N == ManifestsFor(t)
           config == Delegated
<1>4. Wanted = t /\ LevelOf(cli.request) = AskedLevel
  BY <1>2, <1>3, AskedIs
<1>5. Gathered(N, Project, t, cli)
  BY <1>1, <1>4 DEF Inputs
<1>6. PackagesFor(t) = PackagesOf(N)
  BY DEF PackagesFor, PackagesOf
<1>7. /\ config.arch = t.arch /\ config.os = t.os /\ config.level = AskedLevel
      /\ config.paths = Range(cli.sourcePaths)
  BY <1>1, <1>4, DelegatedIs
<1> HIDE DEF t, N, config
<1>8. /\ Range(cli.libraries) = UNION {Range(m.libraries) : m \in N}
      /\ Range(cli.frameworks) = UNION {Range(m.frameworks) : m \in N}
      /\ Range(cli.linkerArgs) = UNION {Range(m.linker_args) : m \in N}
  BY <1>5 DEF Gathered, Taken, LibrariesOf, FrameworksOf, LinkerArgsOf
<1>9. Range(cli.libraryPaths) =
          (UNION {Range(m.library_paths) : m \in N})
          \cup UNION {{PathOf(n, d) : d \in Project.packages[n].dirs \cap {"lib", TargetDir(t)}} : n \in PackagesFor(t)}
  <2> DEFINE X == UNION {Range(m.library_paths) : m \in N}
             Y == UNION {{PathOf(n, d) : d \in Project.packages[n].dirs \cap {"lib", TargetDir(t)}} : n \in PackagesFor(t)}
  <2>1. Range(cli.libraryPaths) = PathsOf(N) \cup AllLibraryDirs(Project, PackagesFor(t), t)
    BY <1>5, <1>6 DEF Gathered
  <2>2. PathsOf(N) = X
    BY DEF PathsOf
  <2>3. AllLibraryDirs(Project, PackagesFor(t), t) = Y
    BY DEF AllLibraryDirs, LibraryDirs
  <2> HIDE DEF X, Y
  <2>4. Range(cli.libraryPaths) = X \cup Y
    BY <2>1, <2>2, <2>3
  <2> QED
    BY <2>4 DEF X, Y
<1>10. \A args \in UNION {Range(m.args) : m \in N} : args \in Range(cli.compilerArgs)
  BY <1>5 DEF Gathered, Taken, ArgsOf
<1>11. config.paths = {"src"} \cup {PathOf(n, "src") : n \in {p \in PackagesFor(t) : "src" \in Project.packages[p].dirs}}
  <2>1. config.paths = {"src"} \cup AllSourceDirs(Project, PackagesFor(t))
    BY <1>5, <1>6, <1>7 DEF Gathered
  <2> DEFINE S == {PathOf(n, "src") : n \in {p \in PackagesFor(t) : "src" \in Project.packages[p].dirs}}
  <2>2. \A n : SourceDirs(Project, n) = IF "src" \in Project.packages[n].dirs THEN {PathOf(n, "src")} ELSE {}
    BY DEF SourceDirs
  <2>3. \A x : x \in AllSourceDirs(Project, PackagesFor(t)) <=> \E n \in PackagesFor(t) : x \in SourceDirs(Project, n)
    BY DEF AllSourceDirs
  <2>4. \A x : x \in AllSourceDirs(Project, PackagesFor(t)) <=> x \in S
    BY <2>2, <2>3
  <2> HIDE DEF S
  <2>5. AllSourceDirs(Project, PackagesFor(t)) = S
    BY <2>4
  <2> QED
    BY <2>1, <2>5 DEF S
<1>12. \A m \in N : \A n \in Range(m.packages) :
          \A k \in DOMAIN cli.libraries : cli.libraries[k] \in Range(m.libraries) =>
              \A l \in Range(Project.packages[n].manifest.libraries) : \E j \in k + 1..Len(cli.libraries) : cli.libraries[j] = l
  BY <1>5 DEF Gathered, Follow
<1>13. cli.request.target = t
  BY <1>4 DEF Wanted
<1> QED
  BY <1>7, <1>8, <1>9, <1>10, <1>11, <1>12, <1>13 DEF InputsExact, t, N, config

\* Before the first command nothing is collected.
LEMMA InitInputs ==
    ASSUME Init
    PROVE  Inputs
<1>1. cli.at = "exit"
  BY DEF Init
<1>2. "exit" \notin Starting \cup TypedAt \cup {"tasks"}
  BY DEF Starting, TypedAt, Linked
<1> QED
  BY <1>1, <1>2 DEF Inputs

\* Every step keeps what is collected.
LEMMA InputsInvariance ==
    ASSUME PlainHistories, PlainManifests
    PROVE  IInv /\ Inputs /\ [Next]_vars => Inputs'
<1> SUFFICES ASSUME IInv, Inputs, [Next]_vars PROVE Inputs'
  OBVIOUS
<1>1. CASE Start
  BY <1>1, StartInputs
<1>2. CASE LoadCachedToolchain \/ SetUpToolchain
  BY <1>2, ToolchainInputs
<1>3. CASE OpenCache \/ WriteCache \/ RemoveSysroot \/ RemoveCache \/ CreateEnvironment
  BY <1>3, OtherInputs
<1>4. CASE LoadRootManifest
  BY <1>4, RootInputs
<1>5. CASE ParseManifest
  BY <1>5, ParseInputs
<1>6. CASE LoadManifest
  BY <1>6, LoadInputs
<1>7. CASE RunBuildScript
  BY <1>7, ScriptInputs
<1>8. CASE InstallPackage \/ LoadPackage
  BY <1>8, PackageInputs
<1>9. CASE AddPackagePaths
  BY <1>9, PathsInputs
<1>10. CASE ConfigLoaded
  BY <1>10, ConfigInputs
<1>11. CASE InvokeCompiler \/ InvokeAssembler \/ SkipAssembler \/ InvokeLinker \/ RemoveObject \/ RunProgram \/ RunTests \/ Delegate
  BY <1>11, ToolInputs
<1>12. CASE RunBindgen
  BY <1>12, BindgenInputs
<1>13. CASE EditSources \/ Interrupt \/ UNCHANGED vars
  BY <1>13, UserInputs
<1> QED
  BY <1>1, <1>2, <1>3, <1>4, <1>5, <1>6, <1>7, <1>8, <1>9, <1>10, <1>11, <1>12, <1>13 DEF Next, Step

\* The tools get what the project and every package that it needs say for
\* the target that was asked for, neither less nor more, and the libraries of
\* a package after those that need it.  (load_manifest, load_package,
\* add_package_paths, append_compilation_args)
THEOREM AlwaysInputsExact ==
    ASSUME PlainHistories, PlainManifests
    PROVE  Spec => []InputsExact
<1>1. Init => IInv /\ Inputs
  BY InitHolds, InitInputs
<1>2. IInv /\ Inputs /\ [Next]_vars => IInv' /\ Inputs'
  BY Invariance, InputsInvariance
<1>3. IInv /\ Inputs => InputsExact
  BY GatheredEnough
<1> QED
  BY <1>1, <1>2, <1>3, PTL DEF Spec
==============================================================================
