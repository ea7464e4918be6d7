----------------------------- MODULE HotReloader -----------------------------
(***************************************************************************)
(* The hot reloader of Banjo (src/src/banjo-hot-reloader): a process that  *)
(* polls inotify, compares every reported file with the content it saw     *)
(* last, recompiles the whole program, and loads the functions of that     *)
(* file into the running target process by allocating memory in it,        *)
(* writing text and data there and redirecting the entry of the address    *)
(* table.  Three actors interleave: the user editing files, the reloader,  *)
(* and the target, whose threads call functions through the table while    *)
(* they are being replaced and which may die at any step.                  *)
(*                                                                         *)
(* A file content is one of a small set of values; what the properties     *)
(* tell apart of it is its size (has_changed compares sizes first),        *)
(* whether the program compiles with it, the functions it defines and      *)
(* whether they carry a data section.  A function loaded from content c is *)
(* at version c.  The Linux implementation of the watcher and of the       *)
(* target process is modelled; the ptrace protocol behind a single memory  *)
(* operation has a module of its own (TargetProcess).                      *)
(***************************************************************************)
EXTENDS Integers, Sequences, FiniteSets

CONSTANTS
    Files,      \* files of the watched directory tree
    Sources,    \* those whose extension is .bnj
    Contents,   \* what a file can contain
    Initial,    \* the content every file was built from
    Missing,    \* the file does not exist (a member of Contents)
    Bad,        \* contents with which the program does not compile
    SizeOf,     \* size in bytes of a content
    Names,      \* names of functions
    Defines,    \* the functions a content defines
    HasData,    \* the contents whose functions carry a data section
    Threads,    \* threads of the target process
    Signals,    \* whether the target can be killed by a signal
    QueueCap,   \* kernel limit on unread inotify events
    ReadCap,    \* events that fit into the buffer of FileWatcher::poll
    After,      \* the contents the user may replace a content by
    EditAt,     \* the steps of the reloader at which the user edits
    MaxPending, \* bound: the user edits while fewer events are unread
    MaxWrites,  \* bound: edits the user makes
    MaxAddr,    \* bound: allocations the target's address space allows
    Overflow,   \* the IN_Q_OVERFLOW event
    None        \* no file, no function, no content, no code

Orig    == 0        \* address of the code in the executable; also "no data"
Enomem  == -1       \* what the mmap system call leaves in rax when it fails

Addrs == 1..MaxAddr
Slots == Sources \X Defines[Initial]
Code  == [slot : Slots, ver : Contents, data : Addrs \union {Orig, Enomem}]
Frame == [slot : Slots, addr : Addrs \union {Orig}, code : Code \union {None}]

\* Where HotReloader::run can be.  The watch is open in every step but the
\* first; "spin" is the endless loop of FileWatcher::poll.
Steps == {"start", "poll", "check", "build", "func", "alloc_text", "alloc_data",
          "write_text", "write_data", "update", "waitpid", "spin", "done", "aborted"}

ASSUME ConstAssumption ==
    /\ Sources \subseteq Files
    /\ {Initial, Missing} \subseteq Contents
    /\ Initial # Missing
    /\ Bad \subseteq Contents \ {Initial}
    /\ SizeOf \in [Contents -> Nat]
    /\ Defines \in [Contents -> SUBSET Names]
    /\ HasData \subseteq Contents
    /\ Signals \in BOOLEAN
    /\ QueueCap \in Nat \ {0}
    /\ ReadCap \in Nat \ {0}
    /\ After \in [Contents -> SUBSET Contents]
    /\ EditAt \subseteq Steps
    /\ MaxPending \in Nat
    /\ MaxWrites \in Nat
    /\ MaxAddr \in Nat
    /\ None \notin Files \union Names \union Contents \union Code \union Frame
    /\ Overflow \notin Files

VARIABLES
    disk,       \* content of every file
    writes,     \* edits made so far
    queue,      \* unread inotify events
    pc,         \* where HotReloader::run is
    cur,        \* the file that is being checked and reloaded
    seen,       \* HotReloader::file_contents
    todo,       \* functions of cur that are still to be loaded
    fn,         \* the function being loaded
    built,      \* the sources the JIT compiler read
    loaded,     \* LoadedFunc: text_addr and data_addr
    exited,     \* TargetProcess::exited
    proc,       \* state of the target in the kernel
    table,      \* the address table in the target's memory
    next,       \* next address mmap hands out
    text,       \* text sections in the target's memory
    data,       \* data sections in the target's memory
    frame,      \* the call each target thread is executing
    reloaded    \* history: the content each file was last reloaded from

user   == <<disk, writes, queue>>
local  == <<cur, seen, todo, fn, built, loaded, reloaded>>
memory == <<table, next, text, data>>
vars   == <<user, pc, local, exited, proc, memory, frame>>

TypeOK ==
    /\ disk \in [Files -> Contents]
    /\ writes \in 0..MaxWrites
    /\ queue \in Seq(Files \union {Overflow})
    /\ pc \in Steps
    /\ cur \in Files \union {None}
    /\ seen \in [Files -> Contents \union {None}]
    /\ todo \subseteq Names
    /\ fn \in Names \union {None}
    /\ built \in [Files -> Contents]
    /\ loaded \in [text : Addrs \union {Orig, Enomem}, data : Addrs \union {Orig, Enomem}]
    /\ exited \in BOOLEAN
    /\ proc \in {"running", "exited", "signaled", "reaped"}
    /\ table \in [Slots -> Addrs \union {Orig}]
    /\ next \in 1..(MaxAddr + 1)
    /\ text \in [Addrs -> Code \union {None}]
    /\ data \in [Addrs -> Code \union {None}]
    /\ frame \in [Threads -> Frame \union {None}]
    /\ reloaded \in [Files -> Contents]

Init ==
    /\ disk = [f \in Files |-> Initial]
    /\ writes = 0
    /\ queue = <<>>
    /\ pc = "start"
    /\ cur = None
    /\ seen = [f \in Files |-> None]
    /\ todo = {}
    /\ fn = None
    /\ built = [f \in Files |-> Initial]
    /\ loaded = [text |-> Orig, data |-> Orig]
    /\ exited = FALSE
    /\ proc = "running"
    /\ table = [s \in Slots |-> Orig]
    /\ next = 1
    /\ text = [a \in Addrs |-> None]
    /\ data = [a \in Addrs |-> None]
    /\ frame = [t \in Threads |-> None]
    /\ reloaded = [f \in Files |-> Initial]

-----------------------------------------------------------------------------
(* The user and inotify (external: the kernel side of the watch).          *)

\* An IN_MODIFY event joins the unread ones.  The kernel merges it with an
\* equal last event, and puts a single overflow event in its place once the
\* queue is full.
Enqueue(f) ==
    LET Last == queue[Len(queue)]
        Event == IF Len(queue) < QueueCap THEN f ELSE Overflow
    IN  queue' = IF queue # <<>> /\ Last \in {f, Overflow} THEN queue
                 ELSE Append(queue, Event)

CanEdit(f, c) ==
    /\ pc \in EditAt \ {"start"}
    /\ writes < MaxWrites
    /\ Len(queue) < MaxPending
    /\ c \in After[disk[f]]

\* The user saves a file in place.
Write(f, c) ==
    /\ CanEdit(f, c)
    /\ c # Missing
    /\ disk' = [disk EXCEPT ![f] = c]
    /\ writes' = writes + 1
    /\ Enqueue(f)
    /\ UNCHANGED <<pc, local, exited, proc, memory, frame>>

\* The user deletes a file: the watch asks for IN_MODIFY only.
Delete(f) ==
    /\ CanEdit(f, Missing)
    /\ disk[f] # Missing
    /\ disk' = [disk EXCEPT ![f] = Missing]
    /\ writes' = writes + 1
    /\ UNCHANGED <<queue, pc, local, exited, proc, memory, frame>>

-----------------------------------------------------------------------------
(* The target process.                                                     *)

CodeAt(a) == IF a \in Addrs THEN text[a] ELSE None

\* A thread calls a function through the address table.
Call(t, s) ==
    /\ proc = "running"
    /\ frame[t] = None
    /\ frame' = [frame EXCEPT ![t] =
            [slot |-> s, addr |-> table[s], code |-> CodeAt(table[s])]]
    /\ UNCHANGED <<user, pc, local, exited, proc, memory>>

Return(t) ==
    /\ proc = "running"
    /\ frame[t] # None
    /\ frame' = [frame EXCEPT ![t] = None]
    /\ UNCHANGED <<user, pc, local, exited, proc, memory>>

\* The target leaves main or is killed; the kernel keeps it as a zombie
\* until somebody waits for it.
Die ==
    /\ proc = "running"
    /\ proc' \in (IF Signals THEN {"exited", "signaled"} ELSE {"exited"})
    /\ frame' = [t \in Threads |-> None]
    /\ UNCHANGED <<user, pc, local, exited, memory>>

-----------------------------------------------------------------------------
(* The reloader.                                                           *)

\* HotReloader::abort: the reloader exits, and PR_SET_PDEATHSIG takes the
\* target with it.
Abort ==
    /\ pc' = "aborted"
    /\ proc' = "reaped"
    /\ frame' = [t \in Threads |-> None]
    /\ UNCHANGED <<user, local, exited, memory>>

\* HotReloader::run up to its loop: every read of the address table attaches
\* to the target, which fails once it is dead.
Start ==
    /\ pc = "start"
    /\ \/ /\ proc = "running"
          /\ pc' = "waitpid"
          /\ UNCHANGED <<user, local, exited, proc, memory, frame>>
       \/ /\ proc # "running"
          /\ Abort

\* FileWatcher::poll: read() hands over the unread events that fit into the
\* buffer, and the loop over them steps by the length of the whole read, so
\* it ends after the first event.  An overflow event is skipped without a
\* step: the loop never ends, and "spin" is left by no action.
Poll ==
    /\ pc = "poll"
    /\ \/ /\ queue = <<>>
          /\ pc' = "waitpid"
          /\ UNCHANGED <<queue, cur>>
       \/ /\ queue # <<>>
          /\ queue' = SubSeq(queue, ReadCap + 1, Len(queue))
          /\ IF Head(queue) = Overflow
                 THEN pc' = "spin" /\ UNCHANGED cur
                 ELSE pc' = "check" /\ cur' = Head(queue)
    /\ UNCHANGED <<disk, writes, seen, todo, fn, built, loaded, reloaded,
                   exited, proc, memory, frame>>

\* HotReloader::has_changed on the content the file has now.
SizeDiffers(f) == seen[f] # None /\ SizeOf[disk[f]] # SizeOf[seen[f]]
HasChangedSince(f) ==   \* mutant: the first event of a file only records it
    disk[f] # Missing /\ seen[f] # None /\ (SizeDiffers(f) \/ seen[f] # disk[f])
HasChanged(f) == disk[f] # Missing /\ (SizeDiffers(f) \/ seen[f] # disk[f])
Remember(f) ==
    seen' = IF disk[f] = Missing \/ SizeDiffers(f) THEN seen
            ELSE [seen EXCEPT ![f] = disk[f]]

Check ==
    /\ pc = "check"
    /\ \/ /\ cur \in Sources
          /\ Remember(cur)
          /\ pc' = IF HasChanged(cur) THEN "build" ELSE "waitpid"
       \/ /\ cur \notin Sources
          /\ pc' = "waitpid"
          /\ UNCHANGED seen
    /\ UNCHANGED <<user, cur, todo, fn, built, loaded, reloaded, exited, proc, memory, frame>>

\* HotReloader::reload_file: the JIT compiler reads every source again;
\* errors anywhere in the program end the reload, as does a module that is
\* gone.
Build ==
    /\ pc = "build"
    /\ built' = disk
    /\ LET reloadable == /\ \A f \in Sources : disk[f] \notin Bad
                         /\ disk[cur] # Missing
       IN  /\ todo' = IF reloadable THEN Defines[disk[cur]] ELSE {}
           /\ pc' = IF reloadable THEN "func" ELSE "waitpid"
           /\ reloaded' = IF reloadable THEN [reloaded EXCEPT ![cur] = disk[cur]] ELSE reloaded
    /\ UNCHANGED <<user, cur, seen, fn, loaded, exited, proc, memory, frame>>

\* The loop over the functions of the module, in any order of declaration;
\* a function without an entry in the address table is skipped.
NextFuncBreak ==   \* mutant: a function without an entry ends the loop
    /\ pc = "func"
    /\ \/ /\ todo = {}
          /\ pc' = "waitpid"
          /\ UNCHANGED <<todo, fn>>
       \/ \E n \in todo :
            /\ todo' = todo \ {n}
            /\ IF <<cur, n>> \in Slots
                   THEN pc' = "alloc_text" /\ fn' = n
                   ELSE pc' = "waitpid" /\ UNCHANGED fn
    /\ UNCHANGED <<user, cur, seen, built, loaded, reloaded, exited, proc, memory, frame>>
NextFunc ==
    /\ pc = "func"
    /\ \/ /\ todo = {}
          /\ pc' = "waitpid"
          /\ UNCHANGED <<todo, fn>>
       \/ \E n \in todo :
            /\ todo' = todo \ {n}
            /\ IF <<cur, n>> \in Slots
                   THEN pc' = "alloc_text" /\ fn' = n
                   ELSE UNCHANGED <<pc, fn>>
    /\ UNCHANGED <<user, cur, seen, built, loaded, reloaded, exited, proc, memory, frame>>

slot == <<cur, fn>>
code == [slot |-> slot, ver |-> built[cur], data |-> loaded.data]

\* alloc_section: mmap run inside the target; its result is not tested for
\* an error code.
AllocatedAgain ==   \* mutant: the memory of the version before is reused
    IF table[slot] \in Addrs THEN table[slot]
    ELSE IF next <= MaxAddr THEN next ELSE Enomem
Allocated == IF next <= MaxAddr THEN next ELSE Enomem
AllocNext == next' = IF next <= MaxAddr THEN next + 1 ELSE next

AllocText ==
    /\ pc = "alloc_text"
    /\ \/ /\ proc # "running"
          /\ Abort
       \/ /\ proc = "running"
          /\ loaded' = [text |-> Allocated, data |-> Orig]
          /\ AllocNext
          /\ pc' = "alloc_data"
          /\ UNCHANGED <<user, cur, seen, todo, fn, built, reloaded, exited, proc,
                         table, text, data, frame>>

AllocData ==
    /\ pc = "alloc_data"
    /\ \/ /\ proc # "running" /\ built[cur] \in HasData
          /\ Abort
       \/ /\ proc = "running" \/ built[cur] \notin HasData
          /\ IF built[cur] \in HasData
                 THEN loaded' = [loaded EXCEPT !.data = Allocated] /\ AllocNext
                 ELSE UNCHANGED <<loaded, next>>
          /\ pc' = "write_text"
          /\ UNCHANGED <<user, cur, seen, todo, fn, built, reloaded, exited, proc,
                         table, text, data, frame>>

\* write_section: a write to a dead process or to an unmapped address fails.
WritableUnchecked(addr) ==   \* mutant: the state of the stream is not tested
    proc = "running"
Writable(addr) == proc = "running" /\ addr \in Addrs

WriteTextOnly ==   \* mutant: the data section is forgotten
    /\ pc = "write_text"
    /\ \/ /\ ~ Writable(loaded.text)
          /\ Abort
       \/ /\ Writable(loaded.text)
          /\ text' = [text EXCEPT ![loaded.text] = code]
          /\ pc' = "update"
          /\ UNCHANGED <<user, local, exited, proc, table, next, data, frame>>
WriteText ==
    /\ pc = "write_text"
    /\ \/ /\ ~ Writable(loaded.text)
          /\ Abort
       \/ /\ Writable(loaded.text)
          /\ text' = [text EXCEPT ![loaded.text] = code]
          /\ pc' = "write_data"
          /\ UNCHANGED <<user, local, exited, proc, table, next, data, frame>>

WriteData ==
    /\ pc = "write_data"
    /\ \/ /\ loaded.data # Orig
          /\ ~ Writable(loaded.data)
          /\ Abort
       \/ /\ loaded.data # Orig
          /\ Writable(loaded.data)
          /\ data' = [data EXCEPT ![loaded.data] = code]
          /\ pc' = "update"
          /\ UNCHANGED <<user, local, exited, proc, table, next, text, frame>>
       \/ /\ loaded.data = Orig
          /\ pc' = "update"
          /\ UNCHANGED <<user, local, exited, proc, memory, frame>>

\* update_func_addr: one write of eight bytes into the address table.
Update ==
    /\ pc = "update"
    /\ \/ /\ proc # "running"
          /\ Abort
       \/ /\ proc = "running"
          /\ table' = [table EXCEPT ![slot] = loaded.text]
          /\ pc' = "func"
          /\ UNCHANGED <<user, local, exited, proc, next, text, data, frame>>

\* TargetProcess::poll and the condition of the loop: the zombie is reaped,
\* but only a normal exit sets the flag.
WaitPidOnce ==   \* mutant: the status is not examined
    /\ pc = "waitpid"
    /\ exited' = FALSE
    /\ proc' = IF proc \in {"exited", "signaled"} THEN "reaped" ELSE proc
    /\ pc' = "poll"
    /\ UNCHANGED <<user, local, memory, frame>>
WaitPid ==
    /\ pc = "waitpid"
    /\ exited' = (exited \/ proc = "exited")
    /\ proc' = IF proc \in {"exited", "signaled"} THEN "reaped" ELSE proc
    /\ pc' = IF exited' THEN "done" ELSE "poll"
    /\ UNCHANGED <<user, local, memory, frame>>

Reloader == \/ Start \/ Poll \/ Check \/ Build \/ NextFunc
            \/ AllocText \/ AllocData \/ WriteText \/ WriteData \/ Update
            \/ WaitPid

User   == \E f \in Files : Delete(f) \/ \E c \in Contents : Write(f, c)
Target == \/ \E t \in Threads : Return(t) \/ \E s \in Slots : Call(t, s)
          \/ Die

Next == User \/ Target \/ Reloader

\* The reloader is an ordinary process that the system keeps scheduling;
\* nothing obliges the user to edit or the target to call, return or exit.
Spec == Init /\ [][Next]_vars /\ WF_vars(Reloader)

-----------------------------------------------------------------------------
(* Properties.                                                             *)

Version(s) == IF table[s] \in Addrs THEN text[table[s]].ver ELSE Initial

\* Code c is complete: it has the data section it refers to.
Complete(c) == c.data = Orig \/ (c.data \in Addrs /\ data[c.data] = c)

\* Every entry of the address table leads to code that is completely
\* written, text and data, and that is the code of that very function: a
\* call at any moment of a reload finds nothing half-loaded
\* (load_func and update_func_addr, hot_reloader.cpp:188-207 and 270-279).
TableSound ==
    \A s \in Slots : table[s] \in Addrs =>
        /\ text[table[s]] # None
        /\ text[table[s]].slot = s
        /\ Complete(text[table[s]])

\* A thread that is still inside an older version of a function keeps
\* executing the code it entered, with its data: reloads never reuse or
\* overwrite the memory of a call in progress.
FramesIntact ==
    \A t \in Threads : frame[t] # None /\ frame[t].addr \in Addrs =>
        /\ frame[t].code # None
        /\ text[frame[t].addr] = frame[t].code
        /\ Complete(frame[t].code)

\* When the reloader waits for the next event, all the functions that the
\* file defined when it was last reloaded run that version: a reload that
\* ended did not leave the file half old and half new
\* (the loop of reload_file, hot_reloader.cpp:162-173).
FileConsistent ==
    pc = "poll" => \A s \in Slots :
        s[2] \in Defines[reloaded[s[1]]] => Version(s) = reloaded[s[1]]

Current(s) == \/ s[2] \notin Defines[disk[s[1]]]
              \/ Version(s) = disk[s[1]]

\* Once the user stops editing, a target that is still running executes the
\* functions of the files as they are on disk, provided the program
\* compiles: no change stays undetected
\* (docs/lang/source/hot_reloading.md: "can detect changes to files,
\* recompile the functions inside and inject them").
Converges ==
    <>[](\/ proc # "running"
         \/ \E f \in Sources : disk[f] \in Bad \union {Missing}
         \/ \A s \in Slots : Current(s))

\* The reloader ends after the target has left its program by itself, at
\* whatever step of a reload that happens: the loop of HotReloader::run runs
\* until TargetProcess::poll has seen a normal exit, and no read, write or
\* reload in between takes the status away or keeps the loop from coming round
\* (hot_reloader.cpp:88-100, target_process_linux.cpp:72-84).  It says nothing
\* of a target that a signal kills: see DeathNoticed.
ExitNoticed == (proc = "exited") ~> (pc \in {"done", "aborted"})

\* The same of every end of the target.  The code does not have it: poll reaps a
\* target that a signal has killed without setting exited, and unless a reload is
\* just touching its memory HotReloader::run goes on polling for ever.
DeathNoticed == (proc # "running") ~> (pc \in {"done", "aborted"})
==============================================================================
