---------------------------- MODULE TargetProcess ----------------------------
(***************************************************************************)
(* How the hot reloader reads, writes and allocates memory of the target   *)
(* process on Linux (src/src/banjo-hot-reloader/target_process_linux.cpp): *)
(* it attaches to the main thread with ptrace, which stops it.  To read or *)
(* write it then uses /proc/<pid>/mem; to allocate it replaces the next    *)
(* eight bytes of the code and the registers so that the thread executes   *)
(* an mmap system call and a trap, and puts everything back.               *)
(*                                                                         *)
(* The kernel's part of ptrace is modelled from how this code uses it: a   *)
(* traced thread stops for every signal, also for one that is neither the  *)
(* SIGSTOP of the attach nor the SIGTRAP of the trap; a signal for which   *)
(* it stopped is dropped when it is continued with signal 0; a SIGSTOP     *)
(* that is still pending when it is detached halts it for good.            *)
(***************************************************************************)
EXTENDS Integers, FiniteSets

CONSTANTS
    RegValues,  \* contents of the registers of the program
    MaxAddr,    \* bound: allocations the target's address space allows
    Others,     \* threads of the target besides its main thread
    OtherSignals \* whether others send signals to the target as well

Enomem   == -1
None     == -2
Stored   == 0
SysMmap  == -3  \* the number of the mmap system call, no address either

VARIABLES
    pc,         \* where TargetProcess is
    op,         \* the operation it executes
    origRegs,   \* orig_regs
    origWord,   \* orig_word
    address,    \* what the operation will return
    thread,     \* the main thread: "running", "stopped" by ptrace, "halted" or "dead"
    traced,     \* the main thread is attached to
    pending,    \* its pending signals
    regs,       \* its registers
    word,       \* whose the eight bytes at its instruction pointer are
    mapped      \* number of sections allocated

tracer == <<pc, op, origRegs, origWord, address>>
target == <<thread, traced, pending, regs, word, mapped>>
vars   == <<tracer, target>>

\* The registers that matter: the instruction pointer and rax.
ProgramRegs == [ip : {"program"}, rax : RegValues]
CallRegs == [ip : {"syscall", "trap", "past"}, rax : {SysMmap, Enomem} \union 1..MaxAddr]
NoRegs == [ip |-> "none", rax |-> None]

PtraceSteps == {"attach", "getregs", "setregs", "poke", "cont", "getresult",
                "restoreregs", "restoreword", "detach"}
Steps == PtraceSteps \union {"idle", "waitstop", "peek", "transfer", "waittrap", "aborted"}

\* The steps between the backup of the registers and the end of the operation.
Saved == {"peek", "setregs", "poke", "cont", "waittrap", "getresult", "restoreregs", "restoreword"}

ASSUME ConstAssumption ==
    /\ RegValues \subseteq Int
    /\ MaxAddr \in Nat
    /\ OtherSignals \in BOOLEAN

\* Every variable has its type, and the registers that will be put back are
\* those of the program (allocate_memory, target_process_linux.cpp:214-218).
TypeOK ==
    /\ pc \in Steps
    /\ op \in {"none", "allocate", "access"}
    /\ origRegs \in ProgramRegs \union CallRegs \union {NoRegs}
    /\ origWord \in {"none", "program", "injected"}
    /\ address \in {None, Stored, SysMmap, Enomem} \union 1..MaxAddr
    /\ thread \in {"running", "stopped", "halted", "dead"}
    /\ traced \in BOOLEAN
    /\ pending \subseteq {"SIGSTOP", "other"}
    /\ regs \in ProgramRegs \union CallRegs
    /\ word \in {"program", "injected"}
    /\ mapped \in 0..MaxAddr
    /\ pc \in Saved => origRegs \in ProgramRegs

Init ==
    /\ pc = "idle" /\ op = "none"
    /\ origRegs = NoRegs /\ origWord = "none" /\ address = None
    /\ thread = "running" /\ traced = FALSE /\ pending = {}
    /\ regs \in ProgramRegs
    /\ word = "program"
    /\ mapped = 0

-----------------------------------------------------------------------------
(* The target and the kernel.                                              *)

\* The main thread executes instructions when no signal is to be handled.
Executes(ip) == thread = "running" /\ pending = {} /\ regs.ip = ip

Program ==
    /\ Executes("program") /\ word = "program"
    /\ \E v \in RegValues : regs' = [regs EXCEPT !.rax = v]
    /\ UNCHANGED <<tracer, thread, traced, pending, word, mapped>>

\* The injected system call...
Syscall ==
    /\ Executes("syscall") /\ word = "injected"
    /\ regs' = [ip |-> "trap", rax |-> IF mapped < MaxAddr THEN mapped + 1 ELSE Enomem]
    /\ mapped' = IF mapped < MaxAddr THEN mapped + 1 ELSE mapped
    /\ UNCHANGED <<tracer, thread, traced, pending, word>>

\* ... and the trap behind it.
Trap ==
    /\ Executes("trap") /\ word = "injected" /\ traced
    /\ thread' = "stopped"
    /\ regs' = [regs EXCEPT !.ip = "past"]
    /\ UNCHANGED <<tracer, traced, pending, word, mapped>>

\* Only the main thread is attached to and stops.  A thread that comes across
\* the injected bytes and is not traced dies of the trap, and all with it.
Derail ==
    /\ thread # "dead" /\ word = "injected"
    /\ Others # {} \/ Executes("program")
    /\ thread' = "dead"
    /\ UNCHANGED <<tracer, traced, pending, regs, word, mapped>>

\* Pending signals are handled in any order, as their numbers may be.
HandleSignal ==
    /\ thread = "running"
    /\ \E s \in pending :
        /\ pending' = pending \ {s}
        /\ thread' = IF traced THEN "stopped" ELSE IF s = "SIGSTOP" THEN "halted" ELSE thread
    /\ UNCHANGED <<tracer, traced, regs, word, mapped>>

\* The target exits or is killed.
Die ==
    /\ thread # "dead"
    /\ thread' = "dead"
    /\ UNCHANGED <<tracer, traced, pending, regs, word, mapped>>

-----------------------------------------------------------------------------
(* TargetProcess: one action per call of ptrace, waitpid or the file.      *)

\* The reloader calls allocate_memory, read_memory or write_memory.  What it
\* does to a target that is halted already, or still has to handle a signal,
\* is left out.
Begin ==
    /\ pc = "idle" /\ thread # "halted" /\ pending = {}
    /\ pc' = "attach" /\ op' \in {"allocate", "access"}
    /\ UNCHANGED <<origRegs, origWord, address, target>>

\* Every ptrace call fails when the target is dead, and the reloader aborts.
Fail ==
    /\ thread = "dead" /\ pc \in PtraceSteps \union {"transfer"}
    /\ pc' = "aborted"
    /\ UNCHANGED <<op, origRegs, origWord, address, target>>

\* PTRACE_ATTACH sends a SIGSTOP.  Another signal may be pending as well; one
\* that arrives later has the effect of one that is handled later.
Attach ==
    /\ pc = "attach" /\ thread = "running"
    /\ pc' = "waitstop"
    /\ traced' = TRUE
    /\ \/ pending' = {"SIGSTOP"}
       \/ OtherSignals /\ pending' = {"SIGSTOP", "other"}
    /\ UNCHANGED <<op, origRegs, origWord, address, thread, regs, word, mapped>>

\* As Wait, but until the thread has stopped.
WaitStopped(at, next) ==
    /\ pc = at /\ thread = "stopped"
    /\ pc' = next
    /\ UNCHANGED <<op, origRegs, origWord, address, target>>
\* waitpid returns when the thread has stopped for whatever reason, or died.
Wait(at, next) ==
    /\ pc = at /\ thread \in {"stopped", "dead"}
    /\ pc' = next
    /\ UNCHANGED <<op, origRegs, origWord, address, target>>
WaitStop == Wait("waitstop", IF op = "allocate" THEN "getregs" ELSE "transfer")
WaitTrap == Wait("waittrap", "getresult")

\* read_memory and write_memory: /proc/<pid>/mem.
Transfer ==
    /\ pc = "transfer" /\ thread = "stopped"
    /\ pc' = "detach" /\ address' = Stored
    /\ UNCHANGED <<op, origRegs, origWord, target>>

\* As GetRegs, but nothing is backed up.
GetRegsOnly ==
    /\ pc = "getregs" /\ thread = "stopped"
    /\ pc' = "peek"
    /\ UNCHANGED <<op, origRegs, origWord, address, target>>
GetRegs ==
    /\ pc = "getregs" /\ thread = "stopped"
    /\ pc' = "peek" /\ origRegs' = regs
    /\ UNCHANGED <<op, origWord, address, target>>

\* Whether this call failed is not tested.
PeekData ==
    /\ pc = "peek"
    /\ pc' = "setregs"
    /\ origWord' = IF thread = "stopped" THEN word ELSE "none"
    /\ UNCHANGED <<op, origRegs, address, target>>

SetRegs ==
    /\ pc = "setregs" /\ thread = "stopped"
    /\ pc' = "poke" /\ regs' = [ip |-> "syscall", rax |-> SysMmap]
    /\ UNCHANGED <<op, origRegs, origWord, address, thread, traced, pending, word, mapped>>

PokeData ==
    /\ pc = "poke" /\ thread = "stopped"
    /\ pc' = "cont" /\ word' = "injected"
    /\ UNCHANGED <<op, origRegs, origWord, address, thread, traced, pending, regs, mapped>>

Cont ==
    /\ pc = "cont" /\ thread = "stopped"
    /\ pc' = "waittrap" /\ thread' = "running"
    /\ UNCHANGED <<op, origRegs, origWord, address, traced, pending, regs, word, mapped>>

GetResult ==
    /\ pc = "getresult" /\ thread = "stopped"
    /\ pc' = "restoreregs" /\ address' = regs.rax
    /\ UNCHANGED <<op, origRegs, origWord, target>>

RestoreRegs ==
    /\ pc = "restoreregs" /\ thread = "stopped"
    /\ pc' = "restoreword" /\ regs' = origRegs
    /\ UNCHANGED <<op, origRegs, origWord, address, thread, traced, pending, word, mapped>>

\* As RestoreWord, but the bytes stay.
RestoreNothing ==
    /\ pc = "restoreword" /\ thread = "stopped"
    /\ pc' = "detach"
    /\ UNCHANGED <<op, origRegs, origWord, address, target>>
RestoreWord ==
    /\ pc = "restoreword" /\ thread = "stopped"
    /\ pc' = "detach" /\ word' = origWord
    /\ UNCHANGED <<op, origRegs, origWord, address, thread, traced, pending, regs, mapped>>

\* As Detach, but the thread stays attached.
DetachNever ==
    /\ pc = "detach" /\ thread = "stopped"
    /\ pc' = "idle" /\ op' = "none"
    /\ origRegs' = NoRegs /\ origWord' = "none" /\ address' = None
    /\ UNCHANGED <<target>>
\* The operation returns address.
Detach ==
    /\ pc = "detach" /\ thread = "stopped"
    /\ pc' = "idle" /\ op' = "none"
    /\ origRegs' = NoRegs /\ origWord' = "none" /\ address' = None
    /\ traced' = FALSE /\ thread' = "running"
    /\ UNCHANGED <<pending, regs, word, mapped>>

Kernel == Syscall \/ Trap \/ HandleSignal
Tracer ==
    \/ Fail \/ Attach \/ WaitStop \/ Transfer \/ GetRegs \/ PeekData \/ SetRegs \/ PokeData
    \/ Cont \/ WaitTrap \/ GetResult \/ RestoreRegs \/ RestoreWord \/ Detach

Next == Program \/ Derail \/ Die \/ Begin \/ Kernel \/ Tracer

\* The kernel goes on with what it was asked for, and the reloader runs on.
Spec == Init /\ [][Next]_vars /\ WF_vars(Kernel) /\ WF_vars(Tracer)

-----------------------------------------------------------------------------
(* Properties.                                                             *)

\* Every operation takes effect in one step and only fails when the target
\* is dead: the program never sees the registers and the code that
\* allocate_memory puts into it for a while, and the address that is returned
\* is the one that mmap returned (target_process_linux.cpp:204-289).
Memory == INSTANCE TargetMemory WITH
    alive  <- thread # "dead",
    regs   <- IF regs.ip = "program" THEN regs.rax ELSE origRegs.rax,
    code   <- IF word = "injected" THEN origWord ELSE word,
    call   <- IF pc = "aborted" THEN "aborted" ELSE op,
    result <- IF pc = "aborted" THEN None
              ELSE IF pc \in {"waittrap", "getresult"} /\ regs.ip \in {"trap", "past"} THEN regs.rax
              ELSE address
Atomic == Memory!Spec

\* Every operation comes to an end, also when the target dies in it, although
\* waitpid waits without a limit (target_process_linux.cpp:212 and 261).
Ends == (pc # "idle") ~> (pc \in {"idle", "aborted"})

\* After every operation the target continues (target_process_linux.cpp:283,
\* 306 and 325: "Detach from the process to continue it").
Resumes == []<>(thread \in {"running", "dead"})
==============================================================================
