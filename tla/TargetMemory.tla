---------------------------- MODULE TargetMemory -----------------------------
(***************************************************************************)
(* What the hot reloader relies on when it works on the memory of the      *)
(* target process: an operation takes effect in one step, the program does *)
(* not notice it, and it only fails when the target is dead.  HotReloader  *)
(* takes every operation for such a step.                                  *)
(***************************************************************************)
EXTENDS Integers

CONSTANTS
    RegValues,  \* contents of the registers of the program
    MaxAddr     \* bound: allocations the target's address space allows

Enomem == -1    \* what the mmap system call returns when it fails
None   == -2    \* there is no result yet
Stored == 0     \* the result of a read or a write

VARIABLES
    alive,      \* the target has not died
    regs,       \* the registers of the program
    code,       \* whose instructions the program executes
    mapped,     \* number of sections allocated; they have the addresses 1..mapped
    call,       \* the operation the reloader is in
    result      \* its result

vars == <<alive, regs, code, mapped, call, result>>

Init ==
    /\ alive = TRUE
    /\ regs \in RegValues
    /\ code = "program"
    /\ mapped = 0
    /\ call = "none"
    /\ result = None

\* The program runs, whatever the reloader does.
Run ==
    /\ alive
    /\ regs' \in RegValues
    /\ UNCHANGED <<alive, code, mapped, call, result>>

Die ==
    /\ alive
    /\ alive' = FALSE
    /\ UNCHANGED <<regs, code, mapped, call, result>>

Begin ==
    /\ call = "none"
    /\ call' \in {"allocate", "access"}
    /\ UNCHANGED <<alive, regs, code, mapped, result>>

Allocate ==
    /\ call = "allocate" /\ result = None /\ alive
    /\ IF mapped < MaxAddr
       THEN mapped' = mapped + 1 /\ result' = mapped + 1
       ELSE mapped' = mapped /\ result' = Enomem
    /\ UNCHANGED <<alive, regs, code, call>>

Access ==
    /\ call = "access" /\ result = None /\ alive
    /\ result' = Stored
    /\ UNCHANGED <<alive, regs, code, mapped, call>>

Return ==
    /\ result # None
    /\ call' = "none" /\ result' = None
    /\ UNCHANGED <<alive, regs, code, mapped>>

Fail ==
    /\ call \in {"allocate", "access"} /\ ~alive
    /\ call' = "aborted" /\ result' = None
    /\ UNCHANGED <<alive, regs, code, mapped>>

Next == Run \/ Die \/ Begin \/ Allocate \/ Access \/ Return \/ Fail

Spec == Init /\ [][Next]_vars
==============================================================================
