------------------------- MODULE TargetProcessProofs --------------------------
(***************************************************************************)
(* The ptrace protocol of TargetProcess keeps its types and, when nobody   *)
(* else sends signals, implements the atomic operations of TargetMemory.   *)
(***************************************************************************)
EXTENDS TargetProcess, TLAPS

-----------------------------------------------------------------------------
(* Types.                                                                  *)

\* The registers are those of the program except while they are exchanged, and
\* the bytes that are put back were read from a thread that was stopped.
Exchanged == {"poke", "cont", "waittrap", "getresult", "restoreregs", "aborted"}
Held == {"getregs", "peek", "setregs", "poke", "cont", "transfer",
         "getresult", "restoreregs", "restoreword", "detach"}
Home ==
    /\ pc \notin Exchanged => regs \in ProgramRegs
    /\ pc \in {"poke", "cont", "waittrap", "getresult"} => regs \in CallRegs
    /\ pc \in Held => thread \in {"stopped", "dead"}
    /\ pc \in Saved \ {"peek"} => origWord # "none" \/ thread = "dead"

\* The program runs before it is attached to.
LEMMA TypeInit == Init => TypeOK /\ Home
<1> SUFFICES ASSUME Init PROVE TypeOK /\ Home
  OBVIOUS
<1>1. 0 \in 0..MaxAddr /\ 0 \in {None, Stored, SysMmap, Enomem}
  BY ConstAssumption DEF Stored
<1> QED
  BY <1>1, ZenonT(30) DEF Init, TypeOK, Home, Exchanged, Held, Saved, Steps, PtraceSteps

\* Every step keeps the types and the backups.
LEMMA TypeStep == TypeOK /\ Home /\ [Next]_vars => TypeOK' /\ Home'
<1> SUFFICES ASSUME TypeOK, Home, [Next]_vars PROVE TypeOK' /\ Home'
  OBVIOUS
<1> USE ConstAssumption DEF TypeOK, Home, Exchanged, Held, ProgramRegs, CallRegs, Saved, tracer, target
<1>1. CASE Program
  BY <1>1 DEF Program, Executes
<1>2. CASE Derail \/ Die
  BY <1>2, ZenonT(60) DEF Derail, Die
<1>3. CASE Begin
  BY <1>3 DEF Begin, Steps, PtraceSteps
<1>4. CASE Syscall
  BY <1>4 DEF Syscall, Executes, Enomem, SysMmap
<1>5. CASE Trap \/ HandleSignal
  BY <1>5 DEF Trap, HandleSignal, Executes
<1>6. CASE Fail \/ Attach \/ Transfer
  BY <1>6, ZenonT(60) DEF Fail, Attach, Transfer, Steps, PtraceSteps
<1>7. CASE WaitStop
  BY <1>7 DEF WaitStop, Wait, Steps, PtraceSteps
<1>8. CASE GetRegs \/ PeekData
  BY <1>8 DEF GetRegs, PeekData, Steps, PtraceSteps
<1>9. CASE SetRegs
  <2>1. regs' \in CallRegs
    BY <1>9 DEF SetRegs
  <2> QED
    BY <1>9, <2>1 DEF SetRegs, Steps, PtraceSteps
<1>10. CASE PokeData \/ Cont \/ WaitTrap
  BY <1>10 DEF PokeData, Cont, WaitTrap, Wait, Steps, PtraceSteps
<1>11. CASE GetResult
  <2>1. address' \in {SysMmap, Enomem} \union 1..MaxAddr
    BY <1>11 DEF GetResult
  <2>2. regs' \in CallRegs /\ pc' = "restoreregs"
    BY <1>11 DEF GetResult
  <2> QED
    BY <1>11, <2>1, <2>2 DEF GetResult, Steps, PtraceSteps
<1>12. CASE RestoreRegs
  BY <1>12 DEF RestoreRegs, Steps, PtraceSteps
<1>13. CASE RestoreWord
  BY <1>13 DEF RestoreWord, Steps, PtraceSteps
<1>14. CASE Detach
  BY <1>14 DEF Detach, Steps, PtraceSteps
<1>15. CASE UNCHANGED vars
  BY <1>15 DEF vars
<1> QED
  BY <1>1, <1>2, <1>3, <1>4, <1>5, <1>6, <1>7, <1>8, <1>9, <1>10, <1>11, <1>12,
     <1>13, <1>14, <1>15 DEF Next, Kernel, Tracer

\* In every behaviour each variable has its type, and what allocate_memory has
\* backed up to be put back are registers of the program.
THEOREM TypeCorrect == Spec => []TypeOK
<1>1. Spec => [](TypeOK /\ Home)
  BY TypeInit, TypeStep, PTL DEF Spec
<1> QED
  BY <1>1, PTL

-----------------------------------------------------------------------------
(* The refinement.                                                         *)

\* Without other signals the thread stops only for the SIGSTOP of the attach
\* and for the trap behind the system call.
Stops ==
    /\ pc \in {"idle", "attach"} => ~traced /\ pending = {} /\ thread # "stopped"
    /\ pc \notin {"idle", "attach", "aborted"} => traced
    /\ thread # "halted"
    /\ pc = "waitstop" => thread = "dead" \/ (thread = "running" <=> pending = {"SIGSTOP"})
    /\ pc = "waitstop" => pending \subseteq {"SIGSTOP"}
    /\ pc \in Held \union {"waittrap"} => thread = "dead" \/ pending = {}
    /\ pc = "aborted" => thread = "dead"

\* What is in the registers and in the eight bytes of code.
Swapped ==
    /\ pc \in {"peek", "setregs"} => origRegs = regs
    /\ pc \in {"setregs", "poke"} => thread = "dead" \/ origWord = "program"
    /\ pc \in {"cont", "waittrap", "getresult", "restoreregs", "restoreword"}
          => word = "injected" /\ origWord = "program"
    /\ pc \in {"idle", "attach", "waitstop", "getregs", "peek", "setregs", "poke", "transfer", "detach"}
          => word = "program"
    /\ pc \in {"poke", "cont"} => regs.ip = "syscall"
    /\ pc \in {"waittrap", "getresult"} /\ thread = "stopped" => regs.ip = "past"
    /\ pc = "waittrap" /\ thread = "running" => regs.ip # "past"
    /\ pc = "restoreregs" => regs.ip = "past" /\ regs.rax = address
    /\ pc = "restoreword" => regs = origRegs
    /\ regs.ip \in {"trap", "past"} => regs.rax # None

\* The operation and its result.
Called ==
    /\ pc = "idle" <=> op = "none"
    /\ pc \in {"transfer"} => op = "access"
    /\ pc \in Saved \union {"getregs"} => op = "allocate"
    /\ pc \in {"restoreregs", "restoreword", "detach", "aborted"} \/ address = None
    /\ pc \in {"restoreregs", "restoreword", "detach"} => address # None

IInv == TypeOK /\ Home /\ Stops /\ Swapped /\ Called

\* The program runs with its own registers and code.
LEMMA InvInit == Init => IInv
<1> SUFFICES ASSUME Init PROVE Stops /\ Swapped /\ Called
  BY TypeInit DEF IInv
<1>1. regs.ip = "program"
  BY DEF Init, ProgramRegs
<1> QED
  BY <1>1 DEF Init, Stops, Swapped, Called, Held, Saved

\* Every step between the attach and the detach keeps what the thread, its
\* registers and the code swapped in have to do with each other; without
\* signals from elsewhere, each stop is the one waited for.
LEMMA InvStep == OtherSignals = FALSE /\ IInv /\ [Next]_vars => IInv'
<1> SUFFICES ASSUME OtherSignals = FALSE, IInv, [Next]_vars PROVE IInv'
  OBVIOUS
<1>1. TypeOK' /\ Home'
  BY TypeStep DEF IInv
<1> USE DEF Stops, Swapped, Called, Held, Saved, tracer, target
<1>2. CASE Program
  <2>1. Stops'
    BY <1>2 DEF IInv, Program
  <2>2. Swapped'
    BY <1>1, <1>2 DEF IInv, TypeOK, Home, Program, Executes, ProgramRegs, CallRegs, Exchanged
  <2>3. Called'
    BY <1>2 DEF IInv, Program
  <2> QED
    BY <1>1, <2>1, <2>2, <2>3 DEF IInv
<1>3. CASE Derail \/ Die
  BY <1>1, <1>3 DEF IInv, Derail, Die
<1>4. CASE Begin
  BY <1>1, <1>4 DEF IInv, Begin
<1>5. CASE Syscall
  <2>1. pc = "waittrap"
    BY <1>5 DEF IInv, Home, TypeOK, Steps, PtraceSteps, Syscall, Executes
  <2>2. regs'.ip = "trap" /\ regs'.rax # None
    BY <1>5, ConstAssumption DEF IInv, TypeOK, Syscall, Enomem, None
  <2> QED
    BY <1>1, <1>5, <2>1, <2>2 DEF IInv, Syscall, Executes
<1>6. CASE Trap
  <2>1. pc = "waittrap"
    BY <1>6 DEF IInv, Home, TypeOK, Steps, PtraceSteps, Trap, Executes
  <2>2. regs'.ip = "past" /\ regs'.rax = regs.rax
    BY <1>6, <2>1 DEF IInv, Home, CallRegs, Trap
  <2> QED
    BY <1>1, <1>6, <2>1, <2>2 DEF IInv, Trap, Executes
<1>7. CASE HandleSignal
  BY <1>1, <1>7 DEF IInv, HandleSignal, TypeOK
<1>8. CASE Fail \/ Transfer
  BY <1>1, <1>8 DEF IInv, Fail, Transfer, PtraceSteps, Stored, None
<1>9. CASE Attach
  BY <1>1, <1>9 DEF IInv, Attach, TypeOK
<1>10. CASE WaitStop
  <2>1. thread = "dead" \/ pending = {}
    BY <1>10 DEF IInv, WaitStop, Wait
  <2>2. pc = "waitstop" /\ pc' = IF op = "allocate" THEN "getregs" ELSE "transfer"
    BY <1>10 DEF WaitStop, Wait
  <2>3. op \in {"allocate", "access"}
    BY <2>2 DEF IInv, TypeOK
  <2> QED
    BY <1>1, <1>10, <2>1, <2>2, <2>3 DEF IInv, WaitStop, Wait
<1>11. CASE GetRegs
  BY <1>1, <1>11 DEF IInv, GetRegs
<1>12. CASE PeekData
  <2>1. thread = "dead" \/ origWord' = "program"
    BY <1>12 DEF IInv, Home, PeekData
  <2> QED
    BY <1>1, <1>12, <2>1 DEF IInv, PeekData
<1>13. CASE SetRegs
  BY <1>1, <1>13 DEF IInv, SetRegs
<1>14. CASE PokeData \/ Cont
  BY <1>1, <1>14 DEF IInv, PokeData, Cont
<1>15. CASE WaitTrap
  BY <1>1, <1>15 DEF IInv, WaitTrap, Wait
<1>16. CASE GetResult
  BY <1>1, <1>16 DEF IInv, GetResult
<1>17. CASE RestoreRegs
  <2>1. regs'.ip = "program"
    BY <1>17 DEF IInv, TypeOK, ProgramRegs, RestoreRegs
  <2> QED
    BY <1>1, <1>17, <2>1 DEF IInv, RestoreRegs
<1>18. CASE RestoreWord
  BY <1>1, <1>18 DEF IInv, RestoreWord
<1>19. CASE Detach
  BY <1>1, <1>19 DEF IInv, Detach
<1>20. CASE UNCHANGED vars
  BY <1>1, <1>20 DEF IInv, vars
<1> QED
  BY <1>2, <1>3, <1>4, <1>5, <1>6, <1>7, <1>8, <1>9, <1>10, <1>11, <1>12, <1>13,
     <1>14, <1>15, <1>16, <1>17, <1>18, <1>19, <1>20 DEF Next, Kernel, Tracer

-----------------------------------------------------------------------------

\* At first the memory operation has not begun.
LEMMA RefineInit == Init => Memory!Init
BY DEF Init, Memory!Init, ProgramRegs, None, Memory!None

\* Each step is one of TargetMemory or changes nothing it sees.
LEMMA RefineStep == IInv /\ [Next]_vars => [Memory!Next]_(Memory!vars)
<1> SUFFICES ASSUME IInv, [Next]_vars PROVE [Memory!Next]_(Memory!vars)
  OBVIOUS
<1> USE DEF Memory!vars, Memory!None, None, tracer, target
<1>1. CASE Program
  <2>1. Memory!Run
    BY <1>1 DEF Program, Executes, Memory!Run, IInv, TypeOK, ProgramRegs, CallRegs
  <2> QED
    BY <2>1 DEF Memory!Next
<1>2. CASE Derail \/ Die
  <2>1. Memory!Die
    BY <1>2 DEF Derail, Die, Memory!Die
  <2> QED
    BY <2>1 DEF Memory!Next
<1>3. CASE Begin
  <2>1. Memory!Begin
    BY <1>3 DEF Begin, Memory!Begin, IInv, Called
  <2> QED
    BY <2>1 DEF Memory!Next
<1>4. CASE Syscall
  <2>1. Memory!Allocate
    BY <1>4 DEF Syscall, Executes, Memory!Allocate, Memory!Enomem, Enomem,
      IInv, TypeOK, Steps, PtraceSteps, Home, Held, Saved, Stops, Swapped, Called
  <2> QED
    BY <2>1 DEF Memory!Next
<1>5. CASE Trap \/ HandleSignal
  BY <1>5 DEF Trap, HandleSignal, Executes, IInv, TypeOK, ProgramRegs, CallRegs
<1>6. CASE Fail
  <2>1. Memory!Fail
    BY <1>6 DEF Fail, PtraceSteps, Memory!Fail, IInv, TypeOK, Called
  <2> QED
    BY <2>1 DEF Memory!Next
<1>7. CASE Attach \/ WaitStop \/ WaitTrap
  BY <1>7 DEF Attach, WaitStop, WaitTrap, Wait
<1>8. CASE Transfer
  <2>1. Memory!Access
    BY <1>8 DEF Transfer, Memory!Access, Stored, Memory!Stored, IInv, Called
  <2> QED
    BY <2>1 DEF Memory!Next
<1>9. CASE GetRegs \/ PeekData
  BY <1>9 DEF GetRegs, PeekData, IInv, Home, Exchanged, ProgramRegs, Swapped
<1>10. CASE SetRegs
  BY <1>10 DEF SetRegs, IInv, TypeOK, Swapped
<1>11. CASE PokeData \/ Cont
  BY <1>11 DEF PokeData, Cont, IInv, Swapped, Called
<1>12. CASE GetResult
  BY <1>12 DEF GetResult, IInv, Swapped
<1>13. CASE RestoreRegs
  BY <1>13 DEF RestoreRegs, IInv, TypeOK, ProgramRegs, Saved, Swapped
<1>14. CASE RestoreWord
  BY <1>14 DEF RestoreWord, IInv, Swapped
<1>15. CASE Detach
  <2>1. Memory!Return
    BY <1>15 DEF Detach, Memory!Return, IInv, Home, Exchanged, ProgramRegs, Swapped, Called
  <2> QED
    BY <2>1 DEF Memory!Next
<1>16. CASE UNCHANGED vars
  BY <1>16 DEF vars
<1> QED
  BY <1>1, <1>2, <1>3, <1>4, <1>5, <1>6, <1>7, <1>8, <1>9, <1>10, <1>11, <1>12,
     <1>13, <1>14, <1>15, <1>16 DEF Next, Kernel, Tracer

\* When nobody else sends signals, every operation of the reloader is one step
\* for the program, which never sees what allocate_memory puts into its
\* registers and its code, however many threads it has and whenever it dies.
THEOREM AlwaysAtomic == OtherSignals = FALSE => (Spec => Atomic)
<1> SUFFICES ASSUME OtherSignals = FALSE PROVE Spec => Atomic
  OBVIOUS
<1>1. IInv /\ [Next]_vars => IInv'
  BY InvStep
<1>2. Spec => []IInv
  BY InvInit, <1>1, PTL DEF Spec
<1> QED
  BY <1>2, RefineInit, RefineStep, PTL DEF Spec, Atomic, Memory!Spec
==============================================================================
