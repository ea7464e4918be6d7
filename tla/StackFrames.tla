---------------------------- MODULE StackFrames ----------------------------
(***************************************************************************)
(* Machine code that lays out and uses stack frames, and a machine that    *)
(* runs it.  A program is a set of functions that call each other in a     *)
(* fixed order; the code of a function is its prolog, a body that reads    *)
(* its parameters, writes its slots and its registers, calls, and finds    *)
(* its slots again, and its epilog.  Values are tokens that say where they *)
(* come from, memory is a map from addresses of bytes.                     *)
(***************************************************************************)
EXTENDS Integers, Sequences, FiniteSets, SequencesExt, FiniteSetsExt, TLC

-----------------------------------------------------------------------------
(***************************************************************************)
(* The three calling conventions, c in "sysv", "ms" and "aapcs": where     *)
(* arguments go, how the regions of a stack frame are laid out, and what a *)
(* function does to the stack before and after its body.  A machine        *)
(* function f is a record:                                                 *)
(*   params    of every parameter its type ("int" or "fp") and the size of *)
(*             the slot of type ARG_STORE it is kept in, 0 without one     *)
(*   locals    the sizes of the slots of type GENERIC: allocas and spills  *)
(*   modified  the non-volatile registers its body writes, in order        *)
(*   calls     the types of the arguments of its calls                     *)
(* Variadic calls are left out.                                            *)
(***************************************************************************)

ArgRegsInt(c) == CASE c = "sysv" -> <<"rdi", "rsi", "rdx", "rcx", "r8", "r9">>
                   [] c = "ms" -> <<"rcx", "rdx", "r8", "r9">>
                   [] c = "aapcs" -> <<"x0", "x1", "x2", "x3", "x4", "x5", "x6", "x7">>
ArgRegsFp(c) == CASE c = "sysv" -> <<"xmm0", "xmm1", "xmm2", "xmm3", "xmm4", "xmm5", "xmm6", "xmm7", "xmm8">>
                  [] c = "ms" -> <<"xmm0", "xmm1", "xmm2", "xmm3">>
                  [] c = "aapcs" -> <<"v0", "v1", "v2", "v3", "v4", "v5", "v6", "v7">>
ArgRegs(c, type) == IF type = "fp" THEN ArgRegsFp(c) ELSE ArgRegsInt(c)

\* The registers that the tables of volatile registers leave out: a call keeps them.
NonVolatile(c) == CASE c = "sysv" -> {"rbx", "r12", "r13", "r14", "r15"}
                    [] c = "ms" -> {"rbx", "rsi", "rdi", "r12", "r13", "r14", "r15"}
                                   \cup {"xmm6", "xmm7", "xmm8", "xmm9", "xmm10", "xmm11", "xmm12", "xmm13", "xmm14", "xmm15"}
                    [] c = "aapcs" -> {"x19", "x20", "x21", "x22", "x23", "x24", "x25", "x26", "x27", "x28", "x29", "x30"}
                                      \cup {"v8", "v9", "v10", "v11", "v12", "v13", "v14", "v15", "v16", "v17", "v18", "v19",
                                            "v20", "v21", "v22", "v23", "v24", "v25", "v26", "v27", "v28", "v29", "v30"}
SseRegs == {"xmm6", "xmm7", "xmm8", "xmm9", "xmm10", "xmm11", "xmm12", "xmm13", "xmm14", "xmm15"}
Gprs(f) == SelectSeq(f.modified, LAMBDA r : r \notin SseRegs)
Sse(f) == SelectSeq(f.modified, LAMBDA r : r \in SseRegs)

Align(n, to) == ((n + to - 1) \div to) * to
\* The offsets of slots of these sizes, one below the other from an offset on.
Below(top, sizes) == FoldLeft(LAMBDA s, n : Append(s, (IF s = <<>> THEN top ELSE Last(s)) - n), <<>>, sizes)
Lowest(top, offsets) == IF offsets = <<>> THEN top ELSE Last(offsets)

-----------------------------------------------------------------------------
(* Arguments.  A place is a register or a slot of the stack, by its number *)
(* in the region of the caller that holds them.                            *)

InReg(r) == [reg |-> r]
OnStack(n) == [stack |-> n]
IsReg(place) == "reg" \in DOMAIN place

\* How many parameters before the i-th are of its kind.
SameBefore(types, i) == Cardinality({j \in 1..i - 1 : types[j] = types[i]})
Fits(c, types, i) == SameBefore(types, i) < Len(ArgRegs(c, types[i]))
StackBefore(c, types, i) == Cardinality({j \in 1..i - 1 : ~Fits(c, types, j)})

StorageByPosition(c, types, i) ==   \* mutant: the parameters on the stack are numbered by position
    IF c # "ms" /\ Fits(c, types, i) THEN InReg(ArgRegs(c, types[i])[SameBefore(types, i) + 1])
    ELSE IF c = "ms" /\ i <= 4 THEN InReg(ArgRegs(c, types[i])[i]) ELSE OnStack(i - 1)
\* get_arg_storage: where a function finds its i-th parameter.
ArgStorage(c, types, i) ==
    IF c = "ms" THEN IF i <= 4 THEN InReg(ArgRegs(c, types[i])[i]) ELSE OnStack(i - 1)
    ELSE IF Fits(c, types, i) THEN InReg(ArgRegs(c, types[i])[SameBefore(types, i) + 1])
         ELSE OnStack(StackBefore(c, types, i))

\* lower_call: where a caller puts its i-th argument.  AAPCSCallingConv::emit_arg_moves counts positions.
ArgPlace(c, types, i) ==
    CASE c = "sysv" -> ArgStorage(c, types, i)
      [] c = "ms" -> IF i <= 4 THEN InReg(ArgRegs(c, types[i])[i]) ELSE OnStack(i - 5)
      [] c = "aapcs" -> IF i <= 8 THEN InReg(ArgRegs(c, types[i])[SameBefore(types, i) + 1]) ELSE OnStack(i - 9)

\* The slots of type CALL_ARG: those of one call are used again by the next.
CallArgSlots(c, f) ==
    Max({0} \cup {Cardinality({i \in DOMAIN f.calls[k] : ~IsReg(ArgPlace(c, f.calls[k], i))}) : k \in DOMAIN f.calls})

-----------------------------------------------------------------------------
(* The regions of the frame, from the top of it down to the stack pointer: *)
(* the implicit region (return address and what the prolog pushes), the    *)
(* kept arguments, the generic slots and the arguments of calls.           *)

\* create_implicit_region; a non-volatile SSE register is saved in a slot of its own.
SavedRegSize(c, f) == IF c = "aapcs" THEN 8 * Len(f.modified) ELSE 8 * Len(Gprs(f))
ImplicitSize(c, f) == SavedRegSize(c, f) + (IF c = "ms" THEN 8 ELSE 16)

Params(f) == [i \in DOMAIN f.params |-> f.params[i].type]
StackParams(c, f) == SelectSeq([i \in DOMAIN f.params |-> i], LAMBDA i : ~IsReg(ArgStorage(c, Params(f), i)))
Stores(f) == SelectSeq([i \in DOMAIN f.params |-> i], LAMBDA i : f.params[i].slot > 0)

\* The slots of type GENERIC in the order in which they are created: parameters on the stack get
\* theirs from lower_param and an offset of its own later.
GenericSlots(c, f) ==
    [k \in DOMAIN StackParams(c, f) |-> [id |-> <<"param", StackParams(c, f)[k]>>, size |-> 8]]
    \o [k \in DOMAIN f.locals |-> [id |-> <<"local", k>>, size |-> f.locals[k]]]
    \o [k \in DOMAIN Sse(f) |-> [id |-> <<"save", Sse(f)[k]>>, size |-> 8]]

\* create_arg_store_region: offsets from the stack pointer before the allocation.  In the convention of
\* Microsoft the arguments are kept in the 32 bytes (and more) that the caller leaves for them.
ArgStoreOffsets(c, f) ==
    IF c = "ms" THEN Reverse(Below(ImplicitSize(c, f) + 8 * Len(Stores(f)), [k \in DOMAIN Stores(f) |-> 8]))
    ELSE Below(0, [k \in DOMAIN Stores(f) |-> f.params[Stores(f)[k]].slot])
ArgStoreSize(c, offsets) == IF c = "ms" THEN 0 ELSE Lowest(0, offsets)

GenericFromTop(top, slots) ==   \* mutant: the generic slots overlap the kept arguments
    Below(0, [k \in DOMAIN slots |-> Align(slots[k].size, 8)])
\* create_generic_region, below the kept arguments.
GenericOffsets(top, slots) == Below(top, [k \in DOMAIN slots |-> Align(slots[k].size, 8)])
GenericSize(top, offsets) == -(Lowest(top, offsets) + top)

\* create_call_arg_region: the size, and the offset of a slot from the stack pointer.
HomeSize(c) == IF c = "ms" THEN 32 ELSE 0
CallArgSize(c, f) == IF c = "ms" /\ f.calls = <<>> THEN 0 ELSE HomeSize(c) + 8 * CallArgSlots(c, f)
CallArgOffset(c, n) == HomeSize(c) + 8 * n

AllocaUnsaved(c, f, minimum) ==   \* mutant: saved registers are forgotten in the alignment
    Align(minimum, 16) + (IF c = "aapcs" THEN 16 ELSE 0)
\* get_alloca_size: what the prolog subtracts from the stack pointer, for this much below the kept arguments.
AllocaSize(c, f, minimum) ==
    CASE c = "sysv" -> Align(minimum + SavedRegSize(c, f), 16) - SavedRegSize(c, f)
      [] c = "ms" -> IF CallArgSize(c, f) = 0 THEN minimum
                     ELSE Align(minimum + ImplicitSize(c, f), 16) - ImplicitSize(c, f)
      [] c = "aapcs" -> Align(minimum, 16) + 16

\* StackFramePass::run: the size of the frame and the offset of every slot from the stack pointer of the body.
FrameOf(c, f) ==
    LET stores == ArgStoreOffsets(c, f)
        top == ArgStoreSize(c, stores)
        slots == GenericSlots(c, f)
        generic == GenericOffsets(top, slots)
        alloca == AllocaSize(c, f, top + GenericSize(top, generic) + CallArgSize(c, f))
        total == alloca + ImplicitSize(c, f)
    IN [alloca |-> alloca,
        store |-> [i \in Range(Stores(f)) |-> alloca + stores[SelectInSeq(Stores(f), LAMBDA j : j = i)]],
        generic |-> [id \in {slots[k].id : k \in DOMAIN slots} |->
                        alloca + generic[CHOOSE k \in DOMAIN slots : slots[k].id = id]],
        param |-> [i \in Range(StackParams(c, f)) |-> total + 8 * ArgStorage(c, Params(f), i).stack]]

-----------------------------------------------------------------------------
(* The instructions around the body.                                       *)

\* AAPCSCallingConv moves the stack pointer by 16 for every register.
PushSize(c) == IF c = "aapcs" THEN 16 ELSE 8
Push(c, r) == [op |-> "push", reg |-> r, by |-> PushSize(c)]
Pop(c, r) == [op |-> "pop", reg |-> r, by |-> PushSize(c)]
MoveSp(n) == [op |-> "move_sp", by |-> n]
Save(frame, r) == [op |-> "store", value |-> <<"reg", r>>, at |-> frame.generic[<<"save", r>>], size |-> 8]
Restore(frame, r) == [op |-> "load", reg |-> r, at |-> frame.generic[<<"save", r>>]]

Prolog(c, f, frame) ==
    [k \in DOMAIN Gprs(f) |-> Push(c, Gprs(f)[k])]
    \o (CASE c = "sysv" -> <<Push(c, "rbp"), [op |-> "frame_pointer"]>>
          [] c = "ms" -> <<>>
          [] c = "aapcs" -> <<[op |-> "push_pair"]>>)
    \o <<MoveSp(-frame.alloca)>>
    \o (IF c = "aapcs" THEN <<>> ELSE [k \in DOMAIN Sse(f) |-> Save(frame, Sse(f)[k])])

Epilog(c, f, frame) ==
    (IF c = "aapcs" THEN <<>> ELSE [k \in DOMAIN Sse(f) |-> Restore(frame, Sse(f)[k])])
    \o <<MoveSp(frame.alloca)>>
    \o (CASE c = "sysv" -> <<Pop(c, "rbp")>> [] c = "ms" -> <<>> [] c = "aapcs" -> <<[op |-> "pop_pair"]>>)
    \o Reverse([k \in DOMAIN Gprs(f) |-> Pop(c, Gprs(f)[k])])

\* AArch64StackAddrFixupPass: an offset that the instruction cannot hold is computed in the scratch register.
Scratch == "x28"
LoadStoreEncodable(n) == n \in -256..255 \/ (n \in 0..32760 /\ n % 8 = 0)
AddEncodable(n) == n < 4096
FixedUp(c, ins) ==
    IF c = "aapcs" /\ "at" \in DOMAIN ins
          /\ ~(IF "array" \in DOMAIN ins THEN AddEncodable(ins.at) ELSE LoadStoreEncodable(ins.at))
    THEN <<[op |-> "scratch", by |-> ins.at], ins @@ [scratch |-> TRUE]>>
    ELSE <<ins>>

-----------------------------------------------------------------------------

CONSTANTS Programs,   \* of every program its convention and its functions
          StackTop,   \* where the stack pointer is before main is called
          Main        \* the function that is called first

VARIABLES conv, code,   \* the convention and the code of every function
          regs, sp, mem,
          made,         \* calls made so far: the number of an activation
          acts          \* the activations: function, number, next instruction and the state at entry
vars == <<conv, code, regs, sp, mem, made, acts>>

-----------------------------------------------------------------------------
(* The code of a function, as the lowering and the passes leave it.        *)

\* lower_loadarg, and the store to the slot that keeps the argument.
LoadArg(c, f, frame, i) ==
    LET place == ArgStorage(c, Params(f), i)
    IN IF IsReg(place) THEN [op |-> "move", reg |-> "arg", value |-> <<"reg", place.reg>>, param |-> i]
       ELSE [op |-> "load", reg |-> "arg", at |-> frame.param[i], param |-> i]
KeepArg(f, frame, i) ==
    IF f.params[i].slot = 0 THEN <<>>
    ELSE <<[op |-> "store", value |-> <<"reg", "arg">>, at |-> frame.store[i], size |-> f.params[i].slot]>>
LoadArgs(c, f, frame) == FlattenSeq([i \in DOMAIN f.params |-> <<LoadArg(c, f, frame, i)>> \o KeepArg(f, frame, i)])

\* The body's own use of its slots: a slot of more than 16 bytes is an array, reached by its address.
Access(op, at, value, size) ==
    LET ins == [op |-> op, value |-> value, at |-> at, size |-> size]
    IN IF size > 16 THEN ins @@ [array |-> TRUE] ELSE ins
AccessLocal(op, f, frame, k) == Access(op, frame.generic[<<"local", k>>], <<"local", k>>, f.locals[k])
Fill(f, frame) == [k \in DOMAIN f.locals |-> AccessLocal("store", f, frame, k)]
Find(f, frame) ==
    [k \in DOMAIN f.locals |-> AccessLocal("find", f, frame, k)]
    \o [k \in DOMAIN Stores(f) |->
           LET i == Stores(f)[k] IN Access("find", frame.store[i], <<"arg", i>>, f.params[i].slot)]
Overwrite(f) == [k \in DOMAIN f.modified |-> [op |-> "move", reg |-> f.modified[k], value |-> <<"result", k>>]]

\* lower_call: the moves of the arguments and the call.
PassArg(c, types, i) ==
    LET place == ArgPlace(c, types, i)
    IN IF IsReg(place) THEN [op |-> "move", reg |-> place.reg, value |-> <<"pass", i>>]
       ELSE [op |-> "store", value |-> <<"pass", i>>, at |-> CallArgOffset(c, place.stack), size |-> 8]
LowerCall(c, callee, types) ==
    [i \in DOMAIN types |-> PassArg(c, types, i)] \o <<[op |-> "call", callee |-> callee]>>

\* StackFramePass, PrologEpilogPass and, on AArch64, AArch64StackAddrFixupPass.
Compile(c, program, n) ==
    LET fun == program[n]
        f == [params |-> fun.params, locals |-> fun.locals, modified |-> fun.modified,
              calls |-> [k \in DOMAIN fun.calls |-> Params(program[fun.calls[k]])]]
        frame == FrameOf(c, f)
        body == LoadArgs(c, f, frame) \o Overwrite(f) \o Fill(f, frame)
                \o FlattenSeq([k \in DOMAIN f.calls |-> LowerCall(c, fun.calls[k], f.calls[k]) \o Find(f, frame)])
                \o Find(f, frame)
        all == Prolog(c, f, frame) \o body \o Epilog(c, f, frame) \o <<[op |-> "ret"]>>
    IN FlattenSeq([k \in DOMAIN all |-> FixedUp(c, all[k])])

-----------------------------------------------------------------------------
(* The machine.                                                            *)

Registers(c) == NonVolatile(c) \cup Range(ArgRegsInt(c)) \cup Range(ArgRegsFp(c)) \cup {"rbp", "arg"}

Top == Last(acts)
Instr == code[Top.func][Top.pc]
At(op) == acts # <<>> /\ Instr.op = op
Advanced == [acts EXCEPT ![Len(acts)].pc = @ + 1]

\* The offset that an instruction of AArch64 holds (encode_addr, encode_add_family): aligned to 8 and not negative
\* in twelve bits, otherwise in nine bits with a sign; twelve bits in an addition.
Held(ins) ==
    CASE conv # "aapcs" -> ins.at
      [] "array" \in DOMAIN ins -> ins.at % 4096
      [] ins.at >= 0 /\ ins.at % 8 = 0 -> ins.at % 32768
      [] OTHER -> ((ins.at + 256) % 512) - 256
Address(ins) == sp + (IF "scratch" \in DOMAIN ins THEN regs[Scratch][2] ELSE Held(ins))

\* The first and the last word of a slot.
Edges(a, size) == a..a + 7 \cup a + size - 8..a + size - 1
Written(a, size, v) == [x \in Edges(a, size) |-> v] @@ mem
Read(a, size) == {IF x \in DOMAIN mem THEN mem[x] ELSE <<"nothing">> : x \in Edges(a, size)}
Word(a) == IF Cardinality(Read(a, 8)) = 1 THEN CHOOSE v \in Read(a, 8) : TRUE ELSE <<"pieces">>

Value(v) == CASE v[1] = "reg" -> regs[v[2]]
              [] v[1] = "pass" -> <<"arg", v[2], made + 1>>
              [] OTHER -> Append(v, Top.id)

PushStep == /\ At("push")
            /\ sp' = sp - Instr.by
            /\ mem' = Written(sp', 8, regs[Instr.reg])
            /\ acts' = Advanced
            /\ UNCHANGED <<conv, code, regs, made>>
PopStep == /\ At("pop")
           /\ regs' = [regs EXCEPT ![Instr.reg] = Word(sp)]
           /\ sp' = sp + Instr.by
           /\ acts' = Advanced
           /\ UNCHANGED <<conv, code, mem, made>>
\* stp x29, x30, [sp, #-16]! and ldp x29, x30, [sp], #16
PushPair == /\ At("push_pair")
            /\ sp' = sp - 16
            /\ mem' = [x \in sp - 16..sp - 1 |-> IF x < sp - 8 THEN regs["x29"] ELSE regs["x30"]] @@ mem
            /\ acts' = Advanced
            /\ UNCHANGED <<conv, code, regs, made>>
PopPair == /\ At("pop_pair")
           /\ regs' = [regs EXCEPT !["x29"] = Word(sp), !["x30"] = Word(sp + 8)]
           /\ sp' = sp + 16
           /\ acts' = Advanced
           /\ UNCHANGED <<conv, code, mem, made>>
MoveSpStep == /\ At("move_sp")
              /\ sp' = sp + Instr.by
              /\ acts' = Advanced
              /\ UNCHANGED <<conv, code, regs, mem, made>>
FramePointer == /\ At("frame_pointer")
                /\ regs' = [regs EXCEPT !["rbp"] = <<"address", sp>>]
                /\ acts' = Advanced
                /\ UNCHANGED <<conv, code, sp, mem, made>>
ScratchStep == /\ At("scratch")
               /\ regs' = [regs EXCEPT ![Scratch] = <<"offset", Instr.by>>]
               /\ acts' = Advanced
               /\ UNCHANGED <<conv, code, sp, mem, made>>
Move == /\ At("move")
        /\ regs' = [regs EXCEPT ![Instr.reg] = Value(Instr.value)]
        /\ acts' = Advanced
        /\ UNCHANGED <<conv, code, sp, mem, made>>
Load == /\ At("load")
        /\ regs' = [regs EXCEPT ![Instr.reg] = Word(Address(Instr))]
        /\ acts' = Advanced
        /\ UNCHANGED <<conv, code, sp, mem, made>>
Store == /\ At("store")
         /\ mem' = Written(Address(Instr), Instr.size, Value(Instr.value))
         /\ acts' = Advanced
         /\ UNCHANGED <<conv, code, regs, sp, made>>
FindStep == /\ At("find")
            /\ acts' = Advanced
            /\ UNCHANGED <<conv, code, regs, sp, mem, made>>

\* The activation that a call makes: the return address is pushed, or put into the link register.
Enter(n) ==
    LET return == <<"return", made + 1>>
        entered == IF conv = "aapcs" THEN [regs EXCEPT !["x30"] = return] ELSE regs
    IN /\ sp' = IF conv = "aapcs" THEN sp ELSE sp - 8
       /\ mem' = IF conv = "aapcs" THEN mem ELSE Written(sp - 8, 8, return)
       /\ regs' = entered
       /\ made' = made + 1
       /\ acts' = Append(IF acts = <<>> THEN <<>> ELSE Advanced,
                         [func |-> n, id |-> made + 1, pc |-> 1, sp |-> sp', regs |-> entered])
       /\ UNCHANGED <<conv, code>>
Call == At("call") /\ Enter(Instr.callee)
Start == made = 0 /\ Enter(Main)
Return == /\ At("ret")
          /\ sp' = IF conv = "aapcs" THEN sp ELSE sp + 8
          /\ acts' = Front(acts)
          /\ UNCHANGED <<conv, code, regs, mem, made>>

Init == /\ \E p \in Programs :
              /\ conv = p.conv
              /\ code = [n \in DOMAIN p.functions |-> Compile(p.conv, p.functions, n)]
        /\ regs = [r \in Registers(conv) |-> <<"outer", r>>]
        /\ sp = StackTop
        /\ mem = <<>>
        /\ made = 0
        /\ acts = <<>>
Next == \/ PushStep \/ PopStep \/ PushPair \/ PopPair \/ MoveSpStep \/ FramePointer \/ ScratchStep
        \/ Move \/ Load \/ Store \/ FindStep \/ Call \/ Start \/ Return
Spec == Init /\ [][Next]_vars

-----------------------------------------------------------------------------
\* What lower_call passed is what lower_loadarg reads: both walk the same list of types on their own,
\* the offset of an argument on the stack is computed from the frame of either side.
ArgsArrive == acts # <<>> /\ "param" \in DOMAIN Instr =>
    (IF Instr.op = "move" THEN Value(Instr.value) ELSE Word(Address(Instr))) = <<"arg", Instr.param, Top.id>>

\* A slot keeps its value until the function looks for it, over calls whose arguments and frames lie below it:
\* no two slots overlap, and none lies where the machine or another function writes.
SlotsKept == At("find") => Read(Address(Instr), Instr.size) = {Value(Instr.value)}

\* Allocatable registers that are not volatile, the frame pointer, the stack pointer and the return address
\* are at the return what they were at the entry, and the stack is aligned to 16 bytes at every call.
KeptRegs == (NonVolatile(conv) \ {Scratch}) \cup {"rbp"}
FramesRestored ==
    /\ At("ret") => /\ sp = Top.sp
                    /\ \A r \in KeptRegs : regs[r] = Top.regs[r]
                    /\ conv # "aapcs" => Word(sp) = <<"return", Top.id>>
    /\ At("call") => sp % 16 = 0

\* A caller finds its frame, its registers and its stack pointer as it left them: what the callees need
\* lies in their own frames, and each undoes what its prolog did.
FramesKept == SlotsKept /\ FramesRestored

\* The same for the scratch register, which the table of volatile registers leaves out as well.
ScratchRestored == At("ret") /\ conv = "aapcs" => regs[Scratch] = Top.regs[Scratch]
=============================================================================
