------------------------------- MODULE SsaLowerer -------------------------------
(***************************************************************************)
(* What the three lowerers share (codegen/ssa_lowerer.cpp): the slots of   *)
(* allocas, how often a register is still used, the instruction of the     *)
(* block that produces one, and the parts of an address, collected through *)
(* OFFSETPTR and MEMBERPTR.                                                *)
(*                                                                         *)
(* The state of the lowering is a record L: the machine (its architecture, *)
(* whether it is Darwin, its code model, the size of an address), the      *)
(* function, the block and the instructions emitted so far for the         *)
(* instruction at hand.  A helper of the lowerers that emits and returns   *)
(* something is an operator that returns L with the code appended and the  *)
(* operand it returns as op, the address it returns as addr.               *)
(***************************************************************************)
EXTENDS Integers, SequencesExt

-----------------------------------------------------------------------------
(***************************************************************************)
(* What a function of the SSA means, as a reference for the code generated *)
(* for it.  An operand is a tuple of its kind, its value and its type; an  *)
(* instruction has an opcode, a destination ("" if none) and operands; a   *)
(* function has the types of its parameters and blocks with parameters and *)
(* instructions.  What the source leaves undefined (a division by zero or  *)
(* with an overflow, a shift by more than the width) clears "defined".     *)
(***************************************************************************)

(***************************************************************************)
(* How many bytes a type of the SSA takes and where the members of a       *)
(* structure lie (target/standard_data_layout.cpp).  A type is a primitive *)
(* or a structure, and an array of one of them if len is not 1.  The size  *)
(* of ADDR is that of the target's usize, passed as ptr.                   *)
(***************************************************************************)

Prim(name) == [base |-> name, members |-> <<>>, union |-> FALSE, len |-> 1]
Struct(members) == [base |-> "struct", members |-> members, union |-> FALSE, len |-> 1]
Union(members) == [Struct(members) EXCEPT !.union = TRUE]
Array(type, n) == [type EXCEPT !.len = n]

IsFloat(type) == type.base \in {"F32", "F64"} /\ type.len = 1
PrimSize(name, ptr) ==
    CASE name = "VOID" -> 0
      [] name \in {"U8", "I8"} -> 1
      [] name \in {"U16", "I16"} -> 2
      [] name \in {"U32", "I32", "F32"} -> 4
      [] name \in {"U64", "I64", "F64"} -> 8
      [] name = "ADDR" -> ptr

Align(n, alignment) == ((n + alignment - 1) \div alignment) * alignment
Larger(a, b) == IF a > b THEN a ELSE b

RECURSIVE SizeOf(_, _), AlignOf(_, _)
AlignOf(type, ptr) ==
    IF type.base # "struct" THEN PrimSize(type.base, ptr)
    ELSE LET most[k \in 0..Len(type.members)] ==
                IF k = 0 THEN 0 ELSE Larger(most[k - 1], AlignOf(type.members[k], ptr))
         IN IF type.members = <<>> THEN 1 ELSE most[Len(type.members)]

\* The offset behind the first k members: each begins where its alignment allows.
Behind(members, k, ptr) ==
    LET end[j \in 0..k] == IF j = 0 THEN 0
                           ELSE Align(end[j - 1], AlignOf(members[j], ptr)) + SizeOf(members[j], ptr)
    IN end[k]
Widest(members, ptr) ==
    LET most[k \in 0..Len(members)] == IF k = 0 THEN 0 ELSE Larger(most[k - 1], SizeOf(members[k], ptr))
    IN most[Len(members)]
SizeOf(type, ptr) ==
    type.len * (IF type.base # "struct" THEN PrimSize(type.base, ptr)
                ELSE Align(IF type.union THEN Widest(type.members, ptr)
                           ELSE Behind(type.members, Len(type.members), ptr), AlignOf(type, ptr)))

\* Members are counted from 0, as in the operand of MEMBERPTR.
MemberOffset(struct, index, ptr) ==
    Align(Behind(struct.members, index, ptr), AlignOf(struct.members[index + 1], ptr))

-----------------------------------------------------------------------------
(***************************************************************************)
(* Numbers of a few bytes and memory made of bytes, for comparing programs *)
(* with the machine code generated for them.  A byte has two bits here, so *)
(* that eight bytes are a number TLC can multiply and enumerate; what the  *)
(* compiler counts in bits is counted with Bits.  The operations are those *)
(* of the processors and not code of the repository.  Floating-point       *)
(* operations are opaque: a function of the operation, the size and the    *)
(* operands that tells all of them apart, except for the negation.         *)
(***************************************************************************)

Bits(bytes) == 2 * bytes
\* W(s): the number of values of s bytes.
W(s) == <<4, 16, 64, 256, 1024, 4096, 16384, 65536>>[s]
Cut(v, s) == v % W(s)
Signed(v, s) == IF Cut(v, s) < W(s) \div 2 THEN Cut(v, s) ELSE Cut(v, s) - W(s)
\* A register of eight bytes with a value in its lower s bytes and something
\* else, not the same for every n, above it.
Filled(v, s, n) == Cut(v, s) + (IF s = 8 THEN 0 ELSE ((11645 + 15375 * n) \div W(s)) * W(s))
SignExtended(v, from, to) == Signed(v, from) % W(to)

\* A product without leaving the numbers TLC has.
Times(a, b, s) == Cut((Cut(a \div 256, s) * b % 256) * 256 + (a % 256) * b, s)

Bit(v, k) == (v \div 2 ^ k) % 2
Bitwise(op, a, b, s) ==
    LET pair(k) == Bit(a, k) + Bit(b, k)
        bit(k) == CASE op = "AND" -> pair(k) \div 2
                    [] op = "OR" -> (pair(k) + 1) \div 2
                    [] op = "XOR" -> pair(k) % 2
        sum[k \in 0..Bits(s)] == IF k = 0 THEN 0 ELSE sum[k - 1] + bit(k - 1) * 2 ^ (k - 1)
    IN sum[Bits(s)]

Quotient(a, b) == IF (a < 0) = (b < 0) THEN (IF a < 0 THEN -a ELSE a) \div (IF b < 0 THEN -b ELSE b)
                  ELSE -((IF a < 0 THEN -a ELSE a) \div (IF b < 0 THEN -b ELSE b))

\* The operations on two integers of s bytes.
Arith(op, a, b, s) ==
    CASE op = "ADD" -> Cut(a + b, s)
      [] op = "SUB" -> Cut(a - b, s)
      [] op = "MUL" -> Times(a, b, s)
      [] op \in {"AND", "OR", "XOR"} -> Bitwise(op, a, b, s)
      [] op = "UDIV" -> a \div b
      [] op = "UREM" -> a % b
      [] op = "SDIV" -> Cut(Quotient(Signed(a, s), Signed(b, s)), s)
      [] op = "SREM" -> Cut(Signed(a, s) - Quotient(Signed(a, s), Signed(b, s)) * Signed(b, s), s)
      [] op = "LSHL" -> Times(a, 2 ^ b, s)
      [] op = "LSHR" -> a \div 2 ^ b
      [] op = "ASHR" -> Cut(Signed(a, s) \div 2 ^ b, s)

SignBit(s) == W(s) \div 2
Flipped(v, s) == Cut(v + SignBit(s), s)
\* 0 - x is x with another sign; everything else is told apart.
Code(name) == CASE name = "FADD" -> 3 [] name = "FSUB" -> 5 [] name = "FMUL" -> 7 [] name = "FDIV" -> 11
                [] name = "SQRT" -> 13 [] name = "FPROMOTE" -> 17 [] name = "FDEMOTE" -> 19
                [] name = "STOF" -> 23 [] name = "FTOS" -> 31 [] name = "FTOU" -> 37
                [] name = "ROUND" -> 43
FloatOp(op, a, b, s) ==
    IF op = "FSUB" /\ a = 0 THEN Flipped(b, s)
    ELSE Cut(41 * Code(op) + s + 3 * (a % 4096) + 59 * (b % 4096) + (a \div 16) * (b % 64), s)
\* An integer has the same value in every size that has it; what a number is
\* rounded to is told apart by the operation.
Convert(op, v, from, to) ==
    LET number == IF op = "STOF" THEN Signed(v, from) ELSE v
    IN IF op \in {"STOF", "UTOF"}
       THEN Cut(Code("STOF") + 7 * (number % 4096) + 11 * (number \div 4096) + 3 * to + (IF number < 0 THEN 1000 ELSE 0), to)
       ELSE Cut(Code(op) + 7 * (v % 4096) + 11 * from + v \div 4096, to)

Compares(cmp, a, b, s) ==
    CASE cmp \in {"EQ", "FEQ"} -> a = b
      [] cmp \in {"NE", "FNE"} -> a # b
      [] cmp \in {"UGT", "FGT"} -> a > b
      [] cmp \in {"UGE", "FGE"} -> a >= b
      [] cmp \in {"ULT", "FLT"} -> a < b
      [] cmp \in {"ULE", "FLE"} -> a <= b
      [] cmp = "SGT" -> Signed(a, s) > Signed(b, s)
      [] cmp = "SGE" -> Signed(a, s) >= Signed(b, s)
      [] cmp = "SLT" -> Signed(a, s) < Signed(b, s)
      [] cmp = "SLE" -> Signed(a, s) <= Signed(b, s)

-----------------------------------------------------------------------------
(* Memory: a function from addresses to bytes, the lowest byte first.      *)
Fits(mem, at, s) == \A k \in 0..(s - 1) : at + k \in DOMAIN mem
Read(mem, at, s) ==
    LET sum[k \in 0..s] == IF k = 0 THEN 0 ELSE sum[k - 1] + mem[at + k - 1] * 4 ^ (k - 1)
    IN sum[s]
Written(mem, at, s, v) ==
    [x \in DOMAIN mem |-> IF x \in at..(at + s - 1) THEN (v \div 4 ^ (x - at)) % 4 ELSE mem[x]]
Copied(mem, from, to, s) == [x \in DOMAIN mem |-> IF x \in to..(to + s - 1) THEN mem[from + x - to] ELSE mem[x]]

-----------------------------------------------------------------------------
(* The functions of the SSA.                                               *)

Kind(o) == o[1]
Value(o) == o[2]
TypeOf(o) == o[3]
IsImmediate(o) == Kind(o) \in {"int", "fp"}
IsSymbol(o) == Kind(o) \in {"func", "extern_func", "global", "extern_global"}

Reg(name, type) == <<"reg", name, type>>
Const(n, type) == <<"int", n, type>>
Fp(n, type) == <<"fp", n, type>>
Type(type) == <<"type", 0, type>>
Comparison(cmp) == <<"cmp", cmp, Prim("VOID")>>
Target(block, args) == <<"target", [block |-> block, args |-> args], Prim("VOID")>>
Instr(op, dest, args) == [op |-> op, dest |-> dest, args |-> args]

Comparisons == {"EQ", "NE", "UGT", "UGE", "ULT", "ULE", "SGT", "SGE", "SLT", "SLE", "FEQ", "FNE", "FGT", "FGE", "FLT", "FLE"}

-----------------------------------------------------------------------------
(* The memory: two globals, the table with the address of the external     *)
(* one, floating-point constants of the generated code and the stack.      *)
GlobalAt == 8
ExternAt == 40
GotAt == 64
ConstAt == 72
StackAt == 96
SlotBytes == 16
MemoryEnd == 160
\* The functions that can be called lie outside of it.
SymbolAddr(name) ==
    CASE name = "g" -> GlobalAt [] name = "e" -> ExternAt
      [] name = "f" -> 200 [] name = "h" -> 208 [] name = "memcpy" -> 216 [] name = "sqrt" -> 224
Functions == {"f", "h", "memcpy", "sqrt"}
FunctionAt(at) == IF \E n \in Functions : SymbolAddr(n) = at THEN CHOOSE n \in Functions : SymbolAddr(n) = at ELSE "none"
\* Three floating-point numbers: 0.0, one with a short encoding, and another one.
FpBits(n, s) == CASE n = 0 -> 0 [] n = 1 -> IF s = 4 THEN 60 ELSE 16128 [] n = 2 -> IF s = 4 THEN 77 ELSE 16207
ShortFps == {0, 1}

\* The contents at the start: different in every byte, addresses in the table
\* and the numbers as constants of eight bytes.
Contents == [x \in GlobalAt..(MemoryEnd - 1) |->
    CASE x \in GotAt..(GotAt + 7) -> (ExternAt \div 4 ^ (x - GotAt)) % 4
      [] x \in ConstAt..(ConstAt + 23) -> (FpBits((x - ConstAt) \div 8, 8) \div 4 ^ ((x - ConstAt) % 8)) % 4
      [] OTHER -> (x * x + 3 * x) \div 5 % 4]

\* A call is seen from outside, gives a number and changes the external global.
Answer(name, args) ==
    LET sum[k \in 0..Len(args)] == IF k = 0 THEN SymbolAddr(name) ELSE (5 * sum[k - 1] + 3 * args[k] + k) % 65536
    IN sum[Len(args)]
AfterCall(mem, name, args) == IF name = "memcpy" THEN Copied(mem, args[2], args[1], args[3])
                              ELSE Written(mem, ExternAt, 8, Answer(name, args))

-----------------------------------------------------------------------------
RECURSIVE RunSsa(_, _, _, _)

Ssa(s, o) ==
    CASE Kind(o) = "reg" -> s.regs[Value(o)]
      [] Kind(o) = "int" -> Cut(Value(o), SizeOf(TypeOf(o), s.ptr))
      [] Kind(o) = "fp" -> FpBits(Value(o), SizeOf(TypeOf(o), s.ptr))
      [] IsSymbol(o) -> SymbolAddr(Value(o))
SsaSize(s, o) == SizeOf(TypeOf(o), s.ptr)

Undefined(op, a, b, s) ==
    CASE op \in {"UDIV", "UREM"} -> b = 0
      [] op \in {"SDIV", "SREM"} -> b = 0 \/ (a = SignBit(s) /\ b = W(s) - 1)
      [] op \in {"LSHL", "LSHR", "ASHR"} -> b >= Bits(s)
      [] OTHER -> FALSE
FloatOps == {"FADD", "FSUB", "FMUL", "FDIV"}
IntOps == {"ADD", "SUB", "MUL", "SDIV", "SREM", "UDIV", "UREM", "AND", "OR", "XOR", "LSHL", "LSHR", "ASHR"}
Conversions == {"FPROMOTE", "FDEMOTE", "STOF", "UTOF", "FTOS", "FTOU"}

SsaResult(s, i) ==
    LET a == i.args
        v(k) == Ssa(s, a[k])
        size == SsaSize(s, a[1])
    IN CASE i.op \in IntOps -> Arith(i.op, v(1), v(2), size)
         [] i.op \in FloatOps -> FloatOp(i.op, v(1), v(2), size)
         [] i.op = "SQRT" -> FloatOp("SQRT", v(1), 0, size)
         [] i.op = "LOAD" -> IF size = 0 THEN 0 ELSE Read(s.mem, v(2), size)
         [] i.op = "LOADARG" -> Cut(s.inputs[Value(a[2]) + 1], size)
         [] i.op = "SELECT" -> IF Compares(Value(a[2]), v(1), v(3), size) THEN v(4) ELSE v(5)
         [] i.op \in {"UEXTEND", "TRUNCATE"} -> Cut(v(1), SsaSize(s, a[2]))
         [] i.op = "SEXTEND" -> SignExtended(v(1), size, SsaSize(s, a[2]))
         [] i.op \in Conversions -> Convert(i.op, v(1), size, SsaSize(s, a[2]))
         [] i.op = "OFFSETPTR" -> Cut(v(1) + Signed(v(2), SsaSize(s, a[2])) * SizeOf(TypeOf(a[3]), s.ptr), s.ptr)
         [] i.op = "MEMBERPTR" -> Cut(v(2) + MemberOffset(TypeOf(a[1]), Value(a[3]), s.ptr), s.ptr)
         [] i.op = "ALLOCA" -> StackAt + SlotBytes * s.slots

SsaStep(s, i) ==
    LET a == i.args
        callArgs == [k \in 1..(Len(a) - 1) |-> Ssa(s, a[k + 1])]
        callee == IF Kind(a[1]) = "reg" THEN FunctionAt(Ssa(s, a[1])) ELSE Value(a[1])
    IN CASE i.op = "STORE" -> IF SsaSize(s, a[1]) = 0 THEN s
                              ELSE [s EXCEPT !.mem = Written(@, Ssa(s, a[2]), SsaSize(s, a[1]), Ssa(s, a[1]))]
         [] i.op = "COPY" -> [s EXCEPT !.mem = Copied(@, Ssa(s, a[2]), Ssa(s, a[1]), SsaSize(s, a[3]))]
         [] i.op = "CALL" ->
              IF callee = "none" THEN [s EXCEPT !.defined = FALSE]
              ELSE [s EXCEPT !.mem = AfterCall(@, callee, callArgs), !.calls = Append(@, <<callee, callArgs>>),
                             !.regs = IF i.dest = "" THEN @ ELSE (i.dest :> Cut(Answer(callee, callArgs), SsaSize(s, a[1]))) @@ @]
         [] i.op \in IntOps /\ Undefined(i.op, Ssa(s, a[1]), Ssa(s, a[2]), SsaSize(s, a[1])) -> [s EXCEPT !.defined = FALSE]
         [] i.op = "LOAD" /\ ~Fits(s.mem, Ssa(s, a[2]), SsaSize(s, a[1])) -> [s EXCEPT !.defined = FALSE]
         [] OTHER -> [s EXCEPT !.regs = (i.dest :> SsaResult(s, i)) @@ @, !.slots = IF i.op = "ALLOCA" THEN @ + 1 ELSE @]

\* Running from instruction k of a block on; a jump passes its arguments at once.
Enter(s, f, target) ==
    LET params == f.blocks[target.block].params
        args == [k \in DOMAIN params |-> Ssa(s, target.args[k])]
        passed == [r \in {params[k].reg : k \in DOMAIN params} |-> args[CHOOSE k \in DOMAIN params : params[k].reg = r]]
    IN RunSsa([s EXCEPT !.regs = passed @@ @, !.jumps = @ + 1], f, target.block, 1)
RunSsa(s, f, b, k) ==
    LET i == f.blocks[b].instrs[k]
    IN CASE ~s.defined \/ s.jumps > 6 -> [s EXCEPT !.defined = FALSE]
         [] s.defined /\ s.jumps <= 6 /\ i.op = "RET" ->
              [s EXCEPT !.result = IF i.args = <<>> THEN 0 ELSE Ssa(s, i.args[1])]
         [] s.defined /\ s.jumps <= 6 /\ i.op \in {"JMP", "CJMP", "FCJMP"} ->
              Enter(s, f, Value(IF i.op = "JMP" THEN i.args[1]
                                ELSE IF Compares(Value(i.args[2]), Ssa(s, i.args[1]), Ssa(s, i.args[3]), SsaSize(s, i.args[1]))
                                THEN i.args[4] ELSE i.args[5]))
         [] OTHER -> RunSsa(SsaStep(s, i), f, b, k + 1)
SsaRun(f, inputs, ptr) ==
    RunSsa([regs |-> "" :> 0, mem |-> Contents, inputs |-> inputs, calls |-> <<>>, slots |-> 0, jumps |-> 0, ptr |-> ptr,
            defined |-> TRUE, result |-> 0], f, 1, 1)

-----------------------------------------------------------------------------
X86 == "X86_64"
ARM == "AARCH64"
WASM == "WASM"
Machine(arch, darwin, large) ==
    [arch |-> arch, darwin |-> darwin, large |-> large, ptr |-> IF arch = WASM THEN 4 ELSE 8]
Size(L, type) == SizeOf(type, L.m.ptr)
SizeOfOperand(L, o) == Size(L, TypeOf(o))
NumBlocks(f) == Len(f.blocks)

-----------------------------------------------------------------------------
\* The registers among the operands of an instruction, those of its branch
\* targets included.
Operands(i) == FoldLeft(LAMBDA all, o : all \o (IF Kind(o) = "target" THEN Value(o).args ELSE <<o>>), <<>>, i.args)
Instrs(f) == FoldLeft(LAMBDA all, b : all \o b.instrs, <<>>, f.blocks)
UseCounts(f) ==
    LET uses == FoldLeft(LAMBDA all, i : all \o SelectSeq(Operands(i), LAMBDA o : Kind(o) = "reg"), <<>>, Instrs(f))
    IN [r \in {Value(uses[k]) : k \in DOMAIN uses} |-> Len(SelectSeq(uses, LAMBDA o : Value(o) = r))]
Allocas(f) == SelectSeq(Instrs(f), LAMBDA i : i.op = "ALLOCA")
\* The slots are numbered in the order of the allocas.
StackRegs(f) == [r \in {i.dest : i \in ToSet(Allocas(f))} |-> CHOOSE k \in DOMAIN Allocas(f) : Allocas(f)[k].dest = r]

GetNumUses(L, r) == IF r \in DOMAIN L.uses THEN L.uses[r] ELSE 0
DiscardUse(L, r) == [L EXCEPT !.uses = (r :> GetNumUses(L, r) - 1) @@ @]

\* get_producer_globally looks no further than the block either.
GetProducer(L, r) ==
    LET instrs == L.func.blocks[L.block].instrs
        at == {k \in DOMAIN instrs : instrs[k].dest = r}
    IN IF at = {} THEN Instr("NONE", "", <<>>) ELSE instrs[CHOOSE k \in at : \A j \in at : j <= k]

-----------------------------------------------------------------------------
Emit(L, op, operands) == [L EXCEPT !.code = Append(@, [op |-> op, args |-> operands])]
Returning(L, operand) == [L EXCEPT !.op = operand]
Then(L, emit(_)) == emit(L)
\* create_tmp_reg, create_reg and next_virtual_reg: a register of its own.
Fresh(L) == "t" \o ToString(L.next)
WithFresh(L) == [L EXCEPT !.next = @ + 1]
TmpOf(param) == "arg of " \o param

MReg(name, size) == [kind |-> "reg", reg |-> name, size |-> size]
MSlot(n, size) == [kind |-> "slot", slot |-> n, size |-> size]
MImm(n, size) == [kind |-> "imm", value |-> n, size |-> size]
MBlock(b) == [kind |-> "block", block |-> b]
WithSize(o, size) == [o EXCEPT !.size = size]
IsStackReg(L, r) == r \in DOMAIN L.slots
MapVreg(L, r, size) == IF IsStackReg(L, r) THEN MSlot(L.slots[r], size) ELSE MReg(r, size)

-----------------------------------------------------------------------------
\* An index in a register is only taken once, and not on WebAssembly.
RECURSIVE CollectAddr(_, _)
CollectFrom(L, taken, addr, producer, offset) ==
    CASE producer.op = "OFFSETPTR" /\ Kind(offset) = "int" ->
           CollectAddr(taken, [addr EXCEPT !.base = producer.args[1],
                                           !.const = @ + Size(L, TypeOf(producer.args[3])) * Value(offset)])
      [] producer.op = "OFFSETPTR" /\ Kind(offset) = "reg" /\ L.m.arch # WASM /\ addr.index = "" ->
           CollectAddr(taken, [addr EXCEPT !.base = producer.args[1], !.index = Value(offset),
                                           !.scale = Size(L, TypeOf(producer.args[3]))])
      [] producer.op = "MEMBERPTR" ->
           CollectAddr(taken, [addr EXCEPT !.base = producer.args[2],
               !.const = @ + MemberOffset(TypeOf(producer.args[1]), Value(producer.args[3]), L.m.ptr)])
      [] OTHER -> [L EXCEPT !.addr = addr]
CollectAddr(L, addr) ==
    LET producer == IF Kind(addr.base) = "reg" THEN GetProducer(L, Value(addr.base)) ELSE Instr("NONE", "", <<>>)
    IN IF producer.op \in {"OFFSETPTR", "MEMBERPTR"}
       THEN CollectFrom(L, DiscardUse(L, producer.dest), addr, producer, producer.args[2]) ELSE [L EXCEPT !.addr = addr]
Collected(L, operand) == CollectAddr(L, [base |-> operand, const |-> 0, index |-> "", scale |-> 1])
Shifted(addr, bytes) == [addr EXCEPT !.const = @ + bytes]

\* Sizes a machine has no instruction for are read and written in pieces.
Pieces(size) == CASE size = 3 -> <<2, 1>> [] size = 5 -> <<4, 1>> [] size = 6 -> <<4, 2>> [] size = 7 -> <<4, 2, 1>>
PieceAt(size, k) == IF k = 1 THEN 0 ELSE IF k = 2 THEN Pieces(size)[1] ELSE 6
IsOdd(size) == size \in {3, 5, 6, 7}

InvertComparison(cmp) ==
    CASE cmp = "EQ" -> "NE" [] cmp = "NE" -> "EQ" [] cmp = "UGT" -> "ULE" [] cmp = "UGE" -> "ULT" [] cmp = "ULT" -> "UGE"
      [] cmp = "ULE" -> "UGT" [] cmp = "SGT" -> "SLE" [] cmp = "SGE" -> "SLT" [] cmp = "SLT" -> "SGE" [] cmp = "SLE" -> "SGT"
      [] cmp = "FEQ" -> "FNE" [] cmp = "FNE" -> "FEQ" [] cmp = "FGT" -> "FLE" [] cmp = "FGE" -> "FLT" [] cmp = "FLT" -> "FGE"
      [] cmp = "FLE" -> "FGT"
IsComparisonSigned(cmp) == cmp \in {"SGT", "SGE", "SLT", "SLE"}

\* The memcpy of a copy that is too long for moves, and the sqrt of targets without one.
MemcpyCall(L, i, usize) ==
    Instr("CALL", "", <<<<"extern_func", "memcpy", Prim("VOID")>>, i.args[1], i.args[2], Const(SizeOfOperand(L, i.args[3]), usize)>>)
SqrtCall(i) == Instr("CALL", i.dest, <<<<"extern_func", "sqrt", Prim("F32")>>, i.args[1]>>)
=============================================================================
