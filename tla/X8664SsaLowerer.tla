----------------------------- MODULE X8664SsaLowerer -----------------------------
(***************************************************************************)
(* The instructions that the x86-64 back end emits for one instruction of  *)
(* the SSA (target/x86_64/x86_64_ssa_lowerer.cpp, x86_64_const_lowering    *)
(* and the calls of sys_v_calling_conv.cpp).  An operand of a machine      *)
(* instruction is a register, a stack slot, an immediate, a symbol, or an  *)
(* address with a base, a constant and a register times a scale.           *)
(***************************************************************************)
EXTENDS SsaLowerer

RAX == "RAX"
RDX == "RDX"
RCX == "RCX"
XMM0 == "XMM0"
\* The arguments are in registers, by their position among those of the same
\* kind; those that do not fit are the subject of StackFrames.
IntArgRegs == <<"RDI", "RSI", "RDX">>
FloatArgRegs == <<"XMM0", "XMM1", "XMM2">>
ArgReg(types, k) ==
    LET float == IsFloat(types[k])
    IN (IF float THEN FloatArgRegs ELSE IntArgRegs)[Cardinality({j \in 1..k : IsFloat(types[j]) = float})]

BaseReg(r) == [kind |-> "reg", reg |-> r]
BaseSlot(n) == [kind |-> "slot", slot |-> n]
BaseSymbol(name, reloc) == [kind |-> "symbol", name |-> name, reloc |-> reloc]
MAddr(base, const, index, scale, size) ==
    [kind |-> "addr", base |-> base, const |-> const, index |-> index, scale |-> scale, size |-> size]
MSymbol(name, reloc, size) == [kind |-> "symbol", name |-> name, reloc |-> reloc, size |-> size]
AddrOfSymbol(name, reloc, size) == MAddr(BaseSymbol(name, reloc), 0, "", 1, size)

MoveOpcode(type) == CASE type = Prim("F32") -> "MOVSS" [] type = Prim("F64") -> "MOVSD" [] OTHER -> "MOV"
MoveOfSize(float, size) == IF ~float THEN "MOV" ELSE IF size = 4 THEN "MOVSS" ELSE "MOVSD"
\* An operation on floating-point numbers of a size.
Scalar(op, size) == op \o (IF size = 8 THEN "SD" ELSE "SS")

\* The relocation of a symbol: Darwin has neither.
RelocOf(L, o) == IF L.m.darwin THEN "NONE"
                 ELSE CASE Kind(o) = "extern_func" -> "PLT" [] Kind(o) = "extern_global" -> "GOT" [] OTHER -> "NONE"

-----------------------------------------------------------------------------
(* Values.                                                                 *)
RECURSIVE AsOperand(_, _, _), AsMove(_, _, _), AddrMemAccess(_, _), LowerX86(_, _)

MoveIntoFresh(L, op, size, src) ==
    Returning(Emit(WithFresh(L), op, <<MReg(Fresh(L), size), src>>), MReg(Fresh(L), size))
\* Constants of the module that floating-point immediates are loaded from:
\* keeping them in registers is disabled (is_f32_used_later_on).
BaseConst(value) == [kind |-> "const", value |-> value]
FpConst(n, size) == MAddr(BaseConst(FpBits(n, size)), 0, "", 1, size)
NegZero == MAddr(BaseConst(SignBit(4)), 0, "", 1, 16)
Zeroing(size) == IF size = 4 THEN "XORPS" ELSE "XORPD"

LowerFpImmAsOperand(L, n, size) ==
    IF n = 0 THEN MoveIntoFresh(L, Zeroing(size), size, MReg(Fresh(L), size))
    ELSE MoveIntoFresh(L, MoveOfSize(TRUE, size), size, FpConst(n, size))
\* What 32 bits do not hold goes through a register.
LowerIntImmAsOperand(L, n, size) ==
    IF size = 8 /\ Cut(n, 8) >= W(4) THEN MoveIntoFresh(L, "MOV", 8, MImm(n, 8)) ELSE Returning(L, MImm(n, size))

\* The value of a load that has no other use is taken from memory, if that is allowed.
LowerRegAsOperand(L, r, size, allowAddrs) ==
    LET producer == GetProducer(L, r)
        addr == AddrMemAccess(Collected(L, producer.args[2]), 8)
    IN CASE IsStackReg(L, r) -> MoveIntoFresh(L, "LEA", size, MSlot(L.slots[r], size))
         [] ~IsStackReg(L, r) /\ allowAddrs /\ producer.op = "LOAD" /\ GetNumUses(L, r) = 1 -> DiscardUse(addr, r)
         [] OTHER -> Returning(L, MReg(r, size))

LowerSymbolAsOperand(L, o, size, isCallee) ==
    LET reloc == RelocOf(L, o)
        name == Value(o)
        large == MoveIntoFresh(L, "MOV", 8, MSymbol(name, reloc, 8))
    IN CASE L.m.darwin /\ Kind(o) \in {"func", "extern_func"} -> Returning(L, MSymbol(name, reloc, 8))
         [] L.m.large /\ ~(L.m.darwin /\ Kind(o) \in {"func", "extern_func"}) -> large
         [] ~L.m.large /\ ~(L.m.darwin /\ Kind(o) \in {"func", "extern_func"}) ->
              CASE isCallee -> Returning(L, MSymbol(name, reloc, 8))
                [] ~isCallee /\ reloc \in {"PLT", "GOT"} -> MoveIntoFresh(L, "MOV", 8, AddrOfSymbol(name, reloc, 8))
                [] ~isCallee /\ reloc = "NONE" -> MoveIntoFresh(L, "LEA", 8, AddrOfSymbol(name, reloc, size))

AsOperand(L, o, flags) ==
    LET size == SizeOfOperand(L, o)
    IN CASE Kind(o) = "int" -> LowerIntImmAsOperand(L, Value(o), size)
         [] Kind(o) = "fp" -> LowerFpImmAsOperand(L, Value(o), size)
         [] Kind(o) = "reg" -> LowerRegAsOperand(L, Value(o), size, flags = "allow_addrs")
         [] IsSymbol(o) -> LowerSymbolAsOperand(L, o, size, flags = "is_callee")

LowerIntImmAsMove(L, dst, n) ==
    IF n = 0 /\ dst.kind = "reg"
    THEN LET low == WithSize(dst, IF dst.size < 4 THEN dst.size ELSE 4) IN Emit(L, "XOR", <<low, low>>)
    ELSE Emit(L, "MOV", <<dst, MImm(n, dst.size)>>)
\* A value that needs an instruction of its own goes through a register into a slot.
ThroughReg(L, dst, op, src(_), mov) ==
    IF dst.kind = "reg" THEN Emit(L, op, <<dst, src(dst)>>)
    ELSE LET tmp == MReg(Fresh(L), dst.size) IN Emit(Emit(WithFresh(L), op, <<tmp, src(tmp)>>), mov, <<dst, tmp>>)
LowerFpImmAsMove(L, dst, n) ==
    IF n = 0 THEN ThroughReg(L, dst, Zeroing(dst.size), LAMBDA tmp : tmp, MoveOfSize(TRUE, dst.size))
    ELSE ThroughReg(L, dst, MoveOfSize(TRUE, dst.size), LAMBDA tmp : FpConst(n, dst.size), MoveOfSize(TRUE, dst.size))
LowerRegAsMove(L, dst, r, type) ==
    IF IsStackReg(L, r) THEN ThroughReg(L, dst, "LEA", LAMBDA tmp : MSlot(L.slots[r], dst.size), "MOV")
    ELSE Emit(L, MoveOfSize(IsFloat(type), dst.size), <<dst, MReg(r, dst.size)>>)
AsMove(L, dst, o) ==
    CASE Kind(o) = "int" -> LowerIntImmAsMove(L, dst, Value(o))
      [] Kind(o) = "fp" -> LowerFpImmAsMove(L, dst, Value(o))
      [] Kind(o) = "reg" -> LowerRegAsMove(L, dst, Value(o), TypeOf(o))
      [] IsSymbol(o) -> Then(AsOperand(L, o, ""), LAMBDA A : Emit(A, "MOV", <<dst, A.op>>))

-----------------------------------------------------------------------------
(* Addresses.                                                              *)
BaseOf(L, o) ==
    CASE Kind(o) = "reg" -> [L EXCEPT !.op = IF IsStackReg(L, Value(o)) THEN BaseSlot(L.slots[Value(o)]) ELSE BaseReg(Value(o))]
      [] Kind(o) = "extern_global" /\ ~L.m.darwin ->
           [MoveIntoFresh(L, "MOV", 8, AddrOfSymbol(Value(o), "GOT", 8)) EXCEPT !.op = BaseReg(Fresh(L))]
      [] OTHER -> [L EXCEPT !.op = BaseSymbol(Value(o), RelocOf(L, o))]
\* The constant of an address with a symbol is added before.
WithConst(L, o, const) ==
    IF IsSymbol(o) /\ const # 0
    THEN LET A == MoveIntoFresh(L, "LEA", 8, MAddr(L.op, 0, "", 1, 8))
         IN Returning(A, MAddr(BaseReg(A.op.reg), const, "", 1, 8))
    ELSE Returning(L, MAddr(L.op, const, "", 1, 8))
WithIndex(L, index, scale) ==
    CASE index = "" -> L
      [] index # "" /\ scale \in {1, 2, 4, 8} -> Returning(L, [L.op EXCEPT !.index = index, !.scale = scale])
      [] OTHER -> LET tmp == MReg(Fresh(L), 8)
                  IN Returning(Emit(Emit(WithFresh(L), "MOV", <<tmp, MReg(index, 8)>>), "IMUL", <<tmp, MImm(scale, 0)>>),
                               [L.op EXCEPT !.index = tmp.reg])
\* The operand for what L.addr leads to, of the given size.
AddrMemAccess(L, size) ==
    Then(WithIndex(WithConst(BaseOf(L, L.addr.base), L.addr.base, L.addr.const), L.addr.index, L.addr.scale),
         LAMBDA A : Returning(A, WithSize(A.op, size)))
EmitWith(L, addr, size, op, operands(_)) ==
    Then(AddrMemAccess([L EXCEPT !.addr = addr], size), LAMBDA A : Emit(A, op, operands(A.op)))

-----------------------------------------------------------------------------
(* Loads and stores.                                                       *)
OddReg(size) == IF size = 3 THEN 4 ELSE 8
\* All pieces are loaded, then shifted to their places, then put together.
LowerOddLoad(L, dst, size) ==
    LET pieces == Pieces(size)
        wide == OddReg(size)
        part(k) == IF k = 1 THEN MReg(dst, wide) ELSE MReg("t" \o ToString(L.next + k - 2), wide)
        start == [L EXCEPT !.next = @ + Len(pieces) - 1]
        load(A, k) == EmitWith(A, Shifted(L.addr, PieceAt(size, k)), pieces[k],
                               IF pieces[k] = 4 THEN "MOV" ELSE "MOVZX", LAMBDA from : <<WithSize(part(k), 4), from>>)
        shift(A, k) == IF k = 1 THEN A ELSE Emit(A, "SHL", <<part(k), MImm(Bits(PieceAt(size, k)), 1)>>)
        join(A, k) == IF k = 1 THEN A ELSE Emit(A, "OR", <<part(1), part(k)>>)
        all == [k \in DOMAIN pieces |-> k]
    IN FoldLeft(join, FoldLeft(shift, FoldLeft(load, start, all), all), all)
LowerOddStore(L, src, size) ==
    LET pieces == Pieces(size)
        wide == OddReg(size)
        part(k) == IF k = 1 THEN WithSize(src, wide) ELSE MReg("t" \o ToString(L.next + k - 2), wide)
        start == [L EXCEPT !.next = @ + Len(pieces) - 1]
        shift(A, k) == IF k = 1 THEN A
                       ELSE Emit(Emit(A, "MOV", <<part(k), part(1)>>), "SHR", <<part(k), MImm(Bits(PieceAt(size, k)), 1)>>)
        store(A, k) == EmitWith(A, Shifted(L.addr, PieceAt(size, k)), pieces[k], "MOV",
                                LAMBDA to : <<to, WithSize(part(k), IF size = 3 THEN wide ELSE pieces[k])>>)
        all == [k \in DOMAIN pieces |-> k]
    IN FoldLeft(store, FoldLeft(shift, start, all), all)

LowerLoad(L, i) ==
    LET type == TypeOf(i.args[1])
        size == Size(L, type)
        A == Collected(L, i.args[2])
    IN IF IsOdd(size) THEN LowerOddLoad(A, i.dest, size)
       ELSE EmitWith(A, A.addr, size, MoveOpcode(type), LAMBDA from : <<MReg(i.dest, size), from>>)
LowerStore(L, i) ==
    LET value == i.args[1]
        type == TypeOf(value)
        size == Size(L, type)
        place == AddrMemAccess(Collected(L, i.args[2]), 8)
        direct(A) == Emit(A, "MOV", <<WithSize(A.op, 4), MImm(FpBits(Value(value), 4), 4)>>)
        storing(A) == Then(AsOperand(A, value, ""),
                           LAMBDA B : Emit(B, MoveOpcode(type), <<WithSize(A.op, B.op.size), B.op>>))
    IN CASE size = 0 -> L
         [] IsOdd(size) -> Then(Collected(AsOperand(L, value, ""), i.args[2]), LAMBDA A : LowerOddStore(A, A.op, size))
         [] OTHER -> Then(place, LAMBDA A : IF IsImmediate(value) /\ type = Prim("F32") THEN direct(A) ELSE storing(A))
LowerLoadarg(L, i) ==
    LET size == Size(L, TypeOf(i.args[1]))
    IN Emit(L, MoveOpcode(TypeOf(i.args[1])), <<MReg(i.dest, size), MReg(ArgReg(L.func.params, Value(i.args[2]) + 1), size)>>)

-----------------------------------------------------------------------------
(* Arithmetic.                                                             *)
MDst(i, size) == MReg(i.dest, size)
EmitMove(L, op, dst, o) == Then(AsOperand(L, o, ""), LAMBDA A : Emit(A, op, <<dst, A.op>>))
EmitRegs(L, op, dst) == Emit(L, op, <<dst, dst>>)

AppendMovAndOperation(L, op, dst, lhs, rhs) ==
    LET size == SizeOfOperand(L, lhs)
    IN Then(AsOperand(AsMove(L, MReg(dst, size), lhs), rhs, "allow_addrs"),
            LAMBDA A : Emit(A, op, <<MReg(dst, size), A.op>>))
OperationOf(op) ==
    CASE op = "ADD" -> "ADD" [] op = "SUB" -> "SUB" [] op = "MUL" -> "IMUL" [] op = "AND" -> "AND" [] op = "OR" -> "OR"
      [] op = "XOR" -> "XOR" [] op = "FADD" -> "ADD" [] op = "FSUB" -> "SUB" [] op = "FMUL" -> "MUL" [] op = "FDIV" -> "DIV"
LowerOperation(L, i) ==
    LET float == IsFloat(TypeOf(i.args[1]))
        op == IF float THEN Scalar(OperationOf(i.op), SizeOfOperand(L, i.args[1])) ELSE OperationOf(i.op)
    IN AppendMovAndOperation(L, op, i.dest, i.args[1], i.args[2])
\* x * 3 is x + x * 2, and 0.0 - x is x with the other sign.
LowerMul(L, i) ==
    LET size == SizeOfOperand(L, i.args[1])
        lhs == Value(i.args[1])
    IN IF Kind(i.args[1]) = "reg" /\ IsImmediate(i.args[2]) /\ size \in {4, 8} /\ Value(i.args[2]) = 3
       THEN Emit(L, "LEA", <<MDst(i, size), MAddr(BaseReg(lhs), 0, lhs, 2, size)>>)
       ELSE LowerOperation(L, i)
LowerFsub(L, i) ==
    IF TypeOf(i.args[1]) = Prim("F32") /\ Kind(i.args[1]) = "fp" /\ Value(i.args[1]) = 0
    THEN Emit(EmitMove(L, "MOVSS", MDst(i, 4), i.args[2]), "XORPS", <<MDst(i, 16), NegZero>>)
    ELSE LowerOperation(L, i)

EmitMovExt(L, op, dst, o, size) ==
    Then(AsOperand(L, o, ""), LAMBDA A : Emit(A, IF A.op.kind = "imm" THEN "MOV" ELSE op, <<dst, WithSize(A.op, size)>>))
\* The dividend is in RDX and RAX, the quotient in RAX and the remainder in RDX.
LowerIntoDiv(L, i, signed, result) ==
    LET size == SizeOfOperand(L, i.args[1])
        wide == IF size < 4 THEN 4 ELSE size
        tmp == MReg(Fresh(L), wide)
        move(A, dst, o) == IF size < 4 THEN EmitMovExt(A, IF signed THEN "MOVSX" ELSE "MOVZX", dst, o, size)
                           ELSE EmitMove(A, "MOV", dst, o)
        moved == move(move(WithFresh(L), MReg(RAX, wide), i.args[1]), tmp, i.args[2])
        extended == IF ~signed THEN EmitRegs(moved, "XOR", MReg(RDX, wide))
                    ELSE Emit(moved, IF wide = 4 THEN "CDQ" ELSE "CQO", <<>>)
    IN Emit(Emit(extended, IF signed THEN "IDIV" ELSE "DIV", <<tmp>>), "MOV", <<MDst(i, size), MReg(result, size)>>)

LowerShift(L, i, op) ==
    LET size == SizeOfOperand(L, i.args[1])
        tmp == MReg(Fresh(L), size)
        by(A) == IF Kind(i.args[2]) = "int" THEN Emit(A, op, <<tmp, MImm(Value(i.args[2]), 1)>>)
                 ELSE Then(AsOperand(A, i.args[2], ""),
                           LAMBDA B : Emit(Emit(B, "MOV", <<MReg(RCX, 8), WithSize(B.op, 8)>>), op, <<tmp, MReg(RCX, 1)>>))
    IN Emit(by(EmitMove(WithFresh(L), "MOV", tmp, i.args[1])), "MOV", <<MDst(i, size), tmp>>)
ShiftOf(op) == CASE op = "LSHL" -> "SHL" [] op = "LSHR" -> "SHR" [] op = "ASHR" -> "SAR"

-----------------------------------------------------------------------------
(* Branches, calls and returns.                                            *)
\* The parameters of a block are copied from temporary registers in front of it.
EmitBlockPrologue(L) ==
    LET move(A, param) ==
            LET size == IF Size(L, param.type) = 8 THEN 8 ELSE 4
            IN Emit(A, MoveOpcode(param.type), <<MReg(param.reg, size), MReg(TmpOf(param.reg), size)>>)
    IN FoldLeft(move, L, L.func.blocks[L.block].params)
MoveBranchArgs(L, target) ==
    LET move(A, k) ==
            LET arg == target.args[k]
                dst == MReg(TmpOf(L.func.blocks[target.block].params[k].reg), SizeOfOperand(L, arg))
            IN IF IsImmediate(arg) /\ Value(arg) = 0 THEN EmitRegs(A, IF Kind(arg) = "int" THEN "XOR" ELSE "XORPS", dst)
               ELSE EmitMove(A, MoveOpcode(TypeOf(arg)), dst, arg)
    IN FoldLeft(move, L, [k \in DOMAIN target.args |-> k])
IsNext(L, target) == target.block = L.block + 1
JumpTo(L, target) == IF IsNext(L, target) THEN L ELSE Emit(L, "JMP", <<MBlock(target.block)>>)
LowerJmp(L, i) == JumpTo(MoveBranchArgs(L, Value(i.args[1])), Value(i.args[1]))

\* What a conditional instruction tests after a comparison.
LowerCondition(cmp) ==
    CASE cmp = "FEQ" -> "EQ" [] cmp = "FNE" -> "NE" [] cmp = "FGT" -> "UGT" [] cmp = "FGE" -> "UGE"
      [] cmp = "FLT" -> "ULT" [] cmp = "FLE" -> "ULE" [] OTHER -> cmp
MCond(cmp) == [kind |-> "cond", cmp |-> LowerCondition(cmp)]
\* The branch goes to the target that does not follow.
LowerCondBranch(L, i) ==
    LET inverted == IsNext(L, Value(i.args[4]))
        cond == IF inverted THEN InvertComparison(Value(i.args[2])) ELSE Value(i.args[2])
        first == Value(i.args[IF inverted THEN 5 ELSE 4])
        second == Value(i.args[IF inverted THEN 4 ELSE 5])
        compare == IF i.op = "CJMP" THEN "CMP" ELSE Scalar("UCOMI", SizeOfOperand(L, i.args[1]))
        compared == Then(MoveBranchArgs(L, first),
                         LAMBDA A : AppendMovAndOperation(WithFresh(A), compare, Fresh(A), i.args[1], i.args[3]))
    IN JumpTo(MoveBranchArgs(Emit(compared, "JCC", <<MBlock(first.block), MCond(cond)>>), second), second)

\* The sizes of all operands are that of the compared values; a selection
\* between floating-point numbers is only there for the larger or the smaller.
LowerSelect(L, i) ==
    LET size == IF SizeOfOperand(L, i.args[1]) < 4 THEN 4 ELSE SizeOfOperand(L, i.args[1])
        dst == MDst(i, size)
        tmp == MReg(Fresh(L), size)
        compared == Then(AsOperand(WithFresh(L), i.args[1], ""),
                         LAMBDA A : Then(AsOperand(A, i.args[3], ""), LAMBDA B : Emit(B, "CMP", <<A.op, B.op>>)))
        pick(op) == EmitMove(EmitMove(L, MoveOfSize(TRUE, size), dst, i.args[1]), Scalar(op, size), dst, i.args[3])
        extreme == i.args[1] = i.args[4] /\ i.args[3] = i.args[5]
    IN CASE ~IsFloat(TypeOf(i.args[1])) ->
              Emit(EmitMove(EmitMove(compared, "MOV", tmp, i.args[4]), "MOV", dst, i.args[5]),
                   "CMOVCC", <<dst, tmp, MCond(Value(i.args[2]))>>)
         [] IsFloat(TypeOf(i.args[1])) /\ extreme /\ Value(i.args[2]) = "FGT" -> pick("MAX")
         [] IsFloat(TypeOf(i.args[1])) /\ extreme /\ Value(i.args[2]) = "FLT" -> pick("MIN")
         [] OTHER -> L

\* The callee is a symbol, a register or in memory.
AppendCall(L, callee) ==
    LET producer == GetProducer(L, Value(callee))
        loaded == DiscardUse(AddrMemAccess(Collected(L, producer.args[2]), 8), Value(callee))
        place == CASE IsSymbol(callee) -> AsOperand(L, callee, "is_callee")
                   [] Kind(callee) = "reg" /\ producer.op = "LOAD" -> loaded
                   [] OTHER -> Returning(L, MapVreg(L, Value(callee), 8))
    IN Then(place, LAMBDA A : Emit(A, "CALL", <<A.op>>))
LowerCall(L, i) ==
    LET types == [k \in 1..(Len(i.args) - 1) |-> TypeOf(i.args[k + 1])]
        type == TypeOf(i.args[1])
        size == Size(L, type)
        move(A, k) == AsMove(A, MReg(ArgReg(types, k), Size(L, types[k])), i.args[k + 1])
        called == AppendCall(FoldLeft(move, L, [k \in DOMAIN types |-> k]), i.args[1])
    IN IF i.dest = "" THEN called
       ELSE Emit(called, MoveOfSize(IsFloat(type), size), <<MDst(i, size), MReg(IF IsFloat(type) THEN XMM0 ELSE RAX, size)>>)
LowerRet(L, i) ==
    LET type == TypeOf(i.args[1])
        value == EmitMove(L, MoveOpcode(type), MReg(IF IsFloat(type) THEN XMM0 ELSE RAX, Size(L, type)), i.args[1])
    IN Emit(IF i.args = <<>> THEN L ELSE value, "RET", <<>>)

-----------------------------------------------------------------------------
(* Conversions, addresses and copies.                                      *)
LowerUextend(L, i) ==
    Then(AsOperand(L, i.args[1], ""), LAMBDA A : Emit(A, IF A.op.size < 4 THEN "MOVZX" ELSE "MOV", <<MDst(i, 4), A.op>>))
LowerTruncate(L, i) ==
    Then(AsOperand(L, i.args[1], ""),
         LAMBDA A : Emit(A, "MOV", <<MDst(i, 4), IF A.op.size = 8 THEN WithSize(A.op, 4) ELSE A.op>>))
LowerStof(L, i) ==
    LET size == SizeOfOperand(L, i.args[2])
    IN Then(AsOperand(L, i.args[1], ""),
            LAMBDA A : Emit(EmitRegs(A, "XORPS", MDst(i, size)), Scalar("CVTSI2", size), <<MDst(i, size), A.op>>))
LowerFtos(L, i) ==
    LET double == TypeOf(i.args[1]) = Prim("F64")
        size == IF SizeOfOperand(L, i.args[2]) = 8 THEN 8 ELSE 4
    IN EmitMove(L, IF double THEN "CVTSD2SI" ELSE "CVTSS2SI", MDst(i, size), i.args[1])
LowerSqrt(L, i) ==
    Then(AsOperand(L, i.args[1], ""),
         LAMBDA A : Emit(EmitRegs(A, "XORPS", MDst(i, A.op.size)), Scalar("SQRT", A.op.size), <<MDst(i, A.op.size), A.op>>))
\* The address is collected from the register of the instruction itself.
LowerPtr(L, i) ==
    Then(AddrMemAccess(Collected(L, Reg(i.dest, Prim("U64"))), 8), LAMBDA A : Emit(A, "LEA", <<MDst(i, 8), A.op>>))

\* As many moves of 8 bytes as fit, then of 4, 2 and 1.
RECURSIVE CopyBlockUsingMovs(_, _, _, _)
CopyBlockUsingMovs(L, i, size, offset) ==
    LET mov == CHOOSE n \in {8, 4, 2, 1} : n <= size /\ \A m \in {8, 4, 2, 1} : m <= size => m <= n
        at(o) == MAddr(IF IsStackReg(L, Value(o)) THEN BaseSlot(L.slots[Value(o)]) ELSE BaseReg(Value(o)), offset, "", 1, mov)
        tmp == MReg(Fresh(L), mov)
        moved == Emit(Emit(WithFresh(L), "MOV", <<tmp, at(i.args[2])>>), "MOV", <<at(i.args[1]), tmp>>)
    IN IF size = 0 THEN L ELSE CopyBlockUsingMovs(moved, i, size - mov, offset + mov)
MaxInlineCopy == 15 \* The code copies up to 64 bytes this way.
LowerCopy(L, i) ==
    LET size == SizeOfOperand(L, i.args[3])
    IN IF size <= MaxInlineCopy THEN CopyBlockUsingMovs(L, i, size, 0) ELSE LowerX86(L, MemcpyCall(L, i, Prim("U64")))

LowerX86(L, i) ==
    CASE i.op = "LOAD" -> LowerLoad(L, i)
      [] i.op = "STORE" -> LowerStore(L, i)
      [] i.op = "LOADARG" -> LowerLoadarg(L, i)
      [] i.op \in {"ADD", "SUB", "AND", "OR", "XOR", "FADD", "FMUL", "FDIV"} -> LowerOperation(L, i)
      [] i.op = "MUL" -> LowerMul(L, i)
      [] i.op = "FSUB" -> LowerFsub(L, i)
      [] i.op \in {"SDIV", "UDIV", "SREM", "UREM"} ->
           LowerIntoDiv(L, i, i.op \in {"SDIV", "SREM"}, IF i.op \in {"SDIV", "UDIV"} THEN RAX ELSE RDX)
      [] i.op \in {"LSHL", "LSHR", "ASHR"} -> LowerShift(L, i, ShiftOf(i.op))
      [] i.op = "JMP" -> LowerJmp(L, i)
      [] i.op \in {"CJMP", "FCJMP"} -> LowerCondBranch(L, i)
      [] i.op = "SELECT" -> LowerSelect(L, i)
      [] i.op = "CALL" -> LowerCall(L, i)
      [] i.op = "RET" -> LowerRet(L, i)
      [] i.op = "UEXTEND" -> LowerUextend(L, i)
      [] i.op = "SEXTEND" -> EmitMove(L, "MOVSX", MDst(i, 8), i.args[1])
      [] i.op = "TRUNCATE" -> LowerTruncate(L, i)
      [] i.op = "FPROMOTE" -> EmitMove(L, "CVTSS2SD", MDst(i, 8), i.args[1])
      [] i.op = "FDEMOTE" -> EmitMove(L, "CVTSD2SS", MDst(i, 4), i.args[1])
      [] i.op \in {"STOF", "UTOF"} -> LowerStof(L, i)
      [] i.op \in {"FTOS", "FTOU"} -> LowerFtos(L, i)
      [] i.op \in {"OFFSETPTR", "MEMBERPTR"} -> LowerPtr(L, i)
      [] i.op = "COPY" -> LowerCopy(L, i)
      [] i.op = "SQRT" -> LowerSqrt(L, i)
      [] OTHER -> L

\* The peephole optimizer (x86_64_peephole_opt_pass.cpp).
Peephole(m) ==
    IF m.op = "MOVSS" /\ \A k \in {1, 2} : m.args[k].kind = "reg" THEN [m EXCEPT !.op = "MOVAPS"] ELSE m

-----------------------------------------------------------------------------
(***************************************************************************)
(* What the instructions of X8664SsaLowerer do on the processor, before    *)
(* registers are allocated: a virtual register is one of its own.  This is *)
(* the instruction set and not code of the repository; where the encoder   *)
(* chooses (a conversion without the prefix for 64 bits, the size of an    *)
(* instruction from its destination), that is what runs.  An instruction   *)
(* that has no encoding stops the machine: "stuck".                        *)
(***************************************************************************)

\* What is in a register nobody has written.
Garbage == 27030
InReg(s, r) == IF r \in DOMAIN s.regs THEN s.regs[r] ELSE Garbage
SlotAddr(n) == StackAt + SlotBytes * (n - 1)
Stuck(s) == [s EXCEPT !.stuck = TRUE]

-----------------------------------------------------------------------------
(* Operands.                                                               *)
IsMemory(o) == o.kind \in {"addr", "slot"}
BaseAddr(s, base) ==
    CASE base.kind = "reg" -> InReg(s, base.reg)
      [] base.kind = "slot" -> SlotAddr(base.slot)
      [] base.kind = "symbol" -> IF base.reloc = "GOT" THEN GotAt ELSE SymbolAddr(base.name)
Address(s, o) ==
    IF o.kind = "slot" THEN SlotAddr(o.slot)
    ELSE Cut(BaseAddr(s, o.base) + o.const + (IF o.index = "" THEN 0 ELSE InReg(s, o.index) * o.scale), 8)
IsConst(o) == o.kind = "addr" /\ o.base.kind = "const"
\* Whether an operand can be read: an address in the memory, whose symbol is
\* not in the procedure linkage table and has no index.
Readable(s, o, size) ==
    \/ o.kind \in {"reg", "imm", "symbol"}
    \/ IsConst(o)
    \/ /\ IsMemory(o)
       /\ ~IsConst(o)
       /\ (o.kind = "addr" /\ o.base.kind = "symbol") => (o.base.reloc # "PLT" /\ o.index = "")
       /\ Fits(s.mem, Address(s, o), size)
Operand(s, o, size) ==
    CASE o.kind = "reg" -> Cut(InReg(s, o.reg), size)
      [] o.kind = "imm" -> Cut(o.value, size)
      [] o.kind = "symbol" -> SymbolAddr(o.name)
      [] IsMemory(o) /\ IsConst(o) -> o.base.value
      [] IsMemory(o) /\ ~IsConst(o) -> Read(s.mem, Address(s, o), size)
\* Except in a move to a register, an immediate has at most four bytes.
Extended(s, o, size) == IF o.kind = "imm" /\ size = 8 THEN SignExtended(o.value, 4, 8) ELSE Operand(s, o, size)

\* The encoder takes a size other than one, two and eight for four.
Encoded(size) == IF size \in {1, 2, 8} THEN size ELSE 4
\* Four bytes fill the register, one or two leave the others alone.
PutReg(s, r, size, v) ==
    [s EXCEPT !.regs = (r :> IF size >= 4 THEN Cut(v, size) ELSE (InReg(s, r) \div W(size)) * W(size) + Cut(v, size)) @@ @]
Put(s, o, v) == IF o.kind = "reg" THEN PutReg(s, o.reg, o.size, v)
                ELSE [s EXCEPT !.mem = Written(@, Address(s, o), o.size, v)]
Flags(s, a, b, size) == [s EXCEPT !.flags = <<a, b, size>>]
NoFlags(s) == Flags(s, 0, 0, 0)

-----------------------------------------------------------------------------
(* Instructions.                                                           *)
X86Integers == {"ADD", "SUB", "IMUL", "AND", "OR", "XOR"}
X86Floats == {"ADDSS", "ADDSD", "SUBSS", "SUBSD", "MULSS", "MULSD", "DIVSS", "DIVSD", "MINSS", "MINSD", "MAXSS", "MAXSD",
              "SQRTSS", "SQRTSD"}
IsSingle(op) == op \in {"ADDSS", "SUBSS", "MULSS", "DIVSS", "MINSS", "MAXSS", "SQRTSS"}
FloatOf(op) == CASE op \in {"ADDSS", "ADDSD"} -> "FADD" [] op \in {"SUBSS", "SUBSD"} -> "FSUB"
                 [] op \in {"MULSS", "MULSD"} -> "FMUL" [] op \in {"DIVSS", "DIVSD"} -> "FDIV" [] OTHER -> "SQRT"
IntegerOf(op) == IF op = "IMUL" THEN "MUL" ELSE op
FloatResult(op, a, b, size) ==
    CASE op \in {"MINSS", "MINSD"} -> IF a < b THEN a ELSE b
      [] op \in {"MAXSS", "MAXSD"} -> IF a > b THEN a ELSE b
      [] op \in {"SQRTSS", "SQRTSD"} -> FloatOp("SQRT", b, 0, size)
      [] OTHER -> FloatOp(FloatOf(op), a, b, size)

\* A register or memory to a register, or a register or an immediate to memory.
X86Move(s, m) ==
    LET dst == WithSize(m.args[1], Encoded(m.args[1].size))
        src == m.args[2]
    IN IF (IsMemory(dst) /\ (IsMemory(src) \/ src.kind = "symbol" \/ ~Readable(s, dst, dst.size))) \/ ~Readable(s, src, dst.size)
       THEN Stuck(s)
       ELSE Put(s, dst, IF IsMemory(dst) THEN Extended(s, src, dst.size) ELSE Operand(s, src, dst.size))
X86Arith(s, m) ==
    LET dst == m.args[1]
        size == dst.size
    IN IF dst.kind # "reg" \/ (m.op = "IMUL" /\ size = 1) \/ ~Readable(s, m.args[2], size) \/ m.args[2].kind = "symbol"
       THEN Stuck(s)
       ELSE NoFlags(Put(s, dst, Arith(IntegerOf(m.op), Operand(s, dst, size), Extended(s, m.args[2], size), size)))
X86Extend(s, m) ==
    LET src == m.args[2]
        signed == m.op = "MOVSX"
    IN IF src.kind = "imm" \/ src.size > (IF signed THEN 4 ELSE 2) \/ ~Readable(s, src, src.size) THEN Stuck(s)
       ELSE Put(s, m.args[1], IF signed THEN SignExtended(Operand(s, src, src.size), src.size, m.args[1].size)
                              ELSE Operand(s, src, src.size))
\* A count fits in one byte of the processor's, but not in one of these.
X86Shift(s, m) ==
    LET size == m.args[1].size
        count == Operand(s, m.args[2], size) % (IF size = 8 THEN 16 ELSE 8)
        op == CASE m.op = "SHL" -> "LSHL" [] m.op = "SHR" -> "LSHR" [] m.op = "SAR" -> "ASHR"
    IN NoFlags(Put(s, m.args[1], Arith(op, Operand(s, m.args[1], size), count, size)))
\* The dividend that is prepared is one number of the size: its upper half is
\* the extension of the lower one.
X86Divide(s, m) ==
    LET o == m.args[1]
        low == Cut(InReg(s, RAX), o.size)
        high == Cut(InReg(s, RDX), o.size)
        b == Operand(s, o, o.size)
        signed == m.op = "IDIV"
    IN IF b = 0 \/ high # (IF signed /\ Signed(low, o.size) < 0 THEN W(o.size) - 1 ELSE 0) \/ Undefined(IF signed THEN "SDIV" ELSE "UDIV", low, b, o.size)
       THEN Stuck(s)
       ELSE NoFlags(PutReg(PutReg(s, RAX, o.size, Arith(IF signed THEN "SDIV" ELSE "UDIV", low, b, o.size)),
                           RDX, o.size, Arith(IF signed THEN "SREM" ELSE "UREM", low, b, o.size)))
X86Float(s, m) ==
    LET size == IF IsSingle(m.op) THEN 4 ELSE 8
        dst == m.args[1]
    IN IF dst.kind # "reg" \/ m.args[2].kind \in {"imm", "symbol"} \/ ~Readable(s, m.args[2], size) THEN Stuck(s)
       ELSE PutReg(s, dst.reg, 8, FloatResult(m.op, Operand(s, dst, size), Operand(s, m.args[2], size), size))
\* The sizes of a conversion are those of its encoding.
X86Convert(s, m) ==
    LET from == IF m.op \in {"CVTSS2SD", "CVTSI2SS", "CVTSS2SI"} THEN 4 ELSE 8
        to == IF m.op \in {"CVTSD2SS", "CVTSI2SS", "CVTSS2SI"} THEN 4 ELSE 8
        op == CASE m.op = "CVTSS2SD" -> "FPROMOTE" [] m.op = "CVTSD2SS" -> "FDEMOTE"
                [] m.op \in {"CVTSI2SS", "CVTSI2SD"} -> "STOF" [] OTHER -> "ROUND"
    IN IF m.args[2].kind = "imm" \/ ~Readable(s, m.args[2], from) THEN Stuck(s)
       ELSE PutReg(s, m.args[1].reg, to, Convert(op, Operand(s, m.args[2], from), from, to))
X86Conditional(s, cond) == s.flags[3] # 0 /\ Compares(cond.cmp, s.flags[1], s.flags[2], s.flags[3])

\* A function that is called is passed what the registers of its parameters hold.
X86Call(s, m, params) ==
    LET o == m.args[1]
        name == IF o.kind = "symbol" THEN o.name ELSE FunctionAt(Operand(s, o, 8))
        types == params[name]
        args == [k \in DOMAIN types |-> Cut(InReg(s, ArgReg(types, k)), SizeOf(types[k], 8))]
        mem == AfterCall(s.mem, name, args)
    IN IF ~Readable(s, o, 8) \/ name \notin Functions THEN Stuck(s)
       ELSE [s EXCEPT !.mem = mem, !.flags = <<0, 0, 0>>, !.calls = IF name = "memcpy" THEN @ ELSE Append(@, <<name, args>>),
                      !.regs = (RAX :> Answer(name, args)) @@ (XMM0 :> Answer(name, args)) @@ @]

X86Step(s, m, params) ==
    LET dst == m.args[1]
        src == m.args[2]
    IN CASE m.op = "MOV" -> X86Move(s, m)
         [] m.op \in {"MOVSS", "MOVSD"} /\ dst.kind = "reg" /\ src.kind # "imm" /\ Readable(s, src, dst.size) ->
              PutReg(s, dst.reg, 8, Operand(s, src, dst.size))
         [] m.op \in {"MOVSS", "MOVSD"} /\ IsMemory(dst) /\ src.kind = "reg" /\ Readable(s, dst, dst.size) ->
              Put(s, dst, Operand(s, src, dst.size))
         [] m.op = "MOVAPS" -> PutReg(s, dst.reg, 8, InReg(s, src.reg))
         [] m.op = "LEA" /\ IsMemory(src) /\ ~IsConst(src) /\ ~(src.kind = "addr" /\ src.base.kind = "symbol" /\ src.index # "") ->
              PutReg(s, dst.reg, dst.size, Address(s, src))
         [] m.op \in X86Integers -> X86Arith(s, m)
         [] m.op \in {"MOVZX", "MOVSX"} -> X86Extend(s, m)
         [] m.op \in {"SHL", "SHR", "SAR"} -> X86Shift(s, m)
         [] m.op = "CDQ" -> PutReg(s, RDX, 4, IF Signed(InReg(s, RAX), 4) < 0 THEN W(4) - 1 ELSE 0)
         [] m.op = "CQO" -> PutReg(s, RDX, 8, IF Signed(InReg(s, RAX), 8) < 0 THEN W(8) - 1 ELSE 0)
         [] m.op \in {"DIV", "IDIV"} -> X86Divide(s, m)
         [] m.op \in X86Floats -> X86Float(s, m)
         [] m.op \in {"XORPS", "XORPD"} ->
              PutReg(s, dst.reg, 8, IF src.kind = "reg" THEN Bitwise("XOR", InReg(s, dst.reg), InReg(s, src.reg), 8)
                                    ELSE Bitwise("XOR", InReg(s, dst.reg), src.base.value, 8))
         [] m.op \in {"CVTSS2SD", "CVTSD2SS", "CVTSI2SS", "CVTSI2SD", "CVTSS2SI", "CVTSD2SI"} -> X86Convert(s, m)
         [] m.op = "CMP" /\ dst.kind = "reg" /\ src.kind # "symbol" /\ Readable(s, src, dst.size) ->
              Flags(s, Operand(s, dst, dst.size), Extended(s, src, dst.size), dst.size)
         [] m.op \in {"UCOMISS", "UCOMISD"} /\ src.kind # "imm" /\ Readable(s, src, dst.size) ->
              Flags(s, Operand(s, dst, dst.size), Operand(s, src, dst.size), dst.size)
         [] m.op = "CMOVCC" -> PutReg(s, dst.reg, dst.size, Operand(s, IF X86Conditional(s, m.args[3]) THEN src ELSE dst, dst.size))
         [] m.op = "CALL" -> X86Call(s, m, params)
         [] OTHER -> Stuck(s)

RECURSIVE RunX86(_, _, _, _, _)
\* From instruction k of a block on; a block that ends goes on with the next.
RunX86(s, code, params, b, k) ==
    CASE s.stuck \/ s.jumps > 12 \/ b > Len(code) -> Stuck(s)
      [] ~s.stuck /\ s.jumps <= 12 /\ b <= Len(code) /\ k > Len(code[b]) -> RunX86([s EXCEPT !.jumps = @ + 1], code, params, b + 1, 1)
      [] OTHER ->
           LET m == code[b][k]
               jumps == m.op = "JMP" \/ (m.op = "JCC" /\ X86Conditional(s, m.args[2]))
           IN CASE m.op = "RET" -> s
                [] jumps -> RunX86([s EXCEPT !.jumps = @ + 1], code, params, m.args[1].block, 1)
                [] m.op = "JCC" /\ ~jumps -> RunX86(IF s.flags[3] = 0 THEN Stuck(s) ELSE s, code, params, b, k + 1)
                [] OTHER -> RunX86(X86Step(s, m, params), code, params, b, k + 1)

\* An argument fills only as many bytes of its register as it has.
X86Run(code, f, params, inputs) ==
    LET arg(k) == Filled(inputs[k], SizeOf(f.params[k], 8), k)
        regs == [r \in {ArgReg(f.params, k) : k \in DOMAIN f.params} |-> arg(CHOOSE k \in DOMAIN f.params : ArgReg(f.params, k) = r)]
        start == [regs |-> ("" :> 0) @@ regs, mem |-> Contents, flags |-> <<0, 0, 0>>, calls |-> <<>>, stuck |-> FALSE, jumps |-> 0]
        end(s) == [mem |-> s.mem, calls |-> s.calls, stuck |-> s.stuck, result |-> InReg(s, IF IsFloat(f.result) THEN XMM0 ELSE RAX)]
    IN end(RunX86(start, code, params, 1, 1))
=============================================================================
