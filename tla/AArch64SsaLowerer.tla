--------------------------- MODULE AArch64SsaLowerer ---------------------------
(***************************************************************************)
(* The instructions that the AArch64 back end emits for one instruction of *)
(* the SSA (target/aarch64/aarch64_ssa_lowerer.cpp and the calls of        *)
(* aapcs_calling_conv.cpp).  Every value is in a register of its own; an   *)
(* immediate is moved into one in parts of two bytes and a symbol by its   *)
(* page and its offset in the page.                                        *)
(***************************************************************************)
EXTENDS SsaLowerer

SP == MReg("SP", 8)
ResultReg(type) == IF IsFloat(type) THEN "V0" ELSE "R0"
IntArgRegs == <<"R0", "R1", "R2">>
FloatArgRegs == <<"V0", "V1", "V2">>
\* The registers of the arguments are counted for each kind.
ArgReg(types, k) ==
    LET float == IsFloat(types[k])
    IN (IF float THEN FloatArgRegs ELSE IntArgRegs)[Cardinality({j \in 1..k : IsFloat(types[j]) = float})]

MShift(bits) == [kind |-> "lsl", bits |-> bits]
MCond(cmp) == [kind |-> "cond", cmp |-> cmp]
MStackOffset(slot, const) == [kind |-> "stack", slot |-> slot, const |-> const]
MSymbol(name, part) == [kind |-> "symbol", name |-> name, part |-> part]
\* An address is a register and at most one of a constant, a slot, an index
\* with a shift and a symbol.
MBase(r) == [kind |-> "addr", type |-> "base", base |-> r]
MBaseOffset(r, const) == [kind |-> "addr", type |-> "imm", base |-> r, const |-> const]
MBaseSlot(slot, const) == [kind |-> "addr", type |-> "stack", slot |-> slot, const |-> const]
MBaseIndex(r, index, shift) == [kind |-> "addr", type |-> "reg", base |-> r, index |-> index, shift |-> shift]
MBaseSymbol(r, name) == [kind |-> "addr", type |-> "symbol", base |-> r, name |-> name]

MoveOpcode(type) == IF IsFloat(type) THEN "FMOV" ELSE "MOV"
Wider(size) == IF size > 4 THEN 8 ELSE 4
MoveWidth(size) == IF size = 8 THEN 8 ELSE 4

-----------------------------------------------------------------------------
(* Values.                                                                 *)
\* A register is made, an instruction fills it and it is what is returned.
IntoTemp(L, size, op, operands(_)) ==
    LET tmp == MReg(Fresh(L), size) IN Returning(Emit(WithFresh(L), op, operands(tmp)), tmp)

\* decompose_u32_u16 and decompose_u64_u16
Element(n, k) == (Cut(n, 8) \div W(2) ^ k) % W(2)
ElementShift(k) == Bits(2) * k
MoveElements(L, value, n, size) ==
    LET filled == {k \in 0..(size \div 2 - 1) : Element(n, k) # 0}
        keep(A, k) == IF k \in filled THEN Emit(A, "MOVK", <<value, MImm(Element(n, k), size), MShift(ElementShift(k))>>) ELSE A
        first == Emit(L, "MOVZ", <<value, MImm(Element(n, 0), size), MShift(0)>>)
        only == CHOOSE k \in filled : TRUE
    IN IF Cardinality(filled) = 1 THEN Emit(L, "MOVZ", <<value, MImm(Element(n, only), size), MShift(ElementShift(only))>>)
       ELSE FoldLeft(keep, first, [k \in 1..(size \div 2) |-> k - 1])
MoveIntIntoRegister(L, n, size) ==
    LET result == MReg(Fresh(L), size)
    IN IF n = 0 \/ size \in {1, 2} THEN IntoTemp(L, size, "MOV", LAMBDA tmp : <<tmp, MImm(n, size)>>)
       ELSE Returning(MoveElements(WithFresh(L), result, n, size), result)

\* The address of a symbol; that of an external one is in the table.
IsExternal(o) == Kind(o) \in {"extern_func", "extern_global"}
MoveSymbolIntoRegister(L, name, external) ==
    Then(IntoTemp(L, 8, "ADRP", LAMBDA tmp : <<tmp, MSymbol(name, IF external THEN "got page" ELSE "page")>>),
         LAMBDA A : IF external THEN Emit(A, "LDR", <<A.op, MBaseSymbol(A.op.reg, name)>>)
                    ELSE Emit(A, "ADD", <<A.op, A.op, MSymbol(name, "page offset")>>))
\* A constant of the module is known by its value here.
ConstantOf(bits) == "double." \o ToString(bits)
MoveFloatIntoRegister(L, n, size) ==
    LET result == MReg(Fresh(L), size)
        bits == MReg(Fresh(WithFresh(L)), size)
        moved == MoveElements(WithFresh(WithFresh(L)), bits, FpBits(n, size), size)
        A == MoveSymbolIntoRegister(WithFresh(L), ConstantOf(FpBits(n, 8)), FALSE)
    IN CASE n \in ShortFps \ {0} -> IntoTemp(L, size, "FMOV", LAMBDA tmp : <<tmp, MImm(FpBits(n, size), size)>>)
         [] n \notin ShortFps \ {0} /\ size = 4 -> Returning(Emit(moved, "FMOV", <<result, bits>>), result)
         [] OTHER -> Returning(Emit(A, "LDR", <<result, MBase(A.op.reg)>>), result)

LowerRegVal(L, r, size) ==
    IF IsStackReg(L, r) THEN IntoTemp(L, size, "ADD", LAMBDA tmp : <<tmp, SP, MStackOffset(L.slots[r], 0)>>)
    ELSE Returning(L, MReg(r, size))
LowerValue(L, o) ==
    LET size == SizeOfOperand(L, o)
    IN CASE Kind(o) = "int" -> MoveIntIntoRegister(L, Value(o), size)
         [] Kind(o) = "fp" -> MoveFloatIntoRegister(L, Value(o), size)
         [] Kind(o) = "reg" -> LowerRegVal(L, Value(o), size)
         [] IsSymbol(o) -> MoveSymbolIntoRegister(L, Value(o), IsExternal(o))
EmitSignExt(L) ==
    LET from == L.op
    IN CASE from.size = 1 -> IntoTemp(L, 4, "SXTB", LAMBDA tmp : <<tmp, from>>)
         [] from.size = 2 -> IntoTemp(L, 4, "SXTH", LAMBDA tmp : <<tmp, from>>)
         [] OTHER -> L
\* Values of instructions that tell apart whether a number is negative.
LowerSigned(L, o, signed) == IF signed THEN EmitSignExt(LowerValue(L, o)) ELSE LowerValue(L, o)

-----------------------------------------------------------------------------
(* Addresses.                                                              *)
\* What an addition has room for in the instruction; 4095 in the code.
AddImmLimit == 20
EmitAddImm(L, lhs, n) ==
    LET size == IF n < 0 THEN -n ELSE n
        op == IF n < 0 THEN "SUB" ELSE "ADD"
        A == MoveIntIntoRegister(L, size, 8)
    IN IF size <= AddImmLimit THEN IntoTemp(L, 8, op, LAMBDA tmp : <<tmp, lhs, MImm(size, 8)>>)
       ELSE IntoTemp(A, 8, op, LAMBDA tmp : <<tmp, lhs, A.op>>)
ShiftOfScale(scale) == CASE scale = 1 -> 0 [] scale = 2 -> 1 [] scale = 4 -> 2 [] scale = 8 -> 3
EmitAddScaled(L, base, index, scale) ==
    IF scale \in {1, 2, 4, 8}
    THEN IntoTemp(L, 8, "ADD", LAMBDA tmp : <<tmp, base, MReg(index, 8), MShift(ShiftOfScale(scale))>>)
    ELSE Then(IntoTemp(L, 8, "MOV", LAMBDA tmp : <<tmp, MImm(scale, 8)>>),
              LAMBDA A : Then(IntoTemp(A, 8, "MUL", LAMBDA tmp : <<tmp, MReg(index, 8), A.op>>),
                              LAMBDA B : IntoTemp(B, 8, "ADD", LAMBDA tmp : <<tmp, base, B.op>>)))

OnStack(L, o) == Kind(o) = "reg" /\ IsStackReg(L, Value(o))
LowerAddrBase(L, o) == IF IsSymbol(o) THEN MoveSymbolIntoRegister(L, Value(o), IsExternal(o)) ELSE Returning(L, MReg(Value(o), 8))
\* The register with the base and the constant.
BaseAndConst(L, addr) ==
    IF OnStack(L, addr.base)
    THEN IntoTemp(L, 8, "ADD", LAMBDA tmp : <<tmp, SP, MStackOffset(L.slots[Value(addr.base)], addr.const)>>)
    ELSE Then(LowerAddrBase(L, addr.base), LAMBDA A : IF addr.const = 0 THEN A ELSE EmitAddImm(A, A.op, addr.const))
LowerAddrValue(L, addr) ==
    Then(BaseAndConst(L, addr), LAMBDA A : IF addr.index = "" THEN A ELSE EmitAddScaled(A, A.op, addr.index, addr.scale))
\* A load of a size can only shift the index by that size.
LowerAddrMemAccess(L, addr, size) ==
    CASE addr.index # "" /\ addr.scale \in {1, size} ->
           Then(BaseAndConst(L, addr),
                LAMBDA A : Returning(A, MBaseIndex(A.op.reg, addr.index, ShiftOfScale(addr.scale))))
      [] addr.index # "" /\ addr.scale \notin {1, size} ->
           Then(LowerAddrValue(L, addr), LAMBDA A : Returning(A, MBase(A.op.reg)))
      [] addr.index = "" /\ OnStack(L, addr.base) -> Returning(L, MBaseSlot(L.slots[Value(addr.base)], addr.const))
      [] OTHER -> Then(LowerAddrBase(L, addr.base),
                       LAMBDA A : Returning(A, IF addr.const = 0 THEN MBase(A.op.reg) ELSE MBaseOffset(A.op.reg, addr.const)))
\* A load or store of a register, at an offset from the address.
Transfer(L, op, reg, bytes, size) == 
    Then(LowerAddrMemAccess(L, Shifted(L.addr, bytes), size), LAMBDA A : Emit(A, op, <<reg, A.op>>))

-----------------------------------------------------------------------------
(* Loads and stores.                                                       *)
LoadOf(size) == CASE size = 1 -> "LDRB" [] size = 2 -> "LDRH" [] OTHER -> "LDR"
StoreOf(size) == CASE size = 1 -> "STRB" [] size = 2 -> "STRH" [] OTHER -> "STR"
Numbered(L, k, size) == MReg("t" \o ToString(L.next + k - 1), size)
Reserving(L, n) == [L EXCEPT !.next = @ + n]
\* The pieces are loaded into registers and put together one after the other.
LowerOddLoad(L, dst, size) ==
    LET pieces == Pieces(size)
        n == Len(pieces)
        load(A, k) == Transfer(A, LoadOf(pieces[k]), Numbered(L, k, 4), PieceAt(size, k), pieces[k])
        loaded == FoldLeft(load, Reserving(L, 2 * n - 2), [k \in 1..n |-> k])
        partial == Numbered(L, n + 1, 8)
        join(A, to, from, k) == Emit(A, "ORR", <<to, from, Numbered(L, k, dst.size), MShift(Bits(PieceAt(size, k)))>>)
    IN IF n = 2 THEN join(loaded, dst, Numbered(L, 1, dst.size), 2)
       ELSE join(join(loaded, partial, Numbered(L, 1, 8), 2), dst, partial, 3)
LowerLoad(L, i) ==
    LET type == TypeOf(i.args[1])
        size == Size(L, type)
        dst == MReg(i.dest, Wider(size))
    IN CASE size = 0 -> Emit(L, MoveOpcode(type), <<MReg(i.dest, 0), MImm(0, 4)>>)
         [] IsOdd(size) -> LowerOddLoad(Collected(L, i.args[2]), dst, size)
         [] OTHER -> Transfer(Collected(L, i.args[2]), LoadOf(size), dst, 0, size)

\* The parts are shifted down to the bottom of registers and then stored.
LowerOddStore(L, src, size) ==
    LET pieces == Pieces(size)
        n == Len(pieces)
        wide == Wider(size)
        by == Numbered(L, n, wide)
        shift(A, k) == Emit(Emit(A, "MOV", <<by, MImm(Bits(PieceAt(size, k)), wide)>>),
                            "LSR", <<Numbered(L, k - 1, wide), WithSize(src, wide), by>>)
        store(A, k) == Transfer(A, StoreOf(pieces[k]), WithSize(IF k = 1 THEN src ELSE Numbered(L, k - 1, 4), 4),
                                PieceAt(size, k), pieces[k])
    IN FoldLeft(store, FoldLeft(shift, Reserving(L, n), [k \in 1..(n - 1) |-> k + 1]), [k \in 1..n |-> k])
LowerStore(L, i) ==
    LET size == SizeOfOperand(L, i.args[1])
    IN IF size = 0 THEN L
       ELSE Then(Collected(LowerValue(L, i.args[1]), i.args[2]),
                 LAMBDA A : IF IsOdd(size) THEN LowerOddStore(A, A.op, size) ELSE Transfer(A, StoreOf(size), A.op, 0, size))
LowerLoadarg(L, i) ==
    LET type == TypeOf(i.args[1])
    IN Emit(L, MoveOpcode(type), <<MReg(i.dest, Size(L, type)), MReg(ArgReg(L.func.params, Value(i.args[2]) + 1), Size(L, type))>>)

-----------------------------------------------------------------------------
(* Arithmetic.                                                             *)
\* Two values, one after the other, and an instruction on their registers.
OnBoth(L, lhs, rhs, signed, emit(_, _, _)) ==
    Then(LowerSigned(L, lhs, signed), LAMBDA A : Then(LowerSigned(A, rhs, signed), LAMBDA B : emit(B, A.op, B.op)))
OperationOf(op) ==
    CASE op = "OR" -> "ORR" [] op = "XOR" -> "EOR" [] op = "LSHL" -> "LSL" [] op = "LSHR" -> "LSR" [] op = "ASHR" -> "ASR"
      [] OTHER -> op
LowerOperation(L, i) ==
    OnBoth(L, i.args[1], i.args[2], i.op \in {"SDIV", "ASHR"},
           LAMBDA A, lhs, rhs : Emit(A, OperationOf(i.op), <<MReg(i.dest, lhs.size), lhs, rhs>>))
LowerRem(L, i) ==
    LET size == SizeOfOperand(L, i.args[1])
    IN OnBoth(L, i.args[1], i.args[2], i.op = "SREM",
              LAMBDA A, dividend, divisor :
                  Then(IntoTemp(A, size, IF i.op = "SREM" THEN "SDIV" ELSE "UDIV", LAMBDA tmp : <<tmp, dividend, divisor>>),
                       LAMBDA B : Emit(B, "MSUB", <<MReg(i.dest, size), B.op, divisor, dividend>>)))

-----------------------------------------------------------------------------
(* Branches, calls and returns.                                            *)
EmitBlockPrologue(L) ==
    LET move(A, param) ==
            LET size == MoveWidth(Size(L, param.type))
            IN Emit(A, MoveOpcode(param.type), <<MReg(param.reg, size), MReg(TmpOf(param.reg), size)>>)
    IN FoldLeft(move, L, L.func.blocks[L.block].params)
MoveBranchArgs(L, target) ==
    LET move(A, k) ==
            LET arg == target.args[k]
                dst == MReg(TmpOf(L.func.blocks[target.block].params[k].reg), MoveWidth(SizeOfOperand(L, arg)))
            IN Then(LowerValue(A, arg), LAMBDA B : Emit(B, MoveOpcode(TypeOf(arg)), <<dst, B.op>>))
    IN FoldLeft(move, L, [k \in DOMAIN target.args |-> k])
IsNext(L, target) == target.block = L.block + 1
JumpTo(L, target) == IF IsNext(L, target) THEN L ELSE Emit(L, "B", <<MBlock(target.block)>>)
LowerJmp(L, i) == JumpTo(MoveBranchArgs(L, Value(i.args[1])), Value(i.args[1]))

\* A comparison of floating-point numbers sets the flags of signed numbers.
LowerCondition(cmp) ==
    CASE cmp = "FEQ" -> "EQ" [] cmp = "FNE" -> "NE" [] cmp = "FGT" -> "SGT" [] cmp = "FGE" -> "SGE"
      [] cmp = "FLT" -> "SLT" [] cmp = "FLE" -> "SLE" [] OTHER -> cmp
CompareOf(type) == IF IsFloat(type) THEN "FCMP" ELSE "CMP"
\* Both values are there before either of them is extended.
OnCompared(L, i, emit(_, _, _)) ==
    LET extend(A, o) == IF IsComparisonSigned(Value(i.args[2])) THEN EmitSignExt(Returning(A, o)) ELSE Returning(A, o)
    IN OnBoth(L, i.args[1], i.args[3], FALSE,
              LAMBDA A, lhs, rhs : Then(extend(A, lhs), LAMBDA B : Then(extend(B, rhs), LAMBDA C : emit(C, B.op, C.op))))
\* The branch goes to the target that does not follow.
LowerCondBranch(L, i) ==
    LET inverted == IsNext(L, Value(i.args[4]))
        cond == IF inverted THEN InvertComparison(Value(i.args[2])) ELSE Value(i.args[2])
        first == Value(i.args[IF inverted THEN 5 ELSE 4])
        second == Value(i.args[IF inverted THEN 4 ELSE 5])
        compare == IF i.op = "CJMP" THEN "CMP" ELSE "FCMP"
        branch(A, lhs, rhs) == Emit(Emit(MoveBranchArgs(A, first), compare, <<lhs, rhs>>),
                                    "BCC", <<MBlock(first.block), MCond(LowerCondition(cond))>>)
    IN JumpTo(MoveBranchArgs(OnCompared(L, i, branch), second), second)
LowerSelect(L, i) ==
    LET op == IF IsFloat(TypeOf(i.args[4])) THEN "FCSEL" ELSE "CSEL"
        pick(A, lhs, rhs) ==
            OnBoth(A, i.args[4], i.args[5], FALSE,
                   LAMBDA B, yes, no : Emit(Emit(B, CompareOf(TypeOf(i.args[1])), <<lhs, rhs>>),
                                            op, <<MReg(i.dest, yes.size), yes, no, MCond(LowerCondition(Value(i.args[2])))>>))
    IN OnCompared(L, i, pick)

LowerCall(L, i) ==
    LET callee == i.args[1]
        types == [k \in 1..(Len(i.args) - 1) |-> TypeOf(i.args[k + 1])]
        type == TypeOf(callee)
        size == Size(L, type)
        move(A, k) == Then(LowerValue(A, i.args[k + 1]),
                           LAMBDA B : Emit(B, MoveOpcode(types[k]), <<MReg(ArgReg(types, k), Size(L, types[k])), B.op>>))
        moved == FoldLeft(move, L, [k \in DOMAIN types |-> k])
        called == IF IsSymbol(callee) THEN Emit(moved, "BL", <<MSymbol(Value(callee), "call")>>)
                  ELSE Emit(moved, "BLR", <<MapVreg(L, Value(callee), 8)>>)
    IN IF i.dest = "" THEN called ELSE Emit(called, MoveOpcode(type), <<MReg(i.dest, size), MReg(ResultReg(type), size)>>)
LowerRet(L, i) ==
    LET type == TypeOf(i.args[1])
        value == Then(LowerValue(L, i.args[1]),
                      LAMBDA A : Emit(A, MoveOpcode(type), <<MReg(ResultReg(type), A.op.size), A.op>>))
    IN Emit(IF i.args = <<>> THEN L ELSE value, "RET", <<>>)

-----------------------------------------------------------------------------
(* Conversions and addresses.                                              *)
Extension(op, size) == CASE size = 1 -> op \o "XTB" [] size = 2 -> op \o "XTH" [] size = 4 -> IF op = "S" THEN "SXTW" ELSE "MOV"
LowerInto(L, i, op, size) == 
    Then(LowerValue(L, i.args[1]), LAMBDA A : Emit(A, op, <<MReg(i.dest, size), A.op>>))
LowerTruncate(L, i) ==
    LET size == SizeOfOperand(L, i.args[2])
        dst == MReg(i.dest, size)
        masked(A) == Then(IntoTemp(A, 4, "MOV", LAMBDA tmp : <<tmp, MImm(W(size) - 1, 4)>>),
                          LAMBDA B : Emit(B, "AND", <<dst, dst, B.op>>))
    IN Then(Then(LowerValue(L, i.args[1]), LAMBDA A : Emit(A, "MOV", <<dst, WithSize(A.op, size)>>)),
            LAMBDA A : IF size \in {1, 2} THEN masked(A) ELSE A)
ConversionOf(op) ==
    CASE op \in {"FPROMOTE", "FDEMOTE"} -> "FCVT" [] op = "UTOF" -> "UCVTF" [] op = "STOF" -> "SCVTF" [] op = "FTOU" -> "FCVTZU"
      [] op = "FTOS" -> "FCVTZS"
LowerPtr(L, i) ==
    Then(Then(Collected(L, Reg(i.dest, Prim("U64"))), LAMBDA A : LowerAddrValue(A, A.addr)),
         LAMBDA A : Emit(A, "MOV", <<MReg(i.dest, 8), A.op>>))

\* A copy and a square root are left to the base class, which only warns.
LowerAArch64(L, i) ==
    CASE i.op = "LOAD" -> LowerLoad(L, i)
      [] i.op = "STORE" -> LowerStore(L, i)
      [] i.op = "LOADARG" -> LowerLoadarg(L, i)
      [] i.op \in (IntOps \ {"SREM", "UREM"}) \cup FloatOps -> LowerOperation(L, i)
      [] i.op \in {"SREM", "UREM"} -> LowerRem(L, i)
      [] i.op = "JMP" -> LowerJmp(L, i)
      [] i.op \in {"CJMP", "FCJMP"} -> LowerCondBranch(L, i)
      [] i.op = "SELECT" -> LowerSelect(L, i)
      [] i.op = "CALL" -> LowerCall(L, i)
      [] i.op = "RET" -> LowerRet(L, i)
      [] i.op = "UEXTEND" -> LowerInto(L, i, Extension("U", SizeOfOperand(L, i.args[1])), 4)
      [] i.op = "SEXTEND" -> LowerInto(L, i, Extension("S", SizeOfOperand(L, i.args[1])), 8)
      [] i.op = "TRUNCATE" -> LowerTruncate(L, i)
      [] i.op \in Conversions -> LowerInto(L, i, ConversionOf(i.op), SizeOfOperand(L, i.args[2]))
      [] i.op \in {"OFFSETPTR", "MEMBERPTR"} -> LowerPtr(L, i)
      [] OTHER -> L

-----------------------------------------------------------------------------
(***************************************************************************)
(* What the instructions of the AArch64 back end do when they run, as far  *)
(* as its encoder writes them: an operation has eight bytes if its first   *)
(* operand has and four otherwise, a constant that is moved has one part   *)
(* of two bytes that is not zero (or all but the last are ones), and an    *)
(* addition or an address has room for a short constant.  This is the      *)
(* instruction set and not code of the repository.                         *)
(***************************************************************************)

\* What is in a register nobody has written.
Garbage == 27030
InReg(s, r) == IF r \in DOMAIN s.regs THEN s.regs[r] ELSE Garbage
SlotAddr(n) == StackAt + SlotBytes * (n - 1)
Stuck(s) == [s EXCEPT !.stuck = TRUE]
PutReg(s, r, v) == [s EXCEPT !.regs = (r :> v) @@ @]
Width(o) == IF o.size = 8 THEN 8 ELSE 4
Put(s, o, v) == PutReg(s, o.reg, Cut(v, Width(o)))

-----------------------------------------------------------------------------
(* Operands.                                                               *)
\* The constants of the module lie behind each other, each in the order of its value.
IsConstant(name) == name \in {ConstantOf(FpBits(n, 8)) : n \in 0..2}
ConstantBits(name) == FpBits(CHOOSE n \in 0..2 : ConstantOf(FpBits(n, 8)) = name, 8)
ConstantAddr(name) == ConstAt + 8 * (CHOOSE n \in 0..2 : ConstantOf(FpBits(n, 8)) = name)
AddrOf(name) == IF IsConstant(name) THEN ConstantAddr(name) ELSE SymbolAddr(name)
\* A page has 16 bytes here.
Page(at) == (at \div 16) * 16

\* encode_mov, with the immediate cut to what is written.
MovedImm(n, size) ==
    LET filled == {k \in 0..3 : Element(n, k) # 0}
        top == IF filled = {} THEN 0 ELSE CHOOSE k \in filled : \A j \in filled : j <= k
    IN Cut(IF filled = {top} \/ filled = {} THEN Element(n, top) * W(2) ^ top ELSE W(8) - W(2) + Element(n, 0), size)
Value2(s, o, size) ==
    CASE o.kind = "reg" -> Cut(InReg(s, o.reg), size)
      [] o.kind = "imm" -> Cut(o.value, size)
      [] o.kind = "stack" -> Cut(SlotAddr(o.slot) + o.const, size)
      [] o.kind = "symbol" -> AddrOf(o.name) % 16
\* The constants an address has room for: some times the size, or a few bytes.
Reaches(n, size) == (n >= 0 /\ n % size = 0 /\ n \div size < 20) \/ n \in -16..15
Encodable(o, size) == o.type = "imm" => Reaches(o.const, size)
Address(s, o) ==
    CASE o.type = "base" -> InReg(s, o.base)
      [] o.type = "imm" -> Cut(InReg(s, o.base) + o.const, 8)
      [] o.type = "stack" -> SlotAddr(o.slot) + o.const
      [] o.type = "reg" -> Cut(InReg(s, o.base) + InReg(s, o.index) * 2 ^ o.shift, 8)
ShiftBy(m) == IF Len(m.args) < 4 THEN 0 ELSE m.args[4].bits

-----------------------------------------------------------------------------
(* Instructions.                                                           *)
A64Integers == {"ADD", "SUB", "MUL", "SDIV", "UDIV", "AND", "ORR", "EOR", "LSL", "LSR", "ASR"}
Meaning(op) == CASE op = "ORR" -> "OR" [] op = "EOR" -> "XOR" [] op = "LSL" -> "LSHL" [] op = "LSR" -> "LSHR" [] op = "ASR" -> "ASHR"
                 [] OTHER -> op
A64Arith(s, m) ==
    LET size == Width(m.args[1])
        op == Meaning(m.op)
        a == IF m.args[2] = SP THEN 0 ELSE Cut(InReg(s, m.args[2].reg), size)
        given == Value2(s, m.args[3], size)
        b == IF m.args[3].kind = "reg" THEN Times(given, 2 ^ ShiftBy(m), size) ELSE given
        count == b % Bits(size)
    IN CASE m.args[3].kind = "imm" /\ m.args[3].value > AddImmLimit -> Stuck(s)
         [] op \in {"SDIV", "UDIV"} /\ b = 0 -> Put(s, m.args[1], 0)
         [] op = "SDIV" /\ a = SignBit(size) /\ b = W(size) - 1 -> Put(s, m.args[1], a)
         [] op \in {"LSHL", "LSHR", "ASHR"} -> Put(s, m.args[1], Arith(op, a, count, size))
         [] OTHER -> Put(s, m.args[1], Arith(op, a, b, size))

A64Transfer(s, m) ==
    LET size == CASE m.op \in {"LDRB", "STRB"} -> 1 [] m.op \in {"LDRH", "STRH"} -> 2 [] OTHER -> Width(m.args[1])
        at == Address(s, m.args[2])
    IN CASE ~Encodable(m.args[2], size) \/ ~Fits(s.mem, at, size) -> Stuck(s)
         [] Encodable(m.args[2], size) /\ Fits(s.mem, at, size) /\ m.op \in {"LDRB", "LDRH", "LDR"} ->
              PutReg(s, m.args[1].reg, Read(s.mem, at, size))
         [] OTHER -> [s EXCEPT !.mem = Written(@, at, size, Cut(InReg(s, m.args[1].reg), size))]
A64Convert(s, m) ==
    LET from == Width(m.args[2])
        to == Width(m.args[1])
        op == CASE m.op = "FCVT" -> (IF to = 8 THEN "FPROMOTE" ELSE "FDEMOTE") [] m.op = "SCVTF" -> "STOF" [] m.op = "UCVTF" -> "UTOF"
                [] m.op = "FCVTZS" -> "FTOS" [] m.op = "FCVTZU" -> "FTOU"
    IN IF m.op = "FCVT" /\ from = to THEN Stuck(s) ELSE Put(s, m.args[1], Convert(op, Cut(InReg(s, m.args[2].reg), from), from, to))

\* A branch after a comparison of floating-point numbers tests them as numbers.
A64Conditional(s, cond) ==
    LET number == CASE cond.cmp = "SGT" -> "FGT" [] cond.cmp = "SGE" -> "FGE" [] cond.cmp = "SLT" -> "FLT" [] cond.cmp = "SLE" -> "FLE"
                    [] OTHER -> cond.cmp
    IN Compares(IF s.flags[4] THEN number ELSE cond.cmp, s.flags[1], s.flags[2], s.flags[3])
A64Compare(s, m) ==
    LET size == Width(m.args[1])
    IN [s EXCEPT !.flags = <<Cut(InReg(s, m.args[1].reg), size), Cut(InReg(s, m.args[2].reg), size), size, m.op = "FCMP">>]

A64Call(s, m, params) ==
    LET name == IF m.op = "BL" THEN m.args[1].name ELSE FunctionAt(InReg(s, m.args[1].reg))
        types == params[name]
        args == [k \in DOMAIN types |-> Cut(InReg(s, ArgReg(types, k)), SizeOf(types[k], 8))]
    IN IF m.args[1].kind = "slot" \/ name \notin Functions THEN Stuck(s)
       ELSE [s EXCEPT !.mem = AfterCall(@, name, args), !.calls = Append(@, <<name, args>>),
                      !.regs = ("R0" :> Answer(name, args)) @@ ("V0" :> Answer(name, args)) @@ @]

A64Step(s, m, params) ==
    LET dst == m.args[1]
        src == m.args[2]
        from(size) == Cut(InReg(s, src.reg), size)
        part == 2 ^ m.args[3].bits
    IN CASE m.op = "MOV" /\ src.kind = "reg" -> Put(s, dst, InReg(s, src.reg))
         [] m.op \in {"MOV", "FMOV"} /\ src.kind = "imm" ->
              Put(s, dst, IF m.op = "MOV" THEN MovedImm(src.value, Width(dst)) ELSE src.value)
         [] m.op = "FMOV" /\ src.kind = "reg" -> Put(s, dst, InReg(s, src.reg))
         [] m.op = "MOVZ" -> Put(s, dst, src.value * part)
         [] m.op = "MOVK" ->
              Put(s, dst, InReg(s, dst.reg) - (InReg(s, dst.reg) \div part % W(2)) * part + src.value * part)
         [] m.op = "ADRP" -> PutReg(s, dst.reg, Page(IF src.part = "page" THEN AddrOf(src.name) ELSE GotAt))
         [] m.op = "LDR" /\ src.type = "symbol" /\ InReg(s, src.base) = Page(GotAt) -> PutReg(s, dst.reg, SymbolAddr(src.name))
         [] m.op \in {"LDR", "LDRB", "LDRH", "STR", "STRB", "STRH"} /\ src.type # "symbol" -> A64Transfer(s, m)
         [] m.op \in A64Integers -> A64Arith(s, m)
         [] m.op = "MSUB" ->
              Put(s, dst, Arith("SUB", Cut(InReg(s, m.args[4].reg), Width(dst)),
                                Times(from(Width(dst)), Cut(InReg(s, m.args[3].reg), Width(dst)), Width(dst)), Width(dst)))
         [] m.op \in FloatOps ->
              Put(s, dst, FloatOp(m.op, from(Width(dst)), Cut(InReg(s, m.args[3].reg), Width(dst)), Width(dst)))
         [] m.op = "UXTB" -> PutReg(s, dst.reg, from(1))
         [] m.op = "UXTH" -> PutReg(s, dst.reg, from(2))
         [] m.op \in {"SXTB", "SXTH", "SXTW"} ->
              Put(s, dst, SignExtended(InReg(s, src.reg), CASE m.op = "SXTB" -> 1 [] m.op = "SXTH" -> 2 [] m.op = "SXTW" -> 4, 8))
         [] m.op \in {"FCVT", "SCVTF", "UCVTF", "FCVTZS", "FCVTZU"} -> A64Convert(s, m)
         [] m.op \in {"CMP", "FCMP"} -> A64Compare(s, m)
         [] m.op \in {"CSEL", "FCSEL"} -> Put(s, dst, InReg(s, IF A64Conditional(s, m.args[4]) THEN src.reg ELSE m.args[3].reg))
         [] m.op \in {"BL", "BLR"} -> A64Call(s, m, params)
         [] OTHER -> Stuck(s)

RECURSIVE RunA64(_, _, _, _, _)
RunA64(s, code, params, b, k) ==
    CASE s.stuck \/ s.jumps > 12 \/ b > Len(code) -> Stuck(s)
      [] ~s.stuck /\ s.jumps <= 12 /\ b <= Len(code) /\ k > Len(code[b]) -> RunA64([s EXCEPT !.jumps = @ + 1], code, params, b + 1, 1)
      [] OTHER ->
           LET m == code[b][k]
               jumps == m.op = "B" \/ (m.op = "BCC" /\ A64Conditional(s, m.args[2]))
           IN CASE m.op = "RET" -> s
                [] jumps -> RunA64([s EXCEPT !.jumps = @ + 1], code, params, m.args[1].block, 1)
                [] m.op = "BCC" /\ ~jumps -> RunA64(s, code, params, b, k + 1)
                [] OTHER -> RunA64(A64Step(s, m, params), code, params, b, k + 1)

\* What is above an argument in its register is not defined.
A64Run(code, f, params, inputs) ==
    LET arg(k) == Filled(inputs[k], SizeOf(f.params[k], 8), k)
        regs == [r \in {ArgReg(f.params, k) : k \in DOMAIN f.params} |-> arg(CHOOSE k \in DOMAIN f.params : ArgReg(f.params, k) = r)]
        start == [regs |-> ("" :> 0) @@ regs, mem |-> Contents, flags |-> <<0, 0, 8, FALSE>>, calls |-> <<>>, stuck |-> FALSE, jumps |-> 0]
        end(s) == [mem |-> s.mem, calls |-> s.calls, stuck |-> s.stuck, result |-> InReg(s, ResultReg(f.result))]
    IN end(RunA64(start, code, params, 1, 1))
=============================================================================
