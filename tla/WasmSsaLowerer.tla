----------------------------- MODULE WasmSsaLowerer -----------------------------
(***************************************************************************)
(* The instructions that the WebAssembly back end emits for one            *)
(* instruction of the SSA and around the blocks of a function              *)
(* (target/wasm/wasm_ssa_lowerer.cpp).  Every register of the SSA is a     *)
(* local; values are pushed, operated on and set.  The blocks lie in a     *)
(* loop that a table of branches enters at the block whose index is in a   *)
(* local; a branch sets that local and goes on with the loop.              *)
(***************************************************************************)
EXTENDS SsaLowerer

\* type_as_primitive and lower_type: smaller integers and addresses are i32.
Lowerable(type) == type.len = 1
IsWide(type) == type \in {Prim("U64"), Prim("I64")}
TypeAsPrimitive(L, type) ==
    IF type.base # "struct" THEN type.base ELSE IF Size(L, type) = 8 THEN "U64" ELSE "U32"
LowerType(L, type) ==
    LET primitive == TypeAsPrimitive(L, type)
    IN CASE primitive \in {"U64", "I64"} -> "I64" [] primitive \in {"F32", "F64"} -> primitive [] OTHER -> "I32"
IntOf(wide) == IF wide THEN "I64" ELSE "I32"
FloatOf(type) == IF type = Prim("F64") THEN "F64" ELSE "F32"
NumericOf(type) == IF IsFloat(type) THEN FloatOf(type) ELSE IntOf(IsWide(type))

\* Locals are known by their names; those of the function have these.
ParamLocal(k) == "param " \o ToString(k)
StackPointer == "stack pointer"
BlockIndex == "block index"
ReturnValue == "return value"
\* init_func: the type of every local.
LocalTypes(L) ==
    LET f == L.func
        params == [k \in DOMAIN f.params |-> <<ParamLocal(k - 1), f.params[k]>>]
        result == IF Size(L, f.result) = 0 THEN <<>> ELSE <<<<ReturnValue, f.result>>>>
        blockParams == FoldLeft(LAMBDA all, b : all \o b.params, <<>>, f.blocks)
        passed == FoldLeft(LAMBDA all, p : all \o <<<<p.reg, p.type>>, <<TmpOf(p.reg), p.type>>>>, <<>>, blockParams)
        dests == SelectSeq(Instrs(f), LAMBDA i : i.dest # "" /\ i.op # "ALLOCA")
        typeOf(i) == CASE i.op = "SELECT" -> TypeOf(i.args[4]) [] i.op \in {"MEMBERPTR", "OFFSETPTR"} -> Prim("U32")
                       [] i.op \in {"UEXTEND", "SEXTEND", "TRUNCATE"} \cup Conversions -> TypeOf(i.args[2])
                       [] OTHER -> TypeOf(i.args[1])
        own == <<<<StackPointer, Prim("U32")>>, <<BlockIndex, Prim("U32")>>>>
        all == params \o own \o result \o passed \o [k \in DOMAIN dests |-> <<dests[k].dest, typeOf(dests[k])>>]
    IN [name \in {all[k][1] : k \in DOMAIN all} |-> LowerType(L, all[CHOOSE k \in DOMAIN all : all[k][1] = name][2])]

-----------------------------------------------------------------------------
\* An instruction of one of the types i32, i64, f32 and f64.
Typed(L, type, op) == Emit(L, op, <<type>>)
Get(L, local) == Emit(L, "LOCAL_GET", <<local>>)
Set(L, local) == Emit(L, "LOCAL_SET", <<local>>)
MOffset(n) == [kind |-> "imm", value |-> n]
MStack(slot, n) == [kind |-> "stack", slot |-> slot, value |-> n]
MSym(name) == [kind |-> "symbol", name |-> name]
MFp(n) == [kind |-> "fp", value |-> n]
I32Const(L, n) == Emit(L, "CONST", <<"I32", MOffset(n)>>)
SymbolConst(L, name) == Emit(L, "CONST", <<"I32", MSym(name)>>)
I32Op(L, op) == Typed(L, "I32", op)
SelectOp(L) == Emit(L, "SELECT", <<>>)
\* ASSERT and ASSERT_UNREACHABLE
Abort(L) == Emit(L, "ABORT", <<>>)

PushOperand(L, o) ==
    CASE Kind(o) = "reg" /\ IsStackReg(L, Value(o)) ->
           I32Op(Emit(Get(L, StackPointer), "CONST", <<"I32", MStack(L.slots[Value(o)], 0)>>), "ADD")
      [] Kind(o) = "reg" /\ ~IsStackReg(L, Value(o)) -> Get(L, Value(o))
      [] Kind(o) = "int" -> Emit(L, "CONST", <<IntOf(IsWide(TypeOf(o))), MOffset(Value(o))>>)
      [] Kind(o) = "fp" -> Emit(L, "CONST", <<FloatOf(TypeOf(o)), MFp(Value(o))>>)
      [] Kind(o) \in {"global", "func"} -> SymbolConst(L, Value(o))
      [] Kind(o) \in {"extern_global", "extern_func"} -> Abort(L)
Push2(L, a, b) == PushOperand(PushOperand(L, a), b)

-----------------------------------------------------------------------------
(* Memory.                                                                 *)
\* The type of an access, how many bytes it has, and whether they are signed.
AccessOf(L, type) ==
    LET primitive == TypeAsPrimitive(L, type)
    IN CASE primitive \in {"U8", "I8"} -> <<"I32", 1, primitive = "I8">>
         [] primitive \in {"U16", "I16"} -> <<"I32", 2, primitive = "I16">>
         [] OTHER -> <<LowerType(L, type), IF LowerType(L, type) \in {"I64", "F64"} THEN 8 ELSE 4, FALSE>>
\* An access of memory through the address in L, of what "pushed" pushes.
Access(L, op, type, pushed(_)) ==
    LET addr == L.addr
        access(A, offset) == Emit(pushed(A), op, AccessOf(L, type) \o <<offset>>)
    IN CASE IsSymbol(addr.base) -> access(SymbolConst(L, Value(addr.base)), MOffset(addr.const))
         [] Kind(addr.base) = "reg" /\ IsStackReg(L, Value(addr.base)) ->
              access(Get(L, StackPointer), MStack(L.slots[Value(addr.base)], addr.const))
         [] OTHER -> access(Get(L, Value(addr.base)), MOffset(addr.const))
LowerLoad(L, i) ==
    LET type == TypeOf(i.args[1])
    IN CASE type = Prim("VOID") -> Set(I32Const(L, 0), i.dest)
         [] type # Prim("VOID") /\ ~Lowerable(type) -> Abort(L)
         [] OTHER -> Set(Access(Collected(L, i.args[2]), "LOAD", type, LAMBDA A : A), i.dest)
LowerStore(L, i) ==
    LET type == TypeOf(i.args[1])
    IN CASE type = Prim("VOID") -> L
         [] type # Prim("VOID") /\ ~Lowerable(type) -> Abort(L)
         [] OTHER -> Access(Collected(L, i.args[2]), "STORE", type, LAMBDA A : PushOperand(A, i.args[1]))
LowerLoadarg(L, i) == Set(Get(L, ParamLocal(Value(i.args[2]))), i.dest)

\* The base is pushed, and a constant added to it.
PushAddress(L, const) ==
    LET base == L.addr.base
        A == CASE IsSymbol(base) -> I32Const(SymbolConst(L, Value(base)), const)
               [] Kind(base) = "reg" /\ IsStackReg(L, Value(base)) ->
                    Emit(Get(L, StackPointer), "CONST", <<"I32", MStack(L.slots[Value(base)], const)>>)
               [] OTHER -> I32Const(Get(L, Value(base)), const)
    IN I32Op(A, "ADD")
LowerOffsetptr(L, i) ==
    LET offset == i.args[2]
        scale == SizeOfOperand(L, i.args[3])
        A == Collected(L, i.args[1])
        constant == Kind(offset) = "int"
        B == PushAddress(A, A.addr.const + IF constant THEN scale * Value(offset) ELSE 0)
        C == I32Op(I32Op(I32Const(Get(B, Value(offset)), scale), "MUL"), "ADD")
    IN Set(IF constant THEN B ELSE C, i.dest)
LowerMemberptr(L, i) ==
    LET A == Collected(L, i.args[2])
    IN Set(PushAddress(A, A.addr.const + MemberOffset(TypeOf(i.args[1]), Value(i.args[3]), L.m.ptr)), i.dest)

-----------------------------------------------------------------------------
(* Operations.                                                             *)
OperationOf(op) ==
    CASE op \in {"ADD", "FADD"} -> "ADD" [] op \in {"SUB", "FSUB"} -> "SUB" [] op \in {"MUL", "FMUL"} -> "MUL"
      [] op = "FDIV" -> "DIV" [] op = "SDIV" -> "DIV_S" [] op = "UDIV" -> "DIV_U" [] op = "SREM" -> "REM_S"
      [] op = "UREM" -> "REM_U" [] op = "AND" -> "AND" [] op = "OR" -> "OR" [] op = "XOR" -> "XOR"
      [] op = "LSHL" -> "SHL" [] op = "LSHR" -> "SHR_U" [] op = "ASHR" -> "SHR_S"
Lower2OperandNumeric(L, i) ==
    Set(Typed(Push2(L, i.args[1], i.args[2]), NumericOf(TypeOf(i.args[1])), OperationOf(i.op)), i.dest)

ComparisonOf(cmp) ==
    CASE cmp \in {"EQ", "FEQ"} -> "EQ" [] cmp \in {"NE", "FNE"} -> "NE" [] cmp = "UGT" -> "GT_U" [] cmp = "UGE" -> "GE_U"
      [] cmp = "ULT" -> "LT_U" [] cmp = "ULE" -> "LE_U" [] cmp = "SGT" -> "GT_S" [] cmp = "SGE" -> "GE_S"
      [] cmp = "SLT" -> "LT_S" [] cmp = "SLE" -> "LE_S" [] cmp = "FGT" -> "GT" [] cmp = "FGE" -> "GE"
      [] cmp = "FLT" -> "LT" [] cmp = "FLE" -> "LE"
PushComparison(L, i) == Typed(Push2(L, i.args[1], i.args[3]), NumericOf(TypeOf(i.args[1])), ComparisonOf(Value(i.args[2])))
LowerSelect(L, i) == Set(SelectOp(PushComparison(Push2(L, i.args[4], i.args[5]), i)), i.dest)

LowerUextend(L, i) ==
    LET A == PushOperand(L, i.args[1])
        extend == IF i.op = "UEXTEND" THEN "EXTEND_U" ELSE "EXTEND_S"
    IN Set(IF SizeOfOperand(L, i.args[2]) = 8 THEN Emit(A, extend, <<"I64", "I32">>) ELSE A, i.dest)
LowerTruncate(L, i) ==
    LET A == PushOperand(L, i.args[1])
        B == IF SizeOfOperand(L, i.args[1]) = 8 THEN Emit(A, "WRAP", <<"I32", "I64">>) ELSE A
        size == SizeOfOperand(L, i.args[2])
    IN Set(IF size \in {1, 2} THEN I32Op(I32Const(B, W(size) - 1), "AND") ELSE B, i.dest)
\* A conversion of an unsigned number takes it for a signed one and the other way round.
LowerConversion(L, i) ==
    LET from == IntOf(SizeOfOperand(L, i.args[1]) = 8)
        to == IntOf(SizeOfOperand(L, i.args[2]) = 8)
        op == CASE i.op \in {"FPROMOTE", "FDEMOTE"} -> <<i.op, FloatOf(TypeOf(i.args[2])), FloatOf(TypeOf(i.args[1]))>>
                [] i.op = "UTOF" -> <<"CONVERT_S", FloatOf(TypeOf(i.args[2])), from>>
                [] i.op = "STOF" -> <<"CONVERT_U", FloatOf(TypeOf(i.args[2])), from>>
                [] i.op = "FTOU" -> <<"TRUNC_SAT_U", to, FloatOf(TypeOf(i.args[1]))>>
                [] i.op = "FTOS" -> <<"TRUNC_SAT_S", to, FloatOf(TypeOf(i.args[1]))>>
    IN Set(Emit(PushOperand(L, i.args[1]), op[1], Tail(op)), i.dest)

-----------------------------------------------------------------------------
(* Branches, calls and returns.                                            *)
\* Where the loop is from within a block: every block ends one enclosing construct.
BlockDepth(L) == NumBlocks(L.func) - (L.block - 1)
Continue(L) == Emit(Set(L, BlockIndex), "BR", <<MOffset(BlockDepth(L))>>)
EmitBlockPrologue(L) == FoldLeft(LAMBDA A, p : Set(Get(A, TmpOf(p.reg)), p.reg), L, L.func.blocks[L.block].params)
StoreBranchArgs(L, target) ==
    FoldLeft(LAMBDA A, k : Set(PushOperand(A, target.args[k]), TmpOf(L.func.blocks[target.block].params[k].reg)),
             L, [k \in DOMAIN target.args |-> k])
LowerJmp(L, i) == LET target == Value(i.args[1]) IN Continue(I32Const(StoreBranchArgs(L, target), target.block - 1))
\* The arguments of both targets are stored.
LowerCjmp(L, i) ==
    LET yes == Value(i.args[4])
        no == Value(i.args[5])
        A == StoreBranchArgs(StoreBranchArgs(L, yes), no)
        B == I32Const(I32Const(A, yes.block - 1), no.block - 1)
    IN Continue(SelectOp(PushComparison(B, i)))
LowerRet(L, i) ==
    Continue(I32Const(IF i.args = <<>> THEN L ELSE Set(PushOperand(L, i.args[1]), ReturnValue), NumBlocks(L.func)))
LowerCall(L, i) ==
    LET callee == i.args[1]
        params == [k \in 1..(Len(i.args) - 1) |-> LowerType(L, TypeOf(i.args[k + 1]))]
        result == IF Size(L, TypeOf(callee)) = 0 THEN "none" ELSE LowerType(L, TypeOf(callee))
        pushed == FoldLeft(LAMBDA A, k : PushOperand(A, i.args[k + 1]), L, [k \in DOMAIN params |-> k])
        called == IF IsSymbol(callee) THEN Emit(pushed, "CALL", <<MSym(Value(callee)), result>>)
                  ELSE Emit(Get(pushed, Value(callee)), "CALL_INDIRECT", <<params, result>>)
    IN CASE i.dest # "" -> Set(called, i.dest)
         [] i.dest = "" /\ IsSymbol(callee) /\ result # "none" -> Emit(called, "DROP", <<>>)
         [] OTHER -> called

\* generate_blocks: the loop and the table around the blocks.
EndBlock == [op |-> "END_BLOCK", args |-> <<>>]
EntryBlock(f) ==
    LET n == NumBlocks(f)
        m(op, args) == [op |-> op, args |-> args]
    IN <<m("CONST", <<"I32", MOffset(0)>>), m("LOCAL_SET", <<BlockIndex>>), m("BLOCK", <<>>), m("LOOP", <<>>)>>
       \o [k \in 1..(n + 1) |-> m("BLOCK", <<>>)]
       \o <<m("LOCAL_GET", <<BlockIndex>>), m("BR_TABLE", [k \in 1..n |-> MOffset(k - 1)] \o <<MOffset(n + 2)>>), EndBlock>>
ExitBlock(f, size) ==
    <<EndBlock, EndBlock>> \o (IF size = 0 THEN <<>> ELSE <<[op |-> "LOCAL_GET", args |-> <<ReturnValue>>]>>)
    \o <<[op |-> "END_FUNCTION", args |-> <<>>]>>

\* A copy and a square root are left to the base class, which only warns.
LowerWasm(L, i) ==
    CASE i.op = "LOAD" -> LowerLoad(L, i)
      [] i.op = "STORE" -> LowerStore(L, i)
      [] i.op = "LOADARG" -> LowerLoadarg(L, i)
      [] i.op \in IntOps \cup FloatOps -> Lower2OperandNumeric(L, i)
      [] i.op = "JMP" -> LowerJmp(L, i)
      [] i.op \in {"CJMP", "FCJMP"} -> LowerCjmp(L, i)
      [] i.op = "SELECT" -> LowerSelect(L, i)
      [] i.op = "CALL" -> LowerCall(L, i)
      [] i.op = "RET" -> LowerRet(L, i)
      [] i.op \in {"UEXTEND", "SEXTEND"} -> LowerUextend(L, i)
      [] i.op = "TRUNCATE" -> LowerTruncate(L, i)
      [] i.op \in Conversions -> LowerConversion(L, i)
      [] i.op = "OFFSETPTR" -> LowerOffsetptr(L, i)
      [] i.op = "MEMBERPTR" -> LowerMemberptr(L, i)
      [] OTHER -> L

-----------------------------------------------------------------------------
(***************************************************************************)
(* What the instructions of the WebAssembly back end do when they run: a   *)
(* stack of typed values, locals that start at zero, and branches to the   *)
(* beginning of an enclosing loop or the end of an enclosing block.  An    *)
(* operand of another type, which would not be validated, stops it.  This  *)
(* is the instruction set and not code of the repository.                  *)
(***************************************************************************)

BytesOf(type) == IF type \in {"I64", "F64"} THEN 8 ELSE 4
Stuck(s) == [s EXCEPT !.stuck = TRUE]
Push(s, type, v) == [s EXCEPT !.stack = Append(@, <<type, Cut(v, BytesOf(type))>>)]
\* The values of the given types on top of the stack.
Has(s, types) ==
    /\ Len(s.stack) >= Len(types)
    /\ \A k \in DOMAIN types : s.stack[Len(s.stack) - Len(types) + k][1] = types[k]
Taken(s, n) == [k \in 1..n |-> s.stack[Len(s.stack) - n + k][2]]
Drop(s, n) == [s EXCEPT !.stack = SubSeq(@, 1, Len(@) - n)]
\* An operation that pops operands of the types given and pushes a result.
Apply(s, types, type, result(_)) ==
    IF Has(s, types) THEN Push(Drop(s, Len(types)), type, result(Taken(s, Len(types)))) ELSE Stuck(s)

Immediate(o, type) ==
    CASE o.kind = "imm" -> o.value
      [] o.kind = "stack" -> SlotBytes * (o.slot - 1) + o.value
      [] o.kind = "symbol" -> SymbolAddr(o.name)
      [] o.kind = "fp" -> FpBits(o.value, BytesOf(type))

WasmInteger == [ADD |-> "ADD", SUB |-> "SUB", MUL |-> "MUL", DIV_S |-> "SDIV", DIV_U |-> "UDIV", REM_S |-> "SREM", REM_U |-> "UREM",
                AND |-> "AND", OR |-> "OR", XOR |-> "XOR", SHL |-> "LSHL", SHR_U |-> "LSHR", SHR_S |-> "ASHR"]
WasmFloat == [ADD |-> "FADD", SUB |-> "FSUB", MUL |-> "FMUL", DIV |-> "FDIV"]
WasmCompare == [EQ |-> "EQ", NE |-> "NE", GT_U |-> "UGT", GE_U |-> "UGE", LT_U |-> "ULT", LE_U |-> "ULE",
                GT_S |-> "SGT", GE_S |-> "SGE", LT_S |-> "SLT", LE_S |-> "SLE", GT |-> "FGT", GE |-> "FGE", LT |-> "FLT", LE |-> "FLE"]
WasmConvert == [FPROMOTE |-> "FPROMOTE", FDEMOTE |-> "FDEMOTE", CONVERT_S |-> "STOF", CONVERT_U |-> "UTOF",
                TRUNC_SAT_S |-> "FTOS", TRUNC_SAT_U |-> "FTOU"]
IsInt(type) == type \in {"I32", "I64"}

Numeric(s, op, type) ==
    LET size == BytesOf(type)
        count(v) == IF op \in {"SHL", "SHR_U", "SHR_S"} THEN v % Bits(size) ELSE v
        traps == Has(s, <<type, type>>) /\ op \in {"DIV_S", "DIV_U", "REM_S", "REM_U"} /\ Taken(s, 1)[1] = 0
    IN CASE traps -> Stuck(s)
         [] ~traps /\ op \in DOMAIN WasmCompare ->
              Apply(s, <<type, type>>, "I32", LAMBDA v : IF Compares(WasmCompare[op], v[1], v[2], size) THEN 1 ELSE 0)
         [] ~traps /\ op \notin DOMAIN WasmCompare /\ IsInt(type) ->
              Apply(s, <<type, type>>, type, LAMBDA v : Arith(WasmInteger[op], v[1], count(v[2]), size))
         [] OTHER -> Apply(s, <<type, type>>, type, LAMBDA v : FloatOp(WasmFloat[op], v[1], v[2], size))
\* An offset is a number without a sign that is added to the address.
Memory(s, m) ==
    LET type == m.args[1]
        n == m.args[2]
        load == m.op = "LOAD"
        types == IF load THEN <<"I32">> ELSE <<"I32", type>>
        offset == Immediate(m.args[4], "I32")
        v == Taken(s, Len(types))
        at == v[1] + offset
        loaded == Read(s.mem, at, n)
    IN CASE ~Has(s, types) \/ offset < 0 -> Stuck(s)
         [] Has(s, types) /\ offset >= 0 /\ ~Fits(s.mem, at, n) -> Stuck(s)
         [] OTHER -> IF load THEN Push(Drop(s, 1), type, IF m.args[3] THEN SignExtended(loaded, n, BytesOf(type)) ELSE loaded)
                     ELSE [Drop(s, 2) EXCEPT !.mem = Written(@, at, n, v[2])]
WasmCall(s, name, given, params, result) ==
    LET n == Len(params)
        args == Taken(s, n)
        called == [Drop(s, n) EXCEPT !.mem = AfterCall(@, name, args), !.calls = Append(@, <<name, args>>)]
    IN CASE given # params \/ ~Has(s, params) -> Stuck(s)
         [] given = params /\ Has(s, params) /\ result = "none" -> called
         [] OTHER -> Push(called, result, Answer(name, args))

\* Everything but the branches.
WasmStep(s, m, params) ==
    LET a == m.args
        types(name) == [k \in DOMAIN params[name] |-> LowerType([m |-> Machine(WASM, FALSE, FALSE)], params[name][k])]
        callee == FunctionAt(Taken(s, 1)[1])
    IN CASE m.op = "CONST" -> Push(s, a[1], Immediate(a[2], a[1]))
         [] m.op = "LOCAL_GET" -> Push(s, s.types[a[1]], s.locals[a[1]])
         [] m.op = "LOCAL_SET" ->
              IF Has(s, <<s.types[a[1]]>>) THEN [Drop(s, 1) EXCEPT !.locals[a[1]] = Taken(s, 1)[1]] ELSE Stuck(s)
         [] m.op = "DROP" -> Drop(s, 1)
         [] m.op \in {"LOAD", "STORE"} -> Memory(s, m)
         [] m.op \in DOMAIN WasmConvert ->
              Apply(s, <<a[2]>>, a[1], LAMBDA v : Convert(WasmConvert[m.op], v[1], BytesOf(a[2]), BytesOf(a[1])))
         [] m.op \in {"EXTEND_U", "WRAP"} -> Apply(s, <<a[2]>>, a[1], LAMBDA v : v[1])
         [] m.op = "EXTEND_S" -> Apply(s, <<a[2]>>, a[1], LAMBDA v : SignExtended(v[1], 4, 8))
         [] m.op = "SELECT" ->
              LET type == s.stack[Len(s.stack) - 1][1]
              IN Apply(s, <<type, type, "I32">>, type, LAMBDA v : IF v[3] # 0 THEN v[1] ELSE v[2])
         [] m.op = "CALL" -> WasmCall(s, a[1].name, types(a[1].name), types(a[1].name), a[2])
         [] m.op = "CALL_INDIRECT" ->
              IF ~Has(s, <<"I32">>) \/ callee \notin Functions THEN Stuck(s) ELSE WasmCall(Drop(s, 1), callee, types(callee), a[1], a[2])
         [] m.op \in DOMAIN WasmInteger \cup DOMAIN WasmFloat \cup DOMAIN WasmCompare -> Numeric(s, m.op, a[1])
         [] OTHER -> Stuck(s)

\* The end of the construct that begins at k.
Begins(code, k) == code[k].op \in {"BLOCK", "LOOP"}
EndOf(code, k) ==
    LET open(j) == Cardinality({i \in k..j : Begins(code, i)}) - Cardinality({i \in k..j : code[i].op = "END_BLOCK"})
    IN CHOOSE j \in k..Len(code) : open(j) = 0 /\ \A i \in k..(j - 1) : open(i) > 0

RECURSIVE RunWasm(_, _, _, _)
\* A branch leaves the constructs within the one it names; a loop begins again.
Branch(s, code, params, depth) ==
    LET n == Len(s.ctrl) - depth
        to == s.ctrl[n]
        cut == [s EXCEPT !.stack = SubSeq(@, 1, to.height), !.jumps = @ + 1,
                         !.ctrl = SubSeq(@, 1, IF to.loop THEN n ELSE n - 1)]
    IN IF n < 1 THEN Stuck(s) ELSE RunWasm(cut, code, params, IF to.loop THEN to.start + 1 ELSE to.end + 1)
RunWasm(s, code, params, k) ==
    LET m == code[k]
        index == Taken(s, 1)[1]
    IN CASE s.stuck \/ s.jumps > 24 \/ k > Len(code) -> Stuck(s)
         [] ~s.stuck /\ s.jumps <= 24 /\ k <= Len(code) /\ m.op = "END_FUNCTION" -> s
         [] OTHER ->
              CASE Begins(code, k) ->
                     RunWasm([s EXCEPT !.ctrl = Append(@, [loop |-> m.op = "LOOP", start |-> k, end |-> EndOf(code, k), height |-> Len(s.stack)])],
                             code, params, k + 1)
                [] m.op = "END_BLOCK" ->
                     IF Len(s.stack) = s.ctrl[Len(s.ctrl)].height THEN RunWasm([s EXCEPT !.ctrl = Front(@)], code, params, k + 1) ELSE Stuck(s)
                [] m.op = "BR" -> Branch(s, code, params, m.args[1].value)
                [] m.op = "BR_TABLE" ->
                     Branch(Drop(s, 1), code, params, m.args[IF index + 1 < Len(m.args) THEN index + 1 ELSE Len(m.args)].value)
                [] OTHER -> RunWasm(WasmStep(s, m, params), code, params, k + 1)

WasmRun(blocks, f, L, params, inputs) ==
    LET size == SizeOf(f.result, 4)
        code == FoldLeft(LAMBDA all, b : all \o b, <<>>, <<EntryBlock(f)>> \o blocks \o <<ExitBlock(f, size)>>)
        arg(k) == IF SizeOf(f.params[k], 4) = 8 THEN Cut(inputs[k], 8) ELSE Cut(Filled(inputs[k], SizeOf(f.params[k], 4), k), 4)
        locals(types) == [name \in DOMAIN types |->
            IF name = StackPointer THEN StackAt
            ELSE IF \E k \in DOMAIN f.params : name = ParamLocal(k - 1) THEN arg(CHOOSE k \in DOMAIN f.params : name = ParamLocal(k - 1))
            ELSE 0]
        start(types) == [locals |-> locals(types), types |-> types, stack |-> <<>>, ctrl |-> <<>>, mem |-> Contents,
                         calls |-> <<>>, stuck |-> FALSE, jumps |-> 0]
        left == IF size = 0 THEN 0 ELSE 1
        end(s) == [mem |-> s.mem, calls |-> s.calls, stuck |-> s.stuck \/ Len(s.stack) # left,
                   result |-> IF left = 1 /\ Len(s.stack) = 1 THEN s.stack[1][2] ELSE 0]
    IN end(RunWasm(start(LocalTypes(L)), code, params, 1))
=============================================================================
