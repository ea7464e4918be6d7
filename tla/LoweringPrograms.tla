---------------------------- MODULE LoweringPrograms ----------------------------
(***************************************************************************)
(* Functions of the SSA for the lowering: every instruction over           *)
(* parameters and constants of every size, every form of address, branches *)
(* and their arguments in both orders, calls, copies, and values that may  *)
(* be folded into the instruction that reads them.                         *)
(***************************************************************************)
EXTENDS SsaLowerer

CONSTANT Defects        \* the defects of the lowerers whose inputs are left out

U8 == Prim("U8")
U16 == Prim("U16")
U32 == Prim("U32")
U64 == Prim("U64")
F32 == Prim("F32")
F64 == Prim("F64")
ADDR == Prim("ADDR")
VOID == Prim("VOID")
Block(params, instrs) == [params |-> params, instrs |-> instrs]
Func(params, result, bs) == [params |-> params, result |-> result, blocks |-> bs]
Arg(reg, type, k) == Instr("LOADARG", reg, <<Type(type), Const(k, U32)>>)
Ret(o) == Instr("RET", "", <<o>>)
\* A function with the parameters a and b, of one block.
Simple(params, result, instrs) ==
    Func(params, TypeOf(result), <<Block(<<>>, [k \in DOMAIN params |-> Arg(<<"a", "b">>[k], params[k], k - 1)] \o instrs \o <<Ret(result)>>)>>)
A(type) == Reg("a", type)
B(type) == Reg("b", type)


I8 == Prim("I8")
I16 == Prim("I16")
I32 == Prim("I32")
I64 == Prim("I64")
Ints == {U8, U16, U32, U64}
Signeds == {I8, I16, I32, I64}
Floats == {F32, F64}
SignedOps == {"SDIV", "SREM", "ASHR"}
FloatArith == {"FADD", "FSUB", "FMUL", "FDIV"}
IntCmps == {"EQ", "NE", "UGT", "UGE", "ULT", "ULE", "SGT", "SGE", "SLT", "SLE"}
FloatCmps == {"FEQ", "FNE", "FGT", "FGE", "FLT", "FLE"}
R(type) == Reg("r", type)
Load(dest, type, from) == Instr("LOAD", dest, <<Type(type), from>>)
Store(value, to) == Instr("STORE", "", <<value, to>>)
G == <<"global", "g", ADDR>>
E == <<"extern_global", "e", ADDR>>
FuncF == <<"func", "f", ADDR>>
FuncH == <<"extern_func", "h", ADDR>>
OffsetPtr(dest, base, offset, type) == Instr("OFFSETPTR", dest, <<base, offset, Type(type)>>)
MemberPtr(dest, type, base, k) == Instr("MEMBERPTR", dest, <<Type(type), base, Const(k, U32)>>)
P(name) == Reg(name, ADDR)

\* One operation on parameters and constants.
Operations(types, ops, n) ==
    UNION {{Simple(<<t, t>>, R(t), <<Instr(op, "r", args)>>) :
               op \in ops, args \in {<<A(t), B(t)>>, <<A(t), Const(n, t)>>, <<Const(1, t), B(t)>>, <<A(t), Const(0, t)>>}} : t \in types}
FloatOperations ==
    UNION {{Simple(<<t, t>>, R(t), <<Instr(op, "r", args)>>) :
               op \in FloatArith, args \in {<<A(t), B(t)>>, <<A(t), Fp(1, t)>>, <<Fp(2, t), B(t)>>, <<Fp(0, t), B(t)>>}} : t \in Floats}
Conversion(op, from, to) == Simple(<<from, from>>, R(to), <<Instr(op, "r", <<A(from), Type(to)>>)>>)
Widening == {<<U8, U16>>, <<U8, U32>>, <<U8, U64>>, <<U16, U32>>, <<U16, U64>>, <<U32, U64>>}
ConversionPrograms ==
    {Conversion(op, p[1], p[2]) : op \in {"UEXTEND", "SEXTEND"}, p \in Widening}
    \cup {Conversion("TRUNCATE", p[2], p[1]) : p \in Widening}
    \cup {Conversion("FPROMOTE", F32, F64), Conversion("FDEMOTE", F64, F32)}
    \cup {Conversion(op, t, u) : op \in {"STOF"}, t \in Signeds, u \in Floats}
    \cup {Conversion(op, t, u) : op \in {"UTOF"}, t \in Ints, u \in Floats}
    \cup {Conversion(op, u, t) : op \in {"FTOS"}, t \in Signeds, u \in Floats}
    \cup {Conversion(op, u, t) : op \in {"FTOU"}, t \in Ints, u \in Floats}
    \cup {Simple(<<t, t>>, R(t), <<Instr("SQRT", "r", <<A(t)>>)>>) : t \in Floats}

\* Values of all sizes moved between memory and registers, through addresses of all forms.
Record == Struct(<<U8, U32, U16>>)
Sized(n) == Array(U8, n)
AddrForms(u) == {
    [code |-> <<>>, at |-> G],
    [code |-> <<>>, at |-> E],
    [code |-> <<OffsetPtr("p", G, Const(3, u), U16)>>, at |-> P("p")],
    [code |-> <<MemberPtr("p", Record, E, 1)>>, at |-> P("p")],
    [code |-> <<Instr("AND", "i", <<B(u), Const(3, u)>>), OffsetPtr("p", G, Reg("i", u), U32)>>, at |-> P("p")],
    [code |-> <<Instr("AND", "i", <<B(u), Const(1, u)>>), OffsetPtr("p", G, Reg("i", u), Record),
                MemberPtr("q", Record, P("p"), 2)>>, at |-> P("q")],
    [code |-> <<Instr("ALLOCA", "s", <<Type(Array(U64, 2))>>), OffsetPtr("p", P("s"), Const(2, u), U32)>>, at |-> P("p")],
    [code |-> <<Instr("ALLOCA", "s", <<Type(Array(U64, 2))>>), Instr("ALLOCA", "z", <<Type(U64)>>)>>, at |-> P("z")],
    [code |-> <<Instr("AND", "i", <<B(u), Const(1, u)>>), OffsetPtr("p", E, Const(1, u), U32), OffsetPtr("q", P("p"), Reg("i", u), U16),
                OffsetPtr("o", P("q"), Const(-1, u), U8)>>, at |-> P("o")]}
MemoryTypes == {U8, U16, Sized(3), U32, Sized(5), Sized(6), Sized(7), U64, F32, F64, Struct(<<U8, U8>>), Struct(<<U32, U16>>)}
MemoryPrograms(u) ==
    UNION {{Simple(<<U64, u>>, R(t), form.code \o <<Load("r", t, form.at)>>) : form \in AddrForms(u)} : t \in MemoryTypes}
    \cup UNION {{Simple(<<U64, u>>, A(U64), form.code \o <<Load("r", t, form.at), Store(R(t), G)>>) : form \in AddrForms(u)} : t \in MemoryTypes}
    \cup UNION {{Simple(<<t, u>>, A(t), form.code \o <<Store(A(t), form.at)>>) : form \in AddrForms(u)} : t \in MemoryTypes \ {Sized(3), Sized(5), Sized(6), Sized(7)}}
    \cup UNION {{Simple(<<U64, u>>, A(U64), <<Load("r", t, E)>> \o form.code \o <<Store(R(t), form.at)>>) : form \in AddrForms(u)} : t \in MemoryTypes}
    \cup UNION {{Simple(<<U64, u>>, R(U64), form.code \o <<Store(c, form.at), Load("r", U64, form.at)>>) :
                   c \in {Const(3, U8), Const(2, U32), Const(1000, U64), Const(-1, I64), Fp(0, F32), Fp(1, F32), Fp(2, F64), Fp(0, F64), G, E, FuncF, FuncH}} : form \in AddrForms(u)}
    \cup {Simple(<<U64, u>>, P("p"), form.code) : form \in {x \in AddrForms(u) : Len(x.code) > 0 /\ x.at = P("p")}}

\* Branches, with values passed to the blocks, in both orders of the targets.
Jmp(block, args) == Instr("JMP", "", <<Target(block, args)>>)
CJmp(a, cmp, b, yes, no) == Instr(IF IsFloat(TypeOf(a)) THEN "FCJMP" ELSE "CJMP", "", <<a, Comparison(cmp), b, yes, no>>)
Param(reg, type) == [reg |-> reg, type |-> type]
Choice(t, a, cmp, b, yes, no) ==
    Func(<<t, t>>, U32, <<Block(<<>>, <<Arg("a", t, 0), Arg("b", t, 1), CJmp(a, cmp, b, Target(yes, <<>>), Target(no, <<>>))>>),
                          Block(<<>>, <<Ret(Const(1, U32))>>), Block(<<>>, <<Ret(Const(2, U32))>>)>>)
Branching == UNION {{Choice(t, A(t), cmp, b, p[1], p[2]) : cmp \in IntCmps, b \in {B(t), Const(IF t = U8 THEN 1 ELSE 5, t)}, p \in {<<2, 3>>, <<3, 2>>}} : t \in {U8, U32, U64}}
           \cup UNION {{Choice(t, A(t), cmp, b, p[1], p[2]) : cmp \in FloatCmps, b \in {B(t), Fp(1, t)}, p \in {<<2, 3>>, <<3, 2>>}} : t \in Floats}
Joining(t, zero, p, q, add) ==
    Func(<<t, t>>, t, <<Block(<<>>, <<Arg("a", t, 0), Arg("b", t, 1), CJmp(A(t), IF IsFloat(t) THEN "FLT" ELSE "ULT", B(t), p, q)>>),
                        Block(<<Param("x", t)>>, <<Instr(add, "y", <<Reg("x", t), B(t)>>), Jmp(3, <<Reg("y", t), zero>>)>>),
                        Block(<<Param("v", t), Param("w", t)>>, <<Instr(add, "r", <<Reg("v", t), Reg("w", t)>>), Ret(R(t))>>)>>)
JoinTargets(t) == {Target(2, <<A(t)>>), Target(3, <<B(t), A(t)>>), Target(3, <<A(t), A(t)>>)}
Joins == UNION {{Joining(t, IF IsFloat(t) THEN Fp(0, t) ELSE Const(0, t), p, q, IF IsFloat(t) THEN "FADD" ELSE "ADD") :
                    p \in JoinTargets(t), q \in JoinTargets(t)} : t \in {U16, U32, U64, F32, F64}}
\* The two values trade places every time.
Swapping == Func(<<U64, U64>>, U64,
    <<Block(<<>>, <<Arg("a", U64, 0), Arg("b", U64, 1), Jmp(2, <<Const(0, U64), A(U64), B(U64)>>)>>),
      Block(<<Param("i", U64), Param("x", U64), Param("y", U64)>>,
            <<Instr("ADD", "j", <<Reg("i", U64), Const(1, U64)>>),
              CJmp(Reg("j", U64), "ULT", Const(3, U64), Target(2, <<Reg("j", U64), Reg("y", U64), Reg("x", U64)>>),
                   Target(3, <<Reg("x", U64)>>))>>),
      Block(<<Param("z", U64)>>, <<Ret(Reg("z", U64))>>)>>)
Selects ==
    UNION {{Simple(<<t, t>>, R(u), <<Instr("SELECT", "r", <<A(t), Comparison(cmp), b, Const(1, u), v>>)>>) :
               cmp \in IntCmps, b \in {B(t), Const(1, t)}, u \in {t}, v \in {A(t)}} : t \in Ints}
    \cup UNION {{Simple(<<t, t>>, R(t), <<Instr("SELECT", "r", <<A(t), Comparison(cmp), B(t), A(t), B(t)>>)>>) : cmp \in FloatCmps} : t \in Floats}
    \cup {Simple(<<U32, U32>>, R(U64), <<Instr("SELECT", "r", <<A(U32), Comparison("ULT"), B(U32), Const(1000, U64), Const(2, U64)>>)>>)}

CallF(dest, callee, arg) == Instr("CALL", dest, <<callee, arg>>)
AtF(type) == <<"func", "f", type>>
AtH(type) == <<"extern_func", "h", type>>
AtP(type) == <<"reg", "p", type>>
Calls(u) ==
    {Simple(<<u, u>>, A(u), <<CallF("", AtF(VOID), v)>>) : v \in {A(u), Const(0, u), Const(9, u), G, E, FuncF}}
    \cup {Simple(<<u, u>>, R(t), <<CallF("r", AtF(t), B(u))>>) : t \in Ints \cup Floats}
    \cup {Simple(<<u, u>>, A(u), <<CallF("r", AtF(t), B(u))>>) : t \in {U32, F64}}
    \cup {Simple(<<U32, F64>>, R(t), <<Instr("CALL", "r", <<AtH(t), v, w>>)>>) :
             t \in {U32, F32, F64}, v \in {A(U32), Const(3, U32)}, w \in {B(F64), Fp(0, F64), Fp(2, F64)}}
    \cup {Simple(<<u, u>>, R(u), <<CallF("x", AtF(u), A(u)), CallF("y", AtF(u), Reg("x", u)),
                                         Instr("SUB", "r", <<Reg("x", u), Reg("y", u)>>)>>)}
    \cup {Simple(<<u, u>>, R(u), <<Instr("ALLOCA", "s", <<Type(u)>>), Store(FuncF, P("s")), Load("p", ADDR, P("s")),
                                         CallF("r", AtP(u), v)>>) : v \in {A(u), P("s")}}
    \cup {Simple(<<u, u>>, R(u), <<Instr("ALLOCA", "s", <<Type(u)>>), Store(FuncF, P("s")), Load("p", ADDR, P("s")),
                                         Store(P("p"), G), CallF("r", AtP(u), P("p"))>>)}

Pointers(u) == [global |-> <<OffsetPtr("p", G, Const(1, u), U8)>>, extern |-> <<OffsetPtr("p", E, Const(0, u), U8)>>,
             slot |-> <<Instr("ALLOCA", "p", <<Type(Array(u, 2))>>)>>]
Copies(u) ==
    {Simple(<<u, u>>, A(u), <<OffsetPtr("q", E, Const(1, u), U16)>> \o Pointers(u)[x] \o <<Instr("COPY", "", <<P("p"), P("q"), Type(Sized(n))>>)>>) :
        x \in DOMAIN Pointers(u), n \in {0, 1, 3, 7, 8, 13, 16}}
    \cup {Simple(<<u, u>>, A(u), <<Instr("ALLOCA", "s", <<Type(Array(u, 2))>>), Store(A(u), P("s")), OffsetPtr("q", G, Const(0, u), u),
                                         Instr("COPY", "", <<P("q"), P("s"), Type(Sized(n))>>)>>) : n \in {4, 6, 8}}

\* Values that are used at once or twice, read before or after a store.
X(type) == Reg("x", type)
Folding(u) ==
    UNION {{Simple(<<t, t>>, R(t), <<Load("x", t, G), Instr(op, "r", <<B(t), X(t)>>)>>) : op \in {"ADD", "MUL", "XOR"}} : t \in Ints}
    \cup {Simple(<<F64, F64>>, R(F64), <<Load("x", F64, G), Instr("FSUB", "r", <<B(F64), X(F64)>>)>>)}
    \cup {Simple(<<U32, U32>>, R(U32), <<Load("x", U32, G), Store(X(U32), E), Instr("ADD", "r", <<B(U32), X(U32)>>)>>),
          Simple(<<U32, U32>>, R(U32), <<Load("x", U32, G), Instr("ADD", "r", <<X(U32), X(U32)>>)>>),
          Simple(<<U32, U32>>, R(U32), <<Load("x", U32, G), Instr("ADD", "y", <<A(U32), X(U32)>>), Instr("ADD", "r", <<A(U32), B(U32)>>)>>),
          Simple(<<U32, U32>>, R(U32), <<Load("x", U32, G), Store(B(U32), G), Instr("ADD", "r", <<A(U32), X(U32)>>)>>),
          Simple(<<U32, U32>>, R(U32), <<Load("x", U32, G), Store(B(U32), G), Instr("ADD", "r", <<X(U32), A(U32)>>)>>),
          Simple(<<U64, U64>>, R(U64), <<OffsetPtr("p", E, Const(1, u), U8), Store(P("p"), G), Load("r", U64, P("p"))>>),
          Simple(<<U64, U64>>, R(U64), <<OffsetPtr("p", E, Const(1, u), U8), OffsetPtr("q", P("p"), Const(1, u), U8),
                                         Load("x", U64, P("q")), Load("y", U64, P("q")), Instr("ADD", "r", <<X(U64), Reg("y", U64)>>)>>),
          Simple(<<U64, U64>>, P("p"), <<OffsetPtr("p", E, Const(1, u), U8), OffsetPtr("q", P("p"), Const(1, u), U8),
                                         Load("x", U64, P("q")), Load("y", U64, P("q")), Instr("ADD", "r", <<X(U64), Reg("y", U64)>>)>>),
          Simple(<<U64, U64>>, P("p"), <<OffsetPtr("p", E, Const(1, u), U8), OffsetPtr("q", P("p"), Const(1, u), U8),
                                         Store(A(U64), P("q")), Store(B(U64), P("q"))>>)}

\* Offsets and what functions are given have the size of an address.
TestPrograms(u) == Operations(Ints, IntOps \ SignedOps, 3) \cup Operations(Signeds, SignedOps, -1) \cup FloatOperations
    \cup ConversionPrograms \cup MemoryPrograms(u) \cup Branching \cup Joins \cup {Swapping} \cup Selects \cup Calls(u) \cup Copies(u) \cup Folding(u)

-----------------------------------------------------------------------------
(* What the lowerers get wrong: each defect is a condition on the function *)
(* and the machine.                                                        *)
InstrsOf(f) == ToSet(Instrs(f))
Some(f, op, Is(_)) == \E i \in InstrsOf(f) : i.op = op /\ Is(i)
Bytes(o) == SizeOf(TypeOf(o), 8)
IsReg(o, r) == Kind(o) = "reg" /\ Value(o) = r
Narrow(o) == Bytes(o) < 4 /\ ~IsFloat(TypeOf(o))
Unequal(i) == Bytes(i.args[1]) # Bytes(i.args[4])
ReadsBefore(f) ==
    \E b \in DOMAIN f.blocks : \E j, k, n \in DOMAIN f.blocks[b].instrs :
        LET at(x) == f.blocks[b].instrs[x]
        IN j < k /\ k < n /\ at(j).op = "LOAD" /\ at(k).op = "STORE" /\ at(k).args[2] = at(j).args[2]
           /\ at(n).op = "ADD" /\ IsReg(at(n).args[2], at(j).dest)
AddressedBy(f, r) == {i \in InstrsOf(f) : i.op \in {"LOAD", "STORE"} /\ IsReg(i.args[2], r)}
\* A pointer that only other pointers are made of, when those are used twice.
InnerUse(f) ==
    \E inner, outer \in InstrsOf(f) :
        /\ inner.op \in {"OFFSETPTR", "MEMBERPTR"} /\ outer.op = "OFFSETPTR" /\ IsReg(outer.args[1], inner.dest)
        /\ Cardinality(AddressedBy(f, outer.dest)) > 1
        /\ Cardinality({i \in InstrsOf(f) : \E o \in ToSet(Operands(i)) : IsReg(o, inner.dest)}) > 1

Wrong(f, m) == [
    \* the address in the PLT is read as if it were one in the GOT
    extern_func_value |-> m.arch = X86 /\ \E i \in InstrsOf(f) : \E k \in DOMAIN i.args :
        Kind(i.args[k]) = "extern_func" /\ (i.op # "CALL" \/ k > 1),
    \* on Darwin it is stored as an immediate, which there is no form for
    func_store |-> m.arch = X86 /\ m.darwin /\ Some(f, "STORE", LAMBDA i : Kind(i.args[1]) = "func"),
    \* a symbol and a register cannot be added in an address
    symbol_index |-> m.arch = X86 /\ Some(f, "OFFSETPTR", LAMBDA i : Kind(i.args[1]) = "global" /\ Kind(i.args[2]) = "reg"),
    \* IMUL with two operands has no form for bytes
    byte_multiply |-> m.arch = X86 /\ Some(f, "MUL", LAMBDA i : Bytes(i.args[1]) = 1),
    \* CVTSD2SI rounds, and the conversions are between numbers of the same size
    round |-> m.arch = X86 /\ (Some(f, "FTOS", LAMBDA i : TRUE) \/ Some(f, "FTOU", LAMBDA i : TRUE)),
    int_to_float |-> m.arch = X86 /\ \E op \in {"STOF", "UTOF"} :
        Some(f, op, LAMBDA i : <<TypeOf(i.args[1]), TypeOf(i.args[2])>> \notin {<<I64, F64>>, <<I32, F32>>}),
    \* every choice between floating-point numbers becomes the smaller or the greater of them
    float_select |-> m.arch = X86 /\ Some(f, "SELECT", LAMBDA i : IsFloat(TypeOf(i.args[1])) /\ Value(i.args[2]) \notin {"FGT", "FLT"}),
    select_size |-> m.arch = X86 /\ Some(f, "SELECT", Unequal),
    folded_load |-> m.arch = X86 /\ ReadsBefore(f),
    \* an address's use of another is given back as often as the address is used
    inner_use |-> InnerUse(f),
    \* values of five, six and seven bytes are returned as four
    odd_return |-> Some(f, "RET", LAMBDA i : Bytes(i.args[1]) \in 5..7),
    \* operations that depend on the bits above those of the type
    narrow |-> m.arch \in {ARM, WASM} /\ \E i \in InstrsOf(f) : Narrow(i.args[1])
        /\ i.op \in {"UDIV", "UREM", "LSHR", "LSHL", "UTOF", "STOF"} \cup IF m.arch = WASM THEN {"SDIV", "SREM", "ASHR", "UEXTEND", "SEXTEND"} ELSE {},
    narrow_compare |-> m.arch \in {ARM, WASM} /\ \E i \in InstrsOf(f) :
        i.op \in {"CJMP", "SELECT"} /\ Narrow(i.args[1]) /\ (m.arch = WASM \/ ~IsComparisonSigned(Value(i.args[2]))),
    \* not overridden, and the base class only warns
    no_copy |-> m.arch \in {ARM, WASM} /\ (Some(f, "COPY", LAMBDA i : Bytes(i.args[3]) > 0) \/ Some(f, "SQRT", LAMBDA i : TRUE)),
    \* the address of an external symbol as a value is not expected
    extern_value |-> m.arch = WASM /\ \E i \in InstrsOf(f) : \E k \in DOMAIN i.args :
        \/ Kind(i.args[k]) = "extern_func" /\ (i.op # "CALL" \/ k > 1)
        \/ Kind(i.args[k]) = "extern_global" /\ (i.op = "CALL" \/ (i.op = "STORE" /\ k = 1)),
    \* arrays are not expected; a structure is read and written as four or eight bytes
    array_value |-> m.arch = WASM /\ \E i \in InstrsOf(f) : i.op \in {"LOAD", "STORE"} /\ TypeOf(i.args[1]).len # 1,
    struct_value |-> m.arch = WASM /\ \E i \in InstrsOf(f) :
        i.op \in {"LOAD", "STORE"} /\ TypeOf(i.args[1]).base = "struct" /\ SizeOf(TypeOf(i.args[1]), 4) \notin {4, 8},
    \* the offset of an access has no sign
    negative_offset |-> m.arch = WASM /\ Some(f, "OFFSETPTR", LAMBDA i : Kind(i.args[2]) = "int" /\ Value(i.args[2]) < 0),
    \* conversions of numbers with a sign and without one are exchanged
    exchanged_conversions |-> m.arch = WASM /\ (Some(f, "UTOF", LAMBDA i : TRUE) \/ Some(f, "STOF", LAMBDA i : TRUE)),
    \* the arguments of both branches are stored before it is decided which is taken
    both_args |-> m.arch = WASM /\ \E i \in InstrsOf(f) :
        i.op \in {"CJMP", "FCJMP"} /\ Value(i.args[4]).block = Value(i.args[5]).block /\ i.args[4] # i.args[5]]

TestMachines == {Machine(X86, FALSE, FALSE), Machine(X86, TRUE, FALSE), Machine(X86, FALSE, TRUE), Machine(ARM, FALSE, FALSE)}
TestCases == {c \in (TestPrograms(U64) \X TestMachines) \cup (TestPrograms(U32) \X {Machine(WASM, FALSE, FALSE)}) :
                 \E wrong \in {Wrong(c[1], c[2])} : \A d \in Defects \cap DOMAIN wrong : ~wrong[d]}
TestInputs == {<<61166, 7>>, <<5, 60002>>, <<27031, 33>>, <<7, 7>>}
=============================================================================
