-------------------------------- MODULE Ssa --------------------------------
(***************************************************************************)
(* The SSA form that the passes of src/src/banjo/passes transform, and its *)
(* generation from the analyzed tree (src/src/banjo/ssa_gen).              *)
(*                                                                         *)
(* A function is a list of basic blocks, a block has parameters (the phis  *)
(* of this IR) and instructions, and the last instruction of a block is    *)
(* its branch.  Operands are immediates and virtual registers; the types   *)
(* are the 32-bit integer "int" and a struct of two of them, "pair".  What *)
(* such a function means is what it prints and returns for a given input.  *)
(***************************************************************************)
EXTENDS Integers, Sequences, FiniteSets, SequencesExt

NoReg == 0
Imm(n) == <<"imm", n>>
Reg(r) == <<"reg", r>>
IsReg(v) == v[1] = "reg"
IsImm(v) == v[1] = "imm"

Target(b, args) == [block |-> b, args |-> args]
Instr(op, dst, args) == [op |-> op, dst |-> dst, args |-> args, cmp |-> "", to |-> <<>>, ty |-> "int"]
Jmp(t) == [Instr("jmp", NoReg, <<>>) EXCEPT !.to = <<t>>]
CJmp(lhs, cmp, rhs, t, e) == [Instr("cjmp", NoReg, <<lhs, rhs>>) EXCEPT !.cmp = cmp, !.to = <<t, e>>]
Alloca(r, ty) == [Instr("alloca", r, <<>>) EXCEPT !.ty = ty]

EmptyBlock == [params |-> <<>>, instrs |-> <<>>]
EmptyFunction == [order |-> <<1>>, block |-> (1 :> EmptyBlock), nextReg |-> 1, nextBlock |-> 2]

EntryOf(f) == Head(f.order)
LastInstr(f, b) == Last(f.block[b].instrs)
IsBranching(f, b) == f.block[b].instrs # <<>> /\ LastInstr(f, b).op \in {"jmp", "cjmp", "ret"}
Instrs(f) == UNION {{f.block[b].instrs[i] : i \in DOMAIN f.block[b].instrs} : b \in Range(f.order)}

\* The values of an instruction, those it passes to the blocks it branches to included.
ValuesOf(ins) == ins.args \o FlattenSeq([i \in DOMAIN ins.to |-> ins.to[i].args])
RegsOf(ins) == {v[2] : v \in {w \in Range(ValuesOf(ins)) : IsReg(w)}}

MapSeq(s, g(_)) == [i \in DOMAIN s |-> g(s[i])]
MapValues(ins, g(_)) ==
    [ins EXCEPT !.args = MapSeq(@, g),
                !.to = [i \in DOMAIN @ |-> [@[i] EXCEPT !.args = MapSeq(@, g)]]]
ReplaceIn(ins, r, v) == IF r \in RegsOf(ins) THEN MapValues(ins, LAMBDA w : IF w = Reg(r) THEN v ELSE w) ELSE ins
MapInstrs(f, g(_)) ==
    [f EXCEPT !.block = [b \in DOMAIN @ |-> [@[b] EXCEPT !.instrs = MapSeq(@, g)]]]
ReplaceInFunc(f, r, v) == MapInstrs(f, LAMBDA ins : ReplaceIn(ins, r, v))

SetInstrs(f, b, s) == [f EXCEPT !.block[b].instrs = s]
Append1(f, b, ins) == [f EXCEPT !.block[b].instrs = Append(@, ins)]
RemoveInstr(f, b, i) == [f EXCEPT !.block[b].instrs = RemoveAt(@, i)]
RemoveBlock(f, b) == [f EXCEPT !.order = SelectSeq(@, LAMBDA c : c # b),
                               !.block = [c \in DOMAIN @ \ {b} |-> @[c]]]
InsertBlockAfter(f, b, new, blk) ==
    [f EXCEPT !.order = InsertAt(@, 1 + CHOOSE i \in DOMAIN @ : @[i] = b, new),
              !.block = (new :> blk) @@ @,
              !.nextBlock = @ + 1]

DefinesReg(f, b, r) == \/ r \in Range(f.block[b].params)
                       \/ \E i \in DOMAIN f.block[b].instrs : f.block[b].instrs[i].dst = r
Defined(f) == UNION {Range(f.block[b].params) : b \in Range(f.order)}
              \cup ({ins.dst : ins \in Instrs(f)} \ {NoReg})
DefBlocks(f, r) == {b \in Range(f.order) : DefinesReg(f, b, r)}
DefInstrs(f, r) == {ins \in Instrs(f) : ins.dst = r}
Used(f) == UNION {RegsOf(ins) : ins \in Instrs(f)}

-----------------------------------------------------------------------------
\* What the back ends make of a comparison and of an arithmetic instruction,
\* on values that stay far from the limits of an int.

Compare(a, cmp, b) ==
    CASE cmp = "eq" -> a = b [] cmp = "ne" -> a # b
      [] cmp = "lt" -> a < b [] cmp = "le" -> a <= b
      [] cmp = "gt" -> a > b [] cmp = "ge" -> a >= b

Abs(n) == IF n < 0 THEN -n ELSE n
\* Division of the machine: towards zero.
Quotient(a, b) == IF (a < 0) = (b < 0) THEN Abs(a) \div Abs(b) ELSE -(Abs(a) \div Abs(b))
Shifted == [n \in 0..4 |-> 2 ^ n]

ArithOps == {"add", "sub", "mul", "sdiv", "lshl", "ashr"}
Arith(op, a, b) ==
    CASE op = "add" -> a + b [] op = "sub" -> a - b [] op = "mul" -> a * b
      [] op = "sdiv" -> Quotient(a, b)
      [] op = "lshl" -> a * Shifted[b] [] op = "ashr" -> a \div Shifted[b]

\* Reading a register or a cell that was never written.
Undef == -99

ValueIn(env, v) == IF IsImm(v) THEN v[2] ELSE IF v[2] \in DOMAIN env THEN env[v[2]] ELSE Undef
CellIn(mem, a) == IF a \in DOMAIN mem THEN mem[a] ELSE Undef
\* The address of a stack slot; its two members have addresses of their own.
SlotAddr(r) == 1000 + 10 * r

(***************************************************************************)
(* A run: the calls in progress, the innermost first, each with its        *)
(* instruction, registers and memory; what is left to read and what was    *)
(* printed.  It ends with a return ("ret"), a division by zero ("trap") or *)
(* a branch on an undefined value ("stuck").  The functions "read" and     *)
(* "print" are external.                                                   *)
(***************************************************************************)
CallOf(m, name, params) ==
    [name |-> name, b |-> EntryOf(m[name]), i |-> 1, env |-> <<>>, mem |-> <<>>, params |-> params]

Execute(m, r) ==
    LET c == Head(r.calls)
        f == m[c.name]
        ins == f.block[c.b].instrs[c.i]
        arg(k) == ValueIn(c.env, ins.args[k])
        Ended(e) == [r EXCEPT !.end = e]
        Step(dst, v) == [r EXCEPT !.calls[1].i = @ + 1, !.calls[1].env = (dst :> v) @@ @]
        Goto(t) ==
            [r EXCEPT !.calls[1].b = t.block, !.calls[1].i = 1,
                      !.calls[1].env = [p \in Range(f.block[t.block].params) |->
                          LET k == CHOOSE k \in DOMAIN f.block[t.block].params : f.block[t.block].params[k] = p
                          IN IF k \in DOMAIN t.args THEN ValueIn(c.env, t.args[k]) ELSE Undef] @@ @]
        Outcome == IF Compare(arg(1), ins.cmp, arg(2)) THEN 1 ELSE 2
        Unknown == Undef \in {arg(1), arg(2)}
    IN CASE ins.op = "ret" ->
              LET v == IF ins.args = <<>> THEN 0 ELSE arg(1)
                  caller == r.calls[2]
              IN IF Len(r.calls) = 1 THEN [r EXCEPT !.end = "ret", !.ret = v]
                 ELSE [r EXCEPT !.calls = <<[caller EXCEPT
                           !.i = @ + 1, !.env = (m[caller.name].block[caller.b].instrs[caller.i].dst :> v) @@ @]>>
                           \o SubSeq(r.calls, 3, Len(r.calls))]
         [] ins.op = "jmp" -> Goto(ins.to[1])
         [] ins.op = "cjmp" -> IF Unknown THEN Ended("stuck") ELSE Goto(ins.to[Outcome])
         [] ins.op = "select" -> IF Unknown THEN Ended("stuck") ELSE Step(ins.dst, arg(2 + Outcome))
         [] ins.op = "alloca" -> Step(ins.dst, SlotAddr(ins.dst))
         [] ins.op = "memberptr" -> Step(ins.dst, arg(1) + ins.args[2][2])
         [] ins.op = "loadarg" -> Step(ins.dst, c.params[ins.args[1][2] + 1])
         [] ins.op = "load" -> Step(ins.dst, CellIn(c.mem, arg(1)))
         [] ins.op = "store" -> [Step(NoReg, 0) EXCEPT !.calls[1].mem = (arg(2) :> arg(1)) @@ @]
         [] ins.op = "copy" ->
              [Step(NoReg, 0) EXCEPT !.calls[1].mem =
                  (arg(1) :> CellIn(c.mem, arg(2))) @@ ((arg(1) + 1) :> CellIn(c.mem, arg(2) + 1)) @@ @]
         [] ins.op = "read" ->
              [Step(ins.dst, IF r.in = <<>> THEN 0 ELSE Head(r.in)) EXCEPT !.in = IF @ = <<>> THEN <<>> ELSE Tail(@)]
         [] ins.op = "print" -> [Step(NoReg, 0) EXCEPT !.out = Append(@, arg(1))]
         [] ins.op = "call" ->
              [r EXCEPT !.calls = <<CallOf(m, ins.ty, [k \in DOMAIN ins.args |-> arg(k)])>> \o @]
         [] OTHER ->
              IF Unknown THEN Step(ins.dst, Undef)
              ELSE IF ins.op = "sdiv" /\ arg(2) = 0 THEN Ended("trap")
              ELSE Step(ins.dst, Arith(ins.op, arg(1), arg(2)))

\* After at most n steps.
RECURSIVE Run(_, _, _)
Run(m, r, n) ==
    IF n = 0 \/ r.end # "running" THEN r
    ELSE IF n = 1 THEN Execute(m, r)
    ELSE Run(m, Run(m, r, n \div 2), n - n \div 2)

\* What a reader of the program's output sees of "main" on an input; "running" when it takes
\* more than the steps allowed.
Meaning(m, input, steps) ==
    LET r == Run(m, [end |-> "running", calls |-> <<CallOf(m, "main", <<>>)>>, in |-> input, out |-> <<>>, ret |-> 0],
                 steps)
    IN [end |-> r.end, out |-> r.out, ret |-> r.ret]

-----------------------------------------------------------------------------
\* ssa::Validator: every register an instruction uses is defined somewhere.
Validate(f) == Used(f) \subseteq Defined(f)

-----------------------------------------------------------------------------
(* The generation (ssa_gen/): functions with parameters, locals of type    *)
(* int and of a struct of two ints, assignments, if, loop, break,          *)
(* continue, return, calls, comparisons and the operators "and", "or" and  *)
(* "not"; and what such a program means, statement by statement.           *)
(*                                                                         *)
(* A program gives each function its parameters, its locals with their     *)
(* types and its statements; expressions and statements are tuples whose   *)
(* first element is their kind.                                            *)

\* SSAGeneratorContext: the function under construction and its current block, the slots of its
\* locals, its exit, its return slot, how many allocas stand first in it, and the loops around.
Emit(g, ins) == [g EXCEPT !.f = Append1(@, g.cur, ins)]
EmitDef(g, op, args) == [Emit(g, Instr(op, g.f.nextReg, args)) EXCEPT !.f.nextReg = @ + 1]
LastReg(g) == Reg(g.f.nextReg - 1)

CreateBlock(g) == [g EXCEPT !.f.nextBlock = @ + 1, !.f.block = (g.f.nextBlock :> EmptyBlock) @@ @]
CreateBlocks(g, n) == FoldLeft(LAMBDA h, k : CreateBlock(h), g, [k \in 1..n |-> k])
AppendBlock(g, b) == [g EXCEPT !.f.order = Append(@, b), !.cur = b]

AppendAlloca(g, ty) ==
    [g EXCEPT !.f.block[EntryOf(g.f)].instrs = InsertAt(@, g.allocas + 1, Alloca(g.f.nextReg, ty)),
              !.f.nextReg = @ + 1, !.allocas = @ + 1]
\* append_jmp and append_cjmp add nothing to a block that has its branch.
AppendBranch(g, ins) == IF IsBranching(g.f, g.cur) THEN g ELSE Emit(g, ins)
AppendJmp(g, b) == AppendBranch(g, Jmp(Target(b, <<>>)))

\* StoredValue: an expression leaves a value or the address of one.
Value(g, v) == [g |-> g, kind |-> "value", v |-> v, ty |-> "int"]
Reference(g, v, ty) == [g |-> g, kind |-> "reference", v |-> v, ty |-> ty]

TurnIntoValue(s) ==
    IF s.kind = "value" THEN s
    ELSE LET g == EmitDef(s.g, "load", <<s.v>>) IN Value(g, LastReg(g))
CopyTo(s, dst) ==
    IF s.v = dst THEN s.g
    ELSE IF s.kind = "reference" /\ s.ty = "pair" THEN Emit(s.g, Instr("copy", NoReg, <<dst, s.v>>))
    ELSE LET val == TurnIntoValue(s) IN Emit(val.g, Instr("store", NoReg, <<val.v, dst>>))
MemberPtr(g, base, i) == EmitDef(g, "memberptr", <<base, Imm(i)>>)

IsBoolOp(e) == e[1] \in {"cmp", "and", "or", "not"}

RECURSIVE Gen(_, _, _), GenBranch(_, _, _, _)
GenValue(g, e) == TurnIntoValue(Gen(g, e, <<>>))
Computed(g, op, args) == LET h == EmitDef(g, op, args) IN Value(h, LastReg(h))

GenFieldExpr(g, e) == LET h == MemberPtr(g, Reg(g.slots[e[2]]), e[3]) IN Reference(h, LastReg(h), "int")
\* The values of expressions, one after the other.
AndValue(s, v) == [g |-> v.g, vs |-> Append(s.vs, v.v)]
GenValues(g, es) == FoldLeft(LAMBDA s, e : AndValue(s, GenValue(s.g, e)), [g |-> g, vs |-> <<>>], es)
ComputedFrom(s, op) == Computed(s.g, op, s.vs)
GenBinaryExpr(g, e) == ComputedFrom(GenValues(g, <<e[3], e[4]>>), e[2])
GenNeg(g, e) == ComputedFrom(GenValues(g, <<<<"int", 0>>, e[2]>>), "sub")
\* A literal is built where it is wanted, else in a slot of its own.
GenStructLiteral(g, e, dst) ==
    LET h == IF dst = <<>> THEN AppendAlloca(g, "pair") ELSE g
        at == IF dst = <<>> THEN LastReg(h) ELSE dst[1]
        Field(k, i) == LET m == MemberPtr(k, at, i)
                       IN CopyTo(Gen(m, e[2 + i], <<LastReg(m)>>), LastReg(m))
    IN Reference(FoldLeft(Field, h, <<0, 1>>), at, "pair")
Called(args, name) ==
    LET ins == [Instr("call", args.g.f.nextReg, args.vs) EXCEPT !.ty = name]
        h == [Emit(args.g, ins) EXCEPT !.f.nextReg = @ + 1]
    IN Value(h, LastReg(h))
GenCallExpr(g, e) == Called(GenValues(g, e[3]), e[2])
GenBoolExpr(g, e) ==
    LET yes == g.f.nextBlock
        branched == GenBranch(CreateBlocks(g, 3), e, yes, yes + 1)
        h == AppendAlloca(branched, "int")
        slot == LastReg(h)
        Arm(k, b, n) == AppendJmp(Emit(AppendBlock(k, b), Instr("store", NoReg, <<Imm(n), slot>>)), yes + 2)
    IN Reference(AppendBlock(Arm(Arm(h, yes, 1), yes + 1, 0), yes + 2), slot, "int")

\* generate: dst is the address where the expression is wanted, <<>> if it is not.
Gen(g, e, dst) ==
    CASE e[1] = "int" -> Value(g, Imm(e[2]))
      [] e[1] = "var" -> Reference(g, Reg(g.slots[e[2]]), g.types[e[2]])
      [] e[1] = "field" -> GenFieldExpr(g, e)
      [] e[1] = "bin" -> GenBinaryExpr(g, e)
      [] e[1] = "neg" -> GenNeg(g, e)
      [] e[1] = "literal" -> GenStructLiteral(g, e, dst)
      [] e[1] = "read" -> Computed(g, "read", <<>>)
      [] e[1] = "call" -> GenCallExpr(g, e)
      [] IsBoolOp(e) -> GenBoolExpr(g, e)

CompareAndBranch(s, op, yes, no) ==
    AppendBranch(s.g, CJmp(s.vs[1], op, s.vs[2], Target(yes, <<>>), Target(no, <<>>)))
GenIntCmpBranch(g, e, yes, no) ==
    CompareAndBranch(GenValues(g, <<e[3], e[4]>>), e[2], yes, no)
GenAndBranch(g, e, yes, no) ==
    LET rhs == g.f.nextBlock
    IN GenBranch(AppendBlock(GenBranch(CreateBlock(g), e[2], rhs, no), rhs), e[3], yes, no)
GenOrBranch(g, e, yes, no) ==
    LET rhs == g.f.nextBlock
    IN GenBranch(AppendBlock(GenBranch(CreateBlock(g), e[2], yes, rhs), rhs), e[3], yes, no)
GenZeroCheckBranch(g, e, yes, no) ==
    CompareAndBranch(GenValues(g, <<e, <<"int", 0>>>>), "ne", yes, no)

\* generate_branch
GenBranch(g, e, yes, no) ==
    CASE e[1] = "cmp" -> GenIntCmpBranch(g, e, yes, no)
      [] e[1] = "and" -> GenAndBranch(g, e, yes, no)
      [] e[1] = "or" -> GenOrBranch(g, e, yes, no)
      [] e[1] = "not" -> GenBranch(g, e[2], no, yes)
      [] OTHER -> GenZeroCheckBranch(g, e, yes, no)

GenInto(g, e, dst) == CopyTo(Gen(g, e, <<dst>>), dst)

RECURSIVE GenBlock(_, _), GenStmt(_, _)
\* generate_block_body stops at the statement that leaves the block.
GenBlock(g, stmts) ==
    IF stmts = <<>> \/ IsBranching(g.f, g.cur) THEN g ELSE GenBlock(GenStmt(g, Head(stmts)), Tail(stmts))

GenReturnStmt(g, s) ==
    AppendJmp(IF s[2] = <<>> THEN g ELSE GenInto(g, s[2], Reg(g.ret)), g.exit)

\* The blocks: end, next when there is an else, the first body.
GenIfStmt(g, s) ==
    LET end == g.f.nextBlock
        final == s[4] = <<>>
        next == IF final THEN end ELSE end + 1
        yes == next + 1
        branched == GenBranch(CreateBlocks(g, IF final THEN 2 ELSE 3), s[2], yes, next)
        first == AppendJmp(GenBlock(AppendBlock(branched, yes), s[3]), end)
        second == IF final THEN first ELSE AppendJmp(GenBlock(AppendBlock(first, next), s[4]), end)
    IN AppendBlock(second, end)

\* The blocks: condition, body, latch if there is one, end.
GenLoopStmt(g, s) ==
    LET cond == g.f.nextBlock
        latch == s[4] # <<>>
        end == cond + IF latch THEN 3 ELSE 2
        started == AppendBlock(AppendJmp(CreateBlocks(g, IF latch THEN 4 ELSE 3), cond), cond)
        inside == [GenBranch(started, s[2], cond + 1, end) EXCEPT
                      !.loops = <<[continue |-> IF latch THEN cond + 2 ELSE cond, break |-> end]>> \o @]
        body == [GenBlock(AppendBlock(inside, cond + 1), s[3]) EXCEPT !.loops = g.loops]
        last == IF latch THEN GenBlock(AppendBlock(AppendJmp(body, cond + 2), cond + 2), s[4]) ELSE body
    IN AppendBlock(AppendJmp(last, cond), end)

GenStmt(g, s) ==
    CASE s[1] = "assign" -> GenInto(g, s[3], Reg(g.slots[s[2]]))
      [] s[1] = "assign_field" ->
            LET h == MemberPtr(g, Reg(g.slots[s[2]]), s[3]) IN GenInto(h, s[4], LastReg(h))
      [] s[1] = "print" -> LET v == GenValue(g, s[2]) IN Emit(v.g, Instr("print", NoReg, <<v.v>>))
      [] s[1] = "return" -> GenReturnStmt(g, s)
      [] s[1] = "if" -> GenIfStmt(g, s)
      [] s[1] = "loop" -> GenLoopStmt(g, s)
      [] s[1] = "break" -> AppendJmp(g, Head(g.loops).break)
      [] s[1] = "continue" -> AppendJmp(g, Head(g.loops).continue)

\* generate_func_def: parameters, the return slot, the locals, the body, the exit.
Generate(fn) ==
    LET start == [f |-> EmptyFunction, cur |-> 1, slots |-> <<>>, types |-> <<>>, allocas |-> 0,
                  loops |-> <<>>, ret |-> NoReg, exit |-> EmptyFunction.nextBlock]
        Local(g, x, ty) == LET h == AppendAlloca(g, ty)
                           IN [h EXCEPT !.slots = (x :> LastReg(h)[2]) @@ @, !.types = (x :> ty) @@ @]
        Param(g, k) == LET h == Local(g, fn.params[k], "int")
                           a == EmitDef(h, "loadarg", <<Imm(k - 1)>>)
                       IN Emit(a, Instr("store", NoReg, <<LastReg(a), Reg(h.slots[fn.params[k]])>>))
        withParams == FoldLeft(Param, CreateBlock(start), [k \in DOMAIN fn.params |-> k])
        withRet == LET h == AppendAlloca(withParams, "int") IN [h EXCEPT !.ret = LastReg(h)[2]]
        withLocals == FoldLeft(LAMBDA g, l : Local(g, l[1], l[2]), withRet, fn.locals)
        Exit(g) == EmitDef(AppendBlock(AppendJmp(g, g.exit), g.exit), "load", <<Reg(g.ret)>>)
        Return(g) == Emit(g, Instr("ret", NoReg, <<LastReg(g)>>)).f
    IN Return(Exit(GenBlock(withLocals, fn.body)))

GenerateModule(program) == [n \in DOMAIN program |-> Generate(program[n])]

-----------------------------------------------------------------------------
(***************************************************************************)
(* The meaning of a program.  A state holds the variables, the input that  *)
(* is left, the output, how control leaves a statement and the value       *)
(* returned.                                                               *)
(***************************************************************************)
RECURSIVE Eval(_, _, _), Exec(_, _, _), ExecAll(_, _, _), CallFunc(_, _, _, _)

Truth(b) == IF b THEN 1 ELSE 0
Result(s, v) == [s |-> s, v |-> v]
Running(s) == s.way = "next"

\* The value of an expression and the state after it; "trap" when a division by zero ends the program.
Eval(p, s, e) ==
    CASE e[1] = "int" -> Result(s, e[2])
      [] e[1] = "var" -> Result(s, s.env[e[2]])
      [] e[1] = "field" -> Result(s, s.env[e[2]][e[3] + 1])
      [] e[1] = "neg" -> LET a == Eval(p, s, e[2]) IN Result(a.s, -a.v)
      [] e[1] = "bin" ->
            LET a == Eval(p, s, e[3])
                b == Eval(p, a.s, e[4])
            IN IF ~Running(b.s) THEN b
               ELSE IF e[2] = "sdiv" /\ b.v = 0 THEN Result([b.s EXCEPT !.way = "trap"], 0)
               ELSE Result(b.s, Arith(e[2], a.v, b.v))
      [] e[1] = "cmp" ->
            LET a == Eval(p, s, e[3])
                b == Eval(p, a.s, e[4])
            IN Result(b.s, Truth(Compare(a.v, e[2], b.v)))
      [] e[1] = "not" -> LET a == Eval(p, s, e[2]) IN Result(a.s, Truth(a.v = 0))
      [] e[1] \in {"and", "or"} ->
            LET a == Eval(p, s, e[2])
            IN IF ~Running(a.s) \/ (a.v = 0) = (e[1] = "and") THEN Result(a.s, Truth(a.v # 0))
               ELSE LET b == Eval(p, a.s, e[3]) IN Result(b.s, Truth(b.v # 0))
      [] e[1] = "literal" ->
            LET a == Eval(p, s, e[2])
                b == Eval(p, a.s, e[3])
            IN Result(b.s, <<a.v, b.v>>)
      [] e[1] = "read" ->
            Result([s EXCEPT !.in = IF @ = <<>> THEN @ ELSE Tail(@)], IF s.in = <<>> THEN 0 ELSE Head(s.in))
      [] e[1] = "call" ->
            LET args == FoldLeft(LAMBDA r, a : LET v == Eval(p, r.s, a) IN Result(v.s, Append(r.v, v.v)),
                                 Result(s, <<>>), e[3])
            IN IF ~Running(args.s) THEN args ELSE CallFunc(p, args.s, p[e[2]], args.v)

CallFunc(p, s, fn, args) ==
    LET locals == [x \in {l[1] : l \in Range(fn.locals)} |-> Undef]
        params == [x \in Range(fn.params) |-> args[CHOOSE k \in DOMAIN fn.params : fn.params[k] = x]]
        r == ExecAll(p, [s EXCEPT !.env = params @@ locals, !.depth = @ + 1], fn.body)
    IN Result([r EXCEPT !.env = s.env, !.depth = s.depth, !.way = IF @ = "trap" THEN @ ELSE "next"], r.ret)

ExecAll(p, s, stmts) ==
    IF stmts = <<>> \/ ~Running(s) THEN s ELSE ExecAll(p, Exec(p, s, Head(stmts)), Tail(stmts))

Exec(p, s, st) ==
    LET With(e, f(_)) == LET r == Eval(p, s, e) IN IF Running(r.s) THEN f(r) ELSE r.s
    IN CASE st[1] = "assign" -> With(st[3], LAMBDA r : [r.s EXCEPT !.env[st[2]] = r.v])
         [] st[1] = "assign_field" -> With(st[4], LAMBDA r : [r.s EXCEPT !.env[st[2]][st[3] + 1] = r.v])
         [] st[1] = "print" -> With(st[2], LAMBDA r : [r.s EXCEPT !.out = Append(@, r.v)])
         [] st[1] = "return" -> IF st[2] = <<>> THEN [s EXCEPT !.way = "return"]
                                ELSE With(st[2], LAMBDA r : [r.s EXCEPT !.way = "return", !.ret = r.v])
         [] st[1] = "if" -> With(st[2], LAMBDA r : ExecAll(p, r.s, IF r.v # 0 THEN st[3] ELSE st[4]))
         [] st[1] = "loop" ->
              With(st[2], LAMBDA r :
                  IF r.v = 0 THEN r.s
                  ELSE LET body == ExecAll(p, r.s, st[3])
                       IN IF body.way = "break" THEN [body EXCEPT !.way = "next"]
                          ELSE IF body.way \in {"return", "trap"} THEN body
                          ELSE LET latch == ExecAll(p, [body EXCEPT !.way = "next"], st[4])
                               IN IF Running(latch) THEN Exec(p, latch, st) ELSE latch)
         [] OTHER -> [s EXCEPT !.way = st[1]]

SourceMeaning(program, input) ==
    LET r == CallFunc(program, [env |-> <<>>, in |-> input, out |-> <<>>, way |-> "next", ret |-> Undef, depth |-> 0],
                      program["main"], <<>>)
    IN [end |-> IF r.s.way = "trap" THEN "trap" ELSE "ret", out |-> r.s.out, ret |-> IF r.s.way = "trap" THEN 0 ELSE r.v]
=============================================================================
