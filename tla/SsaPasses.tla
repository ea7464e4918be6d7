------------------------------- MODULE SsaPasses -------------------------------
(***************************************************************************)
(* The optimization passes of the SSA.  Each is an operator from a         *)
(* function to a function, or from a program to a program, that visits     *)
(* blocks and instructions in the order of the code.                       *)
(***************************************************************************)
EXTENDS Ssa
LOCAL INSTANCE ControlFlow

-----------------------------------------------------------------------------
(***************************************************************************)
(* Passes on instructions: constant folding (precomputing.cpp), the        *)
(* peephole optimizer, the removal of dead instructions and parameters,    *)
(* the conversion of branches to selects, loop invariant code motion and   *)
(* the legalizer.                                                          *)
(***************************************************************************)

CfgOf(f) ==
    [entry |-> EntryOf(f),
     succ |-> [b \in DOMAIN f.block |->
                  [k \in DOMAIN LastInstr(f, b).to |-> LastInstr(f, b).to[k].block]]]

-----------------------------------------------------------------------------
\* Precomputing: <<>> when the value is not known, else the value in a sequence.
Precomputed(ins) ==
    IF ins.op \in ArithOps /\ IsImm(ins.args[1]) /\ IsImm(ins.args[2])
      THEN <<Imm(Arith(ins.op, ins.args[1][2], ins.args[2][2]))>>
    ELSE IF ins.op = "select" /\ IsImm(ins.args[1]) /\ IsImm(ins.args[2])
      THEN <<IF Compare(ins.args[1][2], ins.cmp, ins.args[2][2]) THEN ins.args[3] ELSE ins.args[4]>>
    ELSE <<>>

RECURSIVE PrecomputeFrom(_, _, _)
PrecomputeFrom(f, k, i) ==
    IF k > Len(f.order) THEN f
    ELSE LET b == f.order[k] IN
         IF i > Len(f.block[b].instrs) THEN PrecomputeFrom(f, k + 1, 1)
         ELSE LET ins == f.block[b].instrs[i] IN
              IF ins.op = "cjmp"
                THEN IF IsImm(ins.args[1]) /\ IsImm(ins.args[2])
                       THEN LET taken == IF Compare(ins.args[1][2], ins.cmp, ins.args[2][2]) THEN 1 ELSE 2
                            IN PrecomputeFrom([f EXCEPT !.block[b].instrs[i] = Jmp(ins.to[taken])], k, i + 1)
                       ELSE PrecomputeFrom(f, k, i + 1)
              ELSE IF Precomputed(ins) # <<>>
                THEN PrecomputeFrom(RemoveInstr(ReplaceInFunc(f, ins.dst, Precomputed(ins)[1]), b, i), k, i)
              ELSE PrecomputeFrom(f, k, i + 1)

PrecomputeInstrs(f) == PrecomputeFrom(f, 1, 1)

-----------------------------------------------------------------------------
\* StackLayout::find_member: the slot and the member that a register points to, <<>> if it is no
\* address of a stack slot.
RECURSIVE MemberAt(_, _, _)
MemberAt(f, r, idx) ==
    IF DefInstrs(f, r) = {} THEN <<>>
    ELSE LET def == CHOOSE d \in DefInstrs(f, r) : TRUE IN
         CASE def.op = "alloca" -> <<r, idx>>
           [] def.op = "memberptr" /\ IsReg(def.args[1]) -> MemberAt(f, def.args[1][2], idx + def.args[2][2])
           [] OTHER -> <<>>
FindMember(f, v) == IF IsReg(v) THEN MemberAt(f, v[2], 0) ELSE <<>>

PowersOfTwo == {2, 4, 8, 16}
Log2(n) == CHOOSE k \in 0..4 : 2 ^ k = n
Swapped(ins) ==
    IF ins.op \in {"add", "mul"} /\ IsImm(ins.args[1]) /\ ~IsImm(ins.args[2])
      THEN [ins EXCEPT !.args = <<@[2], @[1]>>] ELSE ins

\* The value that process_load, process_add, ... eliminate the instruction for.
Eliminated(f, ins, stackValues) ==
    CASE ins.op = "load" ->
            LET m == FindMember(f, ins.args[1])
            IN IF m # <<>> /\ m \in DOMAIN stackValues THEN <<stackValues[m]>> ELSE <<>>
      [] ins.op \in {"add", "sub"} -> IF ins.args[2] = Imm(0) THEN <<ins.args[1]>> ELSE <<>>
      [] ins.op = "mul" -> IF ins.args[2] = Imm(0) THEN <<Imm(0)>>
                           ELSE IF ins.args[2] = Imm(1) THEN <<ins.args[1]>> ELSE <<>>
      [] ins.op = "sdiv" -> IF ins.args[2] = Imm(1) THEN <<ins.args[1]>> ELSE <<>>
      [] OTHER -> <<>>

Strength(ins) ==
    IF ins.op \in {"mul", "sdiv"} /\ IsImm(ins.args[2]) /\ ins.args[2][2] \in PowersOfTwo
      THEN [ins EXCEPT !.op = IF @ = "mul" THEN "lshl" ELSE "ashr", !.args[2] = Imm(Log2(@[2]))]
      ELSE ins

\* What is known of the slots after the instruction: a store to an unknown address, a call and a
\* copy forget everything.
StackValuesAfter(f, ins, stackValues) ==
    CASE ins.op = "store" ->
            LET m == FindMember(f, ins.args[2])
            IN IF m = <<>> THEN <<>> ELSE (m :> ins.args[1]) @@ stackValues
      [] ins.op \in {"call", "read", "print", "copy"} -> <<>>
      [] OTHER -> stackValues

\* A folded instruction stays, only its uses in this block are replaced.
RECURSIVE PeepholeBlock(_, _, _, _)
PeepholeBlock(f, b, i, stackValues) ==
    IF i > Len(f.block[b].instrs) THEN f
    ELSE LET old == f.block[b].instrs[i]
             ins == Swapped(old)
         IN IF Precomputed(old) # <<>>
              THEN PeepholeBlock([f EXCEPT !.block[b].instrs =
                                     MapSeq(@, LAMBDA x : ReplaceIn(x, old.dst, Precomputed(old)[1]))],
                                 b, i + 1, stackValues)
            ELSE IF Eliminated(f, ins, stackValues) # <<>>
              THEN PeepholeBlock(RemoveInstr(ReplaceInFunc(f, ins.dst, Eliminated(f, ins, stackValues)[1]), b, i),
                                 b, i, stackValues)
            ELSE PeepholeBlock([f EXCEPT !.block[b].instrs[i] = Strength(ins)], b, i + 1,
                               StackValuesAfter(f, ins, stackValues))

Peephole(f) == FoldLeft(LAMBDA g, b : PeepholeBlock(g, b, 1, <<>>), f, f.order)

-----------------------------------------------------------------------------
\* ssa::DeadCodeElimination: what computes a register that nothing reads goes, calls excepted;
\* then the parameters that only pass values on to such parameters.
Calls == {"call", "read", "print"}
UseCount(f, r) ==
    FoldLeft(LAMBDA n, b : FoldLeft(LAMBDA k, ins :
        k + Cardinality({j \in DOMAIN ValuesOf(ins) : ValuesOf(ins)[j] = Reg(r)}), n, f.block[b].instrs), 0, f.order)

RECURSIVE RemoveUnusedInstrs(_)
RemoveUnusedInstrs(f) ==
    LET dead == {r \in Defined(f) : UseCount(f, r) = 0}
        g == [f EXCEPT !.block = [b \in DOMAIN @ |->
                 [@[b] EXCEPT !.instrs = SelectSeq(@, LAMBDA ins : ins.dst \notin dead \/ ins.op \in Calls)]]]
    IN IF g = f THEN f ELSE RemoveUnusedInstrs(g)

ParamsOf(f) == UNION {Range(f.block[b].params) : b \in Range(Tail(f.order))}
BranchesTo(f) == UNION {Range(LastInstr(f, b).to) : b \in Range(f.order)}
\* The parameters whose value reaches parameter p through a branch.
SourceParams(f, p) ==
    UNION {{t.args[k][2] : k \in {j \in DOMAIN t.args : f.block[t.block].params[j] = p /\ IsReg(t.args[j])}} :
           t \in BranchesTo(f)} \cap ParamsOf(f)

RECURSIVE MarkUsed(_, _)
MarkUsed(f, used) ==
    LET more == used \cup UNION {SourceParams(f, p) : p \in used}
    IN IF more = used THEN used ELSE MarkUsed(f, more)

RemoveUnusedParams(f) ==
    LET direct == UNION {{v[2] : v \in {w \in Range(ins.args) : IsReg(w)}} : ins \in Instrs(f)}
        used == MarkUsed(f, direct \cap ParamsOf(f))
        Kept(b) == IF b = EntryOf(f) THEN DOMAIN f.block[b].params
                   ELSE {k \in DOMAIN f.block[b].params : f.block[b].params[k] \in used}
        Pick(s, K) == [j \in 1..Cardinality(K) |-> s[SetToSortSeq(K, <)[j]]]
        Trim(t) == [t EXCEPT !.args = Pick(@, Kept(t.block))]
    IN [f EXCEPT !.block = [b \in DOMAIN @ |->
           [params |-> Pick(@[b].params, Kept(b)),
            instrs |-> MapSeq(@[b].instrs, LAMBDA ins : [ins EXCEPT !.to = MapSeq(@, Trim)])]]]

RemoveDead(f) == RemoveUnusedParams(RemoveUnusedInstrs(f))

\* DeadCodeEliminationPass: first the stores to slots whose address is only stored to.
SlotOf(f, r) == MemberAt(f, r, 0)
UsedSlots(f) ==
    UNION {LET addr == IF ins.op = "store" THEN {v \in {ins.args[1]} : IsReg(v)}
                       ELSE IF ins.op = "memberptr" THEN {}
                       ELSE {Reg(r) : r \in RegsOf(ins)}
           IN {SlotOf(f, v[2])[1] : v \in {w \in addr : SlotOf(f, w[2]) # <<>>}} : ins \in Instrs(f)}

DeadCodeEliminationPass(f) ==
    LET used == UsedSlots(f)
        Removable(ins) == /\ ins.op = "store"
                          /\ FindMember(f, ins.args[2]) # <<>>
                          /\ FindMember(f, ins.args[2])[1] \notin used
    IN RemoveDead([f EXCEPT !.block = [b \in DOMAIN @ |->
           [@[b] EXCEPT !.instrs = SelectSeq(@, LAMBDA ins : ~Removable(ins))]]])

-----------------------------------------------------------------------------
\* BranchElimination: two arms that only jump to the same block become a select.
OnlyJumps(f, b) == Len(f.block[b].instrs) = 1 /\ LastInstr(f, b).op = "jmp"
UnequalArgs(t, e) == {k \in DOMAIN t.args : t.args[k] # e.args[k]}

\* get_node of a block that the graph does not contain is the node numbered 0.
NodeOf(g, b) == IF b \in Nodes(g) THEN b ELSE Head(PostOrder(g))

CanEliminate(f, g, b) ==
    /\ Len(g.succ[NodeOf(g, b)]) = 2
    /\ LastInstr(f, b).op = "cjmp"
    /\ LET arm == [k \in {1, 2} |-> LastInstr(f, b).to[k].block] IN
       /\ \A k \in {1, 2} : OnlyJumps(f, arm[k]) /\ PredCount(g, NodeOf(g, arm[k])) = 1
       /\ LET t == LastInstr(f, arm[1]).to[1]
              e == LastInstr(f, arm[2]).to[1]
          IN /\ t.block = e.block
             /\ Len(t.args) = Len(e.args)
             /\ Cardinality(UnequalArgs(t, e)) = 1

EliminateAt(f, g, b) ==
    LET branch == LastInstr(f, b)
        arm == [k \in {1, 2} |-> branch.to[k].block]
        t == LastInstr(f, arm[1]).to[1]
        e == LastInstr(f, arm[2]).to[1]
        k == CHOOSE j \in UnequalArgs(t, e) : TRUE
        merge == PredCount(g, t.block) = 2
        dst == IF merge THEN f.block[t.block].params[k] ELSE f.nextReg
        select == [Instr("select", dst, <<branch.args[1], branch.args[2], t.args[k], e.args[k]>>)
                      EXCEPT !.cmp = branch.cmp]
        front == Append(Front(f.block[b].instrs), select)
        joined == IF merge
                    THEN RemoveBlock(SetInstrs(f, b, front \o f.block[t.block].instrs), t.block)
                    ELSE [SetInstrs(f, b, Append(front, Jmp([t EXCEPT !.args[k] = Reg(dst)])))
                             EXCEPT !.nextReg = @ + 1]
    IN RemoveBlock(RemoveBlock(joined, arm[1]), arm[2])

RECURSIVE EliminateFrom(_, _)
EliminateFrom(f, k) ==
    IF k > Len(f.order) THEN f
    ELSE LET b == f.order[k] IN
         IF CanEliminate(f, CfgOf(f), b)
           THEN LET new == EliminateAt(f, CfgOf(f), b)
                IN EliminateFrom(new, CHOOSE j \in DOMAIN new.order : new.order[j] = b)
           ELSE EliminateFrom(f, k + 1)
BranchElimination(f) == EliminateFrom(f, 1)

-----------------------------------------------------------------------------
\* LICMPass: until nothing changes, what uses no definition of the loop moves to the end of the
\* one block that enters the loop.
LoopDefsOfInstrs(f, loop) ==   \* mutant: the parameters are forgotten
    UNION {{ins.dst : ins \in Range(f.block[b].instrs)} : b \in loop.body} \ {NoReg}
LoopDefs(f, loop) ==
    UNION {Range(f.block[b].params) \cup {ins.dst : ins \in Range(f.block[b].instrs)} : b \in loop.body} \ {NoReg}
Immovable == {"load", "store", "memberptr"} \cup Calls

RECURSIVE HoistBlock(_, _, _, _)
HoistBlock(st, b, to, i) ==
    IF i > Len(st.f.block[b].instrs) THEN st
    ELSE LET ins == st.f.block[b].instrs[i] IN
         IF ins.op \in Immovable \/ ins.dst = NoReg \/ RegsOf(ins) \cap st.defs # {}
           THEN HoistBlock(st, b, to, i + 1)
           ELSE LET entry == st.f.block[to].instrs
                IN HoistBlock([f |-> [RemoveInstr(st.f, b, i) EXCEPT
                                         !.block[to].instrs = InsertAt(entry, Len(entry), ins)],
                               defs |-> st.defs \ {ins.dst}], b, to, i)

RECURSIVE HoistLoop(_, _)
HoistLoop(f, loop) ==
    IF Cardinality(loop.entries) # 1 THEN f
    ELSE LET to == CHOOSE b \in loop.entries : TRUE
             new == FoldSet(LAMBDA b, st : HoistBlock(st, b, to, 1),
                            [f |-> f, defs |-> LoopDefs(f, loop)], loop.body).f
         IN IF new = f THEN f ELSE HoistLoop(new, loop)
Licm(f) == FoldLeft(HoistLoop, f, Loops(CfgOf(f)))

-----------------------------------------------------------------------------
\* Legalizer: a conditional branch with one target for both outcomes gets two blocks that jump there.
LegalizeBlock(f, b) ==
    LET br == LastInstr(f, b)
        n == f.nextBlock
        Trampoline(k) == [EmptyBlock EXCEPT !.instrs = <<Jmp(br.to[k])>>]
    IN IF br.op # "cjmp" \/ br.to[1].block # br.to[2].block THEN f
       ELSE LET g == InsertBlockAfter(InsertBlockAfter(f, b, n, Trampoline(1)), n, n + 1, Trampoline(2))
            IN SetInstrs(g, b, Append(Front(f.block[b].instrs),
                                      [br EXCEPT !.to = <<Target(n, <<>>), Target(n + 1, <<>>)>>]))
Legalize(f) == FoldLeft(LegalizeBlock, f, f.order)

-----------------------------------------------------------------------------
(* Passes on blocks and slots: the simplification of control flow, the     *)
(* splitting of structs into their members (SROA), the promotion of stack  *)
(* slots to registers, and the inlining of calls with the removal of the   *)
(* functions it leaves unused.                                             *)

\* The argument with which a branch to t gives a value to register r of its target, <<>> if r is no parameter.
ArgFor(f, t, r) ==
    LET k == {j \in DOMAIN t.args : f.block[t.block].params[j] = r}
    IN IF k = {} THEN <<>> ELSE <<t.args[CHOOSE j \in k : TRUE]>>
Branching(ins) == ins.op \in {"jmp", "cjmp"}
SetLast(f, b, ins) == [f EXCEPT !.block[b].instrs = Append(Front(@), ins)]

-----------------------------------------------------------------------------
\* ControlFlowOptPass.  The blocks with parameters that other blocks read are collected once for the
\* four iterations, the dominator tree once for every iteration.
NumIterations == 4

BlocksWithEscapingArgs(f) ==
    {b \in Range(f.order) : \E c \in Range(f.order) \ {b} : \E ins \in Range(f.block[c].instrs) :
        RegsOf(ins) \cap Range(f.block[b].params) # {}}

IsRegAlwaysDefined(f, ctx, r, b) ==
    /\ DefBlocks(f, r) # {}
    /\ LET def == SelectSeq(f.order, LAMBDA c : c \in DefBlocks(f, r))[1]
       IN Dominates(ctx.idoms, NodeOf(ctx.g, def), NodeOf(ctx.g, b))

Known(f, ctx, v, t, b) == IsImm(v) \/ ArgFor(f, t, v[2]) # <<>> \/ IsRegAlwaysDefined(f, ctx, v[2], b)
AtOriginKept(f, v, t) == v   \* mutant: the parameters of the block are not replaced by what is passed for them
AtOrigin(f, v, t) == IF IsReg(v) /\ ArgFor(f, t, v[2]) # <<>> THEN ArgFor(f, t, v[2])[1] ELSE v

Inlinable(f, ctx, t) == Len(f.block[t.block].instrs) = 1 /\ t.block \notin ctx.escaping

TryInlineIntoJmp(f, ctx, b) ==
    LET t == LastInstr(f, b).to[1]
        inner == LastInstr(f, t.block)
    IN IF /\ Inlinable(f, ctx, t) /\ Branching(inner)
          /\ \A v \in Range(ValuesOf(inner)) : Known(f, ctx, v, t, b)
         THEN SetLast(f, b, MapValues(inner, LAMBDA v : AtOrigin(f, v, t)))
         ELSE f

TryInlineIntoCJmp(f, ctx, b, k) ==
    LET t == LastInstr(f, b).to[k]
        inner == LastInstr(f, t.block)
        lhs == AtOrigin(f, inner.args[1], t)
        rhs == AtOrigin(f, inner.args[2], t)
        taken == IF inner.op = "jmp" THEN {1}
                 ELSE IF inner.op = "cjmp" /\ IsImm(lhs) /\ IsImm(rhs)
                   THEN {IF Compare(lhs[2], inner.cmp, rhs[2]) THEN 1 ELSE 2} ELSE {}
    IN IF /\ Inlinable(f, ctx, t)
          /\ \E j \in taken : \A v \in Range(inner.to[j].args) : Known(f, ctx, v, t, b)
         THEN LET new == inner.to[CHOOSE j \in taken : TRUE]
              IN [f EXCEPT !.block[b].instrs[Len(f.block[b].instrs)].to[k] =
                     [new EXCEPT !.args = MapSeq(@, LAMBDA v : AtOrigin(f, v, t))]]
         ELSE f

InlineBranches(f, ctx, b) ==
    CASE LastInstr(f, b).op = "jmp" -> TryInlineIntoJmp(f, ctx, b)
      [] LastInstr(f, b).op = "cjmp" -> TryInlineIntoCJmp(TryInlineIntoCJmp(f, ctx, b, 1), ctx, b, 2)
      [] OTHER -> f

\* A block with one predecessor that jumps to it continues that predecessor; the block itself stays
\* until the unreachable blocks go.
MergeBlock(f, g, b) ==
    LET a == CHOOSE p \in Preds(g, b) : TRUE
        t == LastInstr(f, a).to[1]
        bound == FoldLeft(LAMBDA h, k : ReplaceInFunc(h, f.block[b].params[k], LastInstr(h, a).to[1].args[k]),
                          f, [k \in DOMAIN f.block[b].params |-> k])
    IN IF PredCount(g, b) # 1 \/ LastInstr(f, a).op # "jmp" THEN f
       ELSE SetInstrs(bound, a, Front(bound.block[a].instrs) \o bound.block[b].instrs)

RemoveUnreachable(f) ==
    LET nodes == Nodes(CfgOf(f))
    IN FoldLeft(LAMBDA h, b : IF b \in nodes THEN h ELSE RemoveBlock(h, b), f, f.order)

RunIteration(f, escaping) ==
    LET g == CfgOf(f)
        ctx == [g |-> g, idoms |-> Idoms(g), escaping |-> escaping]
        inlined == FoldLeft(LAMBDA h, b : InlineBranches(h, ctx, b), f, f.order)
        cfg == CfgOf(inlined)
        merged == FoldLeft(LAMBDA h, b : MergeBlock(h, cfg, b), inlined, PostOrder(cfg))
    IN PrecomputeInstrs(RemoveUnreachable(merged))

ControlFlowOpt(f) ==
    LET escaping == BlocksWithEscapingArgs(f)
    IN FoldLeft(LAMBDA h, i : RunIteration(h, escaping), f, [i \in 1..NumIterations |-> i])

-----------------------------------------------------------------------------
\* SROAPass: a struct of which only members are addressed and that is otherwise only copied becomes
\* a slot for each member.
Splittable(f) ==
    {ins.dst : ins \in {a \in Instrs(f) : a.op = "alloca" /\ a.ty = "pair"}}
      \ UNION {RegsOf(ins) : ins \in {a \in Instrs(f) : a.op \notin {"memberptr", "copy"}}}

\* split_root gives the members their slots in the order of the allocations.
SplitAlloca(f, r) ==
    LET member == [i \in {0, 1} |-> f.nextReg + i]
        Slots(ins) == IF ins.op = "alloca" /\ ins.dst = r THEN <<Alloca(member[0], "int"), Alloca(member[1], "int")>>
                      ELSE <<ins>>
    IN [f EXCEPT !.block = [b \in DOMAIN @ |-> [@[b] EXCEPT !.instrs = FlattenSeq(MapSeq(@, Slots))]],
                 !.nextReg = @ + 2]

\* One member of a copy: the pointers to it, unless its struct is split, a load and a store.
CopyMember(st, ins, i, split) ==
    LET NeedsPtr(k) == ins.args[k][2] \notin DOMAIN split
        dst == st.next
        src == dst + (IF NeedsPtr(1) THEN 1 ELSE 0)
        tmp == src + (IF NeedsPtr(2) THEN 1 ELSE 0)
        Ptr(k, r) == IF NeedsPtr(k) THEN <<Instr("memberptr", r, <<ins.args[k], Imm(i)>>)>> ELSE <<>>
        At(k, r) == Reg(IF NeedsPtr(k) THEN r ELSE split[ins.args[k][2]] + i)
    IN [next |-> tmp + 1,
        instrs |-> st.instrs \o Ptr(1, dst) \o Ptr(2, src)
                   \o <<Instr("load", tmp, <<At(2, src)>>), Instr("store", NoReg, <<Reg(tmp), At(1, dst)>>)>>]

SplitCopies(f, b, split) ==
    LET st == FoldLeft(LAMBDA s, ins :
                  IF ins.op = "copy" THEN CopyMember(CopyMember(s, ins, 0, split), ins, 1, split)
                  ELSE [s EXCEPT !.instrs = Append(@, ins)],
                  [next |-> f.nextReg, instrs |-> <<>>], f.block[b].instrs)
    IN [SetInstrs(f, b, st.instrs) EXCEPT !.nextReg = st.next]

\* The address of a member of a split struct is the slot of the member.
ApplySplit(f, b, split) ==
    LET gone(ins) == ins.op = "memberptr" /\ ins.args[1][2] \in DOMAIN split
        slot(ins) == Reg(split[ins.args[1][2]] + ins.args[2][2])
        there == SelectSeq(f.block[b].instrs, gone)
        h == FoldLeft(LAMBDA k, ins : ReplaceInFunc(k, ins.dst, slot(ins)), f, there)
    IN SetInstrs(h, b, SelectSeq(h.block[b].instrs, LAMBDA ins : ~gone(ins)))

Sroa(f) ==
    LET roots == SelectSeq(FlattenSeq([k \in DOMAIN f.order |-> MapSeq(f.block[f.order[k]].instrs, LAMBDA i : i.dst)]),
                           LAMBDA r : r \in Splittable(f))
        split == [r \in Range(roots) |-> f.nextReg + 2 * ((CHOOSE k \in DOMAIN roots : roots[k] = r) - 1)]
        allocated == FoldLeft(SplitAlloca, f, roots)
        copied == FoldLeft(LAMBDA h, b : SplitCopies(h, b, split), allocated, f.order)
    IN FoldLeft(LAMBDA h, b : ApplySplit(h, b, split), copied, f.order)

-----------------------------------------------------------------------------
\* StackToRegPass.  A slot is promoted when its address is only loaded from and stored to.
AddressUses(ins) ==
    CASE ins.op = "load" -> {}
      [] ins.op = "store" -> {v[2] : v \in {w \in {ins.args[1]} : IsReg(w)}}
      [] OTHER -> RegsOf(ins)
Promotable(f) ==
    {ins.dst : ins \in {a \in Instrs(f) : a.op = "alloca" /\ a.ty = "int"}}
      \ UNION {AddressUses(ins) : ins \in Instrs(f)}

StoresTo(ins, r) == ins.op = "store" /\ ins.args[2] = Reg(r)
LoadsFrom(ins, r) == ins.op = "load" /\ ins.args[1] = Reg(r)
StoreBlocks(f, r) == {b \in Range(f.order) : \E ins \in Range(f.block[b].instrs) : StoresTo(ins, r)}
\* The blocks that load the slot before they store to it.
LoadBlocks(f, r) ==
    {b \in Range(f.order) : \E i \in DOMAIN f.block[b].instrs :
        /\ LoadsFrom(f.block[b].instrs[i], r)
        /\ \A j \in 1..i - 1 : ~StoresTo(f.block[b].instrs[j], r)}

IsSlotLoaded(f, g, r, b) == \E c \in ReachFrom(g, {}, {b}) : c \in LoadBlocks(f, r)

\* The joins that get the slot as a parameter; a parameter counts as a store.
RECURSIVE JoinsFor(_, _, _, _, _)
JoinsFor(f, g, idoms, r, joins) ==
    LET stores == {NodeOf(g, b) : b \in StoreBlocks(f, r)} \cup joins
        more == {j \in UNION {Frontier(g, idoms, s) : s \in stores} : IsSlotLoaded(f, g, r, j)}
    IN IF more \subseteq joins THEN joins ELSE JoinsFor(f, g, idoms, r, joins \cup more)

\* create_undefined, and what a slot is taken to hold where no store comes before the load.
Undefined == Imm(0)
Current(cur, r) == IF r \in DOMAIN cur THEN cur[r] ELSE Undefined
Renamed(cur, v) == IF IsReg(v) /\ v[2] \in DOMAIN cur THEN cur[v[2]] ELSE v

\* One instruction under the values the slots have; new[b] is the sequence of <<parameter, slot>> of block b.
RenameInstr(slots, new, st, ins) ==
    CASE ins.op = "alloca" /\ ins.dst \in slots -> st
      [] ins.op = "store" /\ IsReg(ins.args[2]) /\ ins.args[2][2] \in slots ->
            [st EXCEPT !.cur = (ins.args[2][2] :> Renamed(@, ins.args[1])) @@ @]
      [] ins.op = "load" /\ IsReg(ins.args[1]) /\ ins.args[1][2] \in slots ->
            [st EXCEPT !.cur = (ins.dst :> Current(@, ins.args[1][2])) @@ @]
      [] OTHER ->
            LET passed == [ins EXCEPT !.to = MapSeq(@, LAMBDA t :
                              [t EXCEPT !.args = @ \o MapSeq(new[t.block], LAMBDA p : Current(st.cur, p[2]))])]
            IN [st EXCEPT !.instrs = Append(@, MapValues(passed, LAMBDA v : Renamed(st.cur, v)))]

\* rename: the blocks in the order of the dominator tree, each with the values at the end of its dominator.
RECURSIVE RenameBlock(_, _, _, _, _, _)
RenameBlock(f, tree, slots, new, b, cur) ==
    LET params == FoldLeft(LAMBDA c, p : (p[2] :> Reg(p[1])) @@ c, cur, new[b])
        st == FoldLeft(LAMBDA s, ins : RenameInstr(slots, new, s, ins),
                       [instrs |-> <<>>, cur |-> params], f.block[b].instrs)
        here == [SetInstrs(f, b, st.instrs) EXCEPT !.block[b].params = @ \o MapSeq(new[b], LAMBDA p : p[1])]
    IN FoldLeft(LAMBDA h, c : RenameBlock(h, tree, slots, new, c, st.cur), here,
                Children(tree.order, tree.idoms, b))

StackToReg(f) ==
    LET g == CfgOf(f)
        idoms == Idoms(g)
        slots == Promotable(f)
        joins == [r \in slots |-> JoinsFor(f, g, idoms, r, {})]
        pairs == SetToSortSeq({<<b, r>> \in Range(f.order) \X slots : b \in joins[r]},
                              LAMBDA p, q : p[1] < q[1] \/ (p[1] = q[1] /\ p[2] < q[2]))
        paramOf == [p \in Range(pairs) |-> f.nextReg + (CHOOSE k \in DOMAIN pairs : pairs[k] = p) - 1]
        new == [b \in DOMAIN f.block |->
                   MapSeq(SelectSeq(pairs, LAMBDA p : p[1] = b), LAMBDA p : <<paramOf[p], p[2]>>)]
        grown == [f EXCEPT !.nextReg = @ + Len(pairs)]
    IN RemoveDead(PrecomputeInstrs(
           RenameBlock(grown, [order |-> PostOrder(g), idoms |-> idoms], slots, new, EntryOf(f), <<>>)))

-----------------------------------------------------------------------------
\* InliningPass: every call of a function that is no longer being visited, callees before callers.
CallsIn(f) == {ins.ty : ins \in {a \in Instrs(f) : a.op = "call"}}

\* The registers of the callee in the caller: an argument, a folded value, or a register of its own.
InlinedRegs(callee, args, next) ==
    LET direct(ins) == IF ins.op = "loadarg" THEN <<args[ins.args[1][2] + 1]>> ELSE Precomputed(ins)
        values == {ins \in Instrs(callee) : ins.dst # NoReg /\ direct(ins) # <<>>}
        fresh == SetToSortSeq(Defined(callee) \ {ins.dst : ins \in values}, <)
    IN [map |-> [r \in Defined(callee) |->
                    IF \E ins \in values : ins.dst = r
                      THEN direct(CHOOSE ins \in values : ins.dst = r)[1]
                      ELSE Reg(next + (CHOOSE k \in DOMAIN fresh : fresh[k] = r) - 1)],
        gone |-> values, next |-> next + Len(fresh)]

InlineCallWith(regs, f, b, i, callee) ==
    LET call == f.block[b].instrs[i]
        single == Len(callee.order) = 1
        end == f.nextBlock
        newBlock == [c \in Range(callee.order) |-> end + (CHOOSE k \in DOMAIN callee.order : callee.order[k] = c)]
        value(v) == IF IsReg(v) /\ v[2] \in DOMAIN regs.map THEN regs.map[v[2]] ELSE v
        renumber(ins) == [MapValues(ins, value) EXCEPT
                             !.dst = IF @ = NoReg THEN NoReg ELSE regs.map[@][2],
                             !.to = MapSeq(@, LAMBDA t : [t EXCEPT !.block = newBlock[@]])]
        body(c) == MapSeq(SelectSeq(callee.block[c].instrs, LAMBDA ins : ins \notin regs.gone /\ ins.op # "ret"),
                          renumber)
        code(c) == SelectSeq(body(c), LAMBDA ins : ins.op # "alloca")
        allocas == FlattenSeq([k \in DOMAIN callee.order |->
                                  SelectSeq(body(callee.order[k]), LAMBDA ins : ins.op = "alloca")])
        returned == {ins.args[1] : ins \in {a \in Instrs(callee) : a.op = "ret" /\ a.args # <<>>}}
        before == SubSeq(f.block[b].instrs, 1, i - 1)
        after == SubSeq(f.block[b].instrs, i + 1, Len(f.block[b].instrs))
        inlined == [c \in Range(callee.order) |->
                       [params |-> MapSeq(callee.block[c].params, LAMBDA r : regs.map[r][2]),
                        instrs |-> code(c) \o IF LastInstr(callee, c).op = "ret"
                                                THEN <<Jmp(Target(end, <<>>))>> ELSE <<>>]]
        at == CHOOSE k \in DOMAIN f.order : f.order[k] = b
        spliced ==
            IF single THEN SetInstrs(f, b, before \o code(EntryOf(callee)) \o after)
            ELSE [f EXCEPT !.order = SubSeq(@, 1, at) \o MapSeq(callee.order, LAMBDA c : newBlock[c])
                                     \o <<end>> \o SubSeq(@, at + 1, Len(@)),
                           !.block = [n \in Range(newBlock) |->
                                         inlined[CHOOSE c \in Range(callee.order) : newBlock[c] = n]]
                                     @@ (end :> [EmptyBlock EXCEPT !.instrs = after])
                                     @@ (b :> [@[b] EXCEPT !.instrs =
                                            Append(before, Jmp(Target(newBlock[EntryOf(callee)], <<>>)))])
                                     @@ @,
                           !.nextBlock = end + Len(callee.order) + 1]
        withSlots == [spliced EXCEPT !.block[EntryOf(f)].instrs = Reverse(allocas) \o @, !.nextReg = regs.next]
    IN [f |-> IF call.dst # NoReg /\ returned # {}
                THEN ReplaceInFunc(withSlots, call.dst, value(CHOOSE v \in returned : TRUE)) ELSE withSlots,
        k |-> IF single THEN at ELSE at + Len(callee.order) + 1,
        i |-> IF ~single THEN 1
              ELSE i + Len(code(EntryOf(callee))) + IF b = EntryOf(f) THEN Len(allocas) ELSE 0]

InlineCall(f, b, i, callee) == InlineCallWith(InlinedRegs(callee, f.block[b].instrs[i].args, f.nextReg), f, b, i, callee)

\* From block k, instruction i on; what comes in with a callee is not looked at again, and a
\* function is not inlined into itself.
RECURSIVE InlineCalls(_, _, _, _)
InlineCalls(m, name, k, i) ==
    LET f == m[name] IN
    IF k > Len(f.order) THEN [m EXCEPT ![name] = PrecomputeInstrs(@)]
    ELSE LET instrs == f.block[f.order[k]].instrs IN
         IF i > Len(instrs) THEN InlineCalls(m, name, k + 1, 1)
         ELSE IF instrs[i].op # "call" \/ instrs[i].ty = name THEN InlineCalls(m, name, k, i + 1)
         ELSE LET Continue(new) == InlineCalls([m EXCEPT ![name] = new.f], name, new.k, new.i)
              IN Continue(InlineCall(f, f.order[k], i, m[instrs[i].ty]))

RECURSIVE InlineInto(_, _)
InlineInto(st, name) ==
    IF name \in st.visited THEN st
    ELSE LET below == FoldLeft(InlineInto, [st EXCEPT !.visited = @ \cup {name}],
                               SetToSeq(CallsIn(st.m[name])))
         IN [below EXCEPT !.m = InlineCalls(@, name, 1, 1)]
Inlining(m) == InlineInto([m |-> m, visited |-> {}], "main").m

\* DeadFuncEliminationPass: what main does not reach through calls goes.
RECURSIVE ReachFuncs(_, _)
ReachFuncs(m, S) ==
    LET more == S \cup UNION {CallsIn(m[n]) : n \in S} IN IF more = S THEN S ELSE ReachFuncs(m, more)
DeadFuncElimination(m) == [n \in ReachFuncs(m, {"main"}) |-> m[n]]

-----------------------------------------------------------------------------
(***************************************************************************)
(* passes::Pipeline: a program is lowered to SSA form and its module goes  *)
(* through the passes of an optimization level in the order of             *)
(* create_opt_passes.  Left out of that list: the canonicalization of      *)
(* pointer arithmetic and the promotion of heap allocations, which find    *)
(* nothing to do in these programs, and the address table.                 *)
(***************************************************************************)

CONSTANTS Programs,   \* the programs that are compiled
          Inputs,     \* what a program may find to read
          OptLevels,  \* optimization levels
          MaxSteps    \* a run of SSA code that takes more steps is taken not to end

ASSUME OptAssumption == OptLevels \subseteq 0..2 /\ MaxSteps \in Nat

VARIABLES program, level, module, done
vars == <<program, level, module, done>>

\* create_opt_passes
O(n, names) == IF level >= n THEN names ELSE <<>>
OptPasses ==
    <<"dead-func-elimination">>
    \o O(1, <<"control-flow-opt", "sroa", "stack-to-reg", "peephole-opt", "branch-elimination", "inlining",
              "dead-func-elimination", "control-flow-opt", "sroa", "stack-to-reg">>)
    \o O(2, <<"licm">>)
    \o O(1, <<"peephole-opt", "control-flow-opt", "sroa", "stack-to-reg", "dead-code-elimination">>)
    \o <<"legalizer">>

NotGenerated == <<>>
Init == /\ program \in Programs
        /\ level \in OptLevels
        /\ module = NotGenerated
        /\ done = 0

\* SSAGenerator::generate
GenerateSsa == /\ module = NotGenerated
               /\ module' = GenerateModule(program)
               /\ UNCHANGED <<program, level, done>>

RunPass(name, new) == /\ module # NotGenerated
                      /\ done < Len(OptPasses)
                      /\ OptPasses[done + 1] = name
                      /\ module' = new
                      /\ done' = done + 1
                      /\ UNCHANGED <<program, level>>
OnFunctions(name, Pass(_)) == RunPass(name, [n \in DOMAIN module |-> Pass(module[n])])

RunDeadFuncElimination == RunPass("dead-func-elimination", DeadFuncElimination(module))
RunControlFlowOpt == OnFunctions("control-flow-opt", ControlFlowOpt)
RunSroa == OnFunctions("sroa", Sroa)
RunStackToReg == OnFunctions("stack-to-reg", StackToReg)
RunPeephole == OnFunctions("peephole-opt", Peephole)
RunBranchElimination == OnFunctions("branch-elimination", BranchElimination)
RunInlining == RunPass("inlining", Inlining(module))
RunLicm == OnFunctions("licm", Licm)
RunDeadCodeElimination == OnFunctions("dead-code-elimination", DeadCodeEliminationPass)
RunLegalizer == OnFunctions("legalizer", Legalize)

Next == \/ GenerateSsa \/ RunDeadFuncElimination \/ RunControlFlowOpt \/ RunSroa \/ RunStackToReg \/ RunPeephole
        \/ RunBranchElimination \/ RunInlining \/ RunLicm \/ RunDeadCodeElimination \/ RunLegalizer
Spec == Init /\ [][Next]_vars

-----------------------------------------------------------------------------
\* SSA generation and every pass keep the meaning of the program: on every input on which the
\* statements of the source divide by nothing that is zero, it prints and returns what they say.
MeaningKept == module # NotGenerated => \A input \in Inputs : \A source \in {SourceMeaning(program, input)} :
    source.end = "ret" => Meaning(module, input, MaxSteps) = source

\* In code that can be reached a register is defined once, before every use of it: in the same block
\* or in one that dominates it.  A branch passes a value for every parameter of its target.
DefinedBefore(f, tree, b, i, r) ==
    \/ r \in Range(f.block[b].params)
    \/ \E j \in 1..i - 1 : f.block[b].instrs[j].dst = r
    \/ \E c \in DefBlocks(f, r) \cap DOMAIN tree : c # b /\ Dominates(tree, c, b)
WellFormedFunc(f) ==
    LET tree == Idoms(CfgOf(f))
    IN /\ \A r \in Defined(f) : Cardinality(DefBlocks(f, r) \cap DOMAIN tree) <= 1
       /\ \A b \in DOMAIN tree : \A i \in DOMAIN f.block[b].instrs :
             LET ins == f.block[b].instrs[i]
             IN /\ \A r \in RegsOf(ins) : DefinedBefore(f, tree, b, i, r)
                /\ \A t \in Range(ins.to) : Len(t.args) = Len(f.block[t.block].params)
                /\ (i = Len(f.block[b].instrs)) = (ins.op \in {"jmp", "cjmp", "ret"})
WellFormed == \A n \in DOMAIN module : WellFormedFunc(module[n])

\* ssa::Validator finds no register that is used and not defined anywhere.
Validated == \A n \in DOMAIN module : Validate(module[n])

\* The code generator moves the arguments of a branch in front of it and cannot do so for two sets
\* of arguments to one block: after the legalizer no branch has one target for both outcomes.
Legal == done = Len(OptPasses) =>
    \A n \in DOMAIN module : \A ins \in Instrs(module[n]) :
        ins.op = "cjmp" => ins.to[1].block # ins.to[2].block
=============================================================================
