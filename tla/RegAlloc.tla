------------------------------ MODULE RegAlloc -------------------------------
(***************************************************************************)
(* RegAllocPass::run (src/src/banjo/codegen/reg_alloc_pass.cpp) with the   *)
(* spill code of the x86-64 backend.  Live ranges are gathered into        *)
(* bundles, bundles that a move connects are coalesced, and a priority     *)
(* queue is emptied: a bundle gets a suggested register, any register that *)
(* is free for it, the place of an evicted bundle, or it is spilled into   *)
(* one bundle per operand.  The allocations are then applied to the code   *)
(* in the order in which they were made.                                   *)
(*                                                                         *)
(* The order in which a hash map lists the bundles, the one in which equal *)
(* weights leave the queue and the one of suggestions are not fixed by the *)
(* code.  Every choice is modelled; to keep large functions tractable an   *)
(* instance may restrict equal weights to program order and its reverse.   *)
(***************************************************************************)
EXTENDS MachineCode

CONSTANTS
    Funcs,      \* the functions to allocate
    ClassOf,    \* register class of every virtual register
    Candidates, \* the physical registers of a class, in the order they are tried
    Ties,       \* the orders in which equal weights may leave the queue, per function
    MaxSlots    \* bound: stack slots for spilled bundles

NoSlot == 0
Slots == 1..MaxSlots

Ranges(f) == {x \in [block : Blocks(f), start : Nat, end : Nat] : x.start <= x.end}
Segment(f) == [reg : VRegs, range : Ranges(f)]

\* The live ranges of a function, and the ranges in which a physical
\* register is taken: its own ones and the points at which a call destroys
\* it (reserve_fixed_ranges).
Analysis(f) == {PreciseRanges(f, b, LiveIns(f)[b], LiveOuts(f)[b]) : b \in Blocks(f)}

RangeSet(seq) == {seq[j] : j \in 1..Len(seq)}

SegmentsOf(f, v) ==
    UNION {{[reg |-> v, range |-> x] : x \in RangeSet(an.ranges[v]) \intersect Ranges(f)} : an \in Analysis(f)}

ReservedIn(an) ==
    (UNION {{[reg |-> r, range |-> x] : x \in RangeSet(an.ranges[r])} : r \in PRegs})
    \union {[reg |-> p.reg, range |-> LiveRange(p.block, DefPoint(p.instr), DefPoint(p.instr))] : p \in an.kills}
Reserved(f) ==
    UNION {ReservedIn(an) \intersect [reg : PRegs, range : Ranges(f)] : an \in Analysis(f)}

\* The points of instruction i at which an operand occupies its register.
OpRange(b, i, usage) ==
    LiveRange(b, IF usage = "DEF" THEN DefPoint(i) ELSE UsePoint(i),
                 IF usage = "USE" THEN UsePoint(i) ELSE DefPoint(i))

\* The operands of a function that are virtual registers.
VOps(f) ==
    {o \in UNION {[reg : VRegs, block : {b}, instr : Instrs(f, b), k : 1..3] : b \in Blocks(f)} :
        /\ o.k <= Len(RegOps(f, o.block, o.instr))
        /\ o.reg \in RegOps(f, o.block, o.instr)[o.k].regs}
UsageOf(f, o) == RegOps(f, o.block, o.instr)[o.k].usage
RangeOf(f, o) == OpRange(o.block, o.instr, UsageOf(f, o))

\* The allocator takes a function as the lowerer makes it: no instruction
\* writes a register that it also reads, unless as one operand.
ASSUME FuncsAssumption ==
    \A f \in Funcs :
        /\ WellFormed(f)
        /\ \A o, p \in VOps(f) :
             (o.block = p.block /\ o.instr = p.instr /\ o.reg = p.reg) => UsageOf(f, o) = UsageOf(f, p)

ASSUME RegsAssumption ==
    /\ IsFiniteSet(VRegs)
    /\ \A v \in VRegs : Candidates[ClassOf[v]] \in Seq(PRegs)
    /\ MaxSlots \in Nat
    /\ (Regs \union {Imm}) \intersect Slots = {}

ASSUME TiesAssumption == Ties \in [Funcs -> SUBSET {"any", "first", "last"}]

VARIABLES
    func,       \* the function
    phase,      \* "coalesce", "alloc", "apply" or "done"
    ties,       \* the order of equal weights in this run of the pass
    reserved,   \* reserved_segments of all blocks
    bundles,    \* segments of the bundle that started as that of a register
    order,      \* the order in which the bundles are listed
    outer,      \* the bundles the outer loop of coalesce_bundles has left
    inner,      \* those its inner loop has left
    queue,      \* ctx.bundles
    allocs,     \* ctx.allocs
    slots,      \* stack slots made so far
    applied,    \* allocations applied so far
    code        \* the function as it is rewritten

vars == <<func, phase, ties, reserved, bundles, order, outer, inner, queue, allocs, slots, applied, code>>

Bundle == [segs : SUBSET Segment(func), class : {ClassOf[v] : v \in VRegs}, evictable : BOOLEAN,
           src : Slots \union {NoSlot}, dst : Slots \union {NoSlot}, op : 0..3]
Alloc == [reg : PRegs, bundle : Bundle]

TypeOK ==
    /\ func \in Funcs
    /\ phase \in {"coalesce", "alloc", "apply", "done"}
    /\ ties \in Ties[func]
    /\ reserved \subseteq [reg : PRegs, range : Ranges(func)]
    /\ bundles \in [VRegs -> SUBSET Segment(func)]
    /\ {order, outer, inner} \subseteq Seq(VRegs)
    /\ queue \subseteq Bundle
    /\ allocs \in Seq(Alloc)
    /\ slots \in 0..MaxSlots
    /\ applied \in 0..Len(allocs)
    /\ DOMAIN code = Blocks(func)

\* An instruction together with the loads and the stores around it.
Rewritten(ins) == [pre |-> <<>>, ins |-> ins, post |-> <<>>]

Original == [b \in Blocks(func) |-> [i \in Instrs(func, b) |-> Rewritten(Instr(func, b, i))]]

Init ==
    /\ func \in Funcs
    /\ phase = "coalesce"
    /\ ties \in Ties[func]
    /\ reserved = Reserved(func)
    /\ bundles = [v \in VRegs |-> SegmentsOf(func, v)]
    /\ order \in SetToSeqs(VRegs) /\ outer = order /\ inner = order
    /\ queue = {}
    /\ allocs = <<>>
    /\ slots = 0
    /\ applied = 0
    /\ code = Original

-----------------------------------------------------------------------------
(* Coalescing.  A bundle that was merged into another one has no segments. *)

IsConnectingMove(dst, src) ==
    /\ dst.range.block = src.range.block
    /\ \E i \in Instrs(func, dst.range.block) :
         /\ dst.range.start = DefPoint(i) /\ src.range.end = UsePoint(i)
         /\ LET ins == Instr(func, dst.range.block, i)
            IN  ins.op = "mov" /\ ins.args[2] = src.reg

SegsIntersect(x, y) == \E s \in x, t \in y : Intersects(s.range, t.range)

CanCoalesce(a, b) ==
    /\ ClassOf[a] = ClassOf[b]
    /\ \E t \in bundles[b] :
         /\ bundles[b] = {t}
         /\ \E s \in bundles[a] : IsConnectingMove(s, t) \/ IsConnectingMove(t, s)
    /\ ~ SegsIntersect(bundles[a], bundles[b])

\* One turn of the two nested loops of coalesce_bundles.
TryCoalesce ==
    /\ phase = "coalesce" /\ outer # <<>>
    /\ LET a == Head(outer)
           b == Head(inner)
       IN  \/ /\ CanCoalesce(a, b)
              /\ bundles' = [bundles EXCEPT ![a] = @ \union bundles[b], ![b] = {}]
           \/ ~ CanCoalesce(a, b) /\ UNCHANGED bundles
    /\ \/ /\ Tail(inner) # <<>>
          /\ inner' = Tail(inner) /\ UNCHANGED outer
       \/ /\ Tail(inner) = <<>>
          /\ inner' = order /\ outer' = Tail(outer)
    /\ UNCHANGED <<func, ties, reserved, phase, order, queue, allocs, slots, applied, code>>

\* The queue is made of the bundles that are left; the order is forgotten.
BundleOf(v) == [segs |-> bundles[v], class |-> ClassOf[v], evictable |-> TRUE,
                src |-> NoSlot, dst |-> NoSlot, op |-> 0]

FillQueue ==
    /\ phase = "coalesce" /\ outer = <<>>
    /\ queue' = {BundleOf(v) : v \in {w \in VRegs : bundles[w] # {}}}
    /\ phase' = "alloc"
    /\ order' = <<>> /\ inner' = <<>>
    /\ UNCHANGED <<func, ties, reserved, bundles, outer, allocs, slots, applied, code>>

-----------------------------------------------------------------------------
(* Allocation.                                                             *)

\* BundleComparator: the bundle with the longest range is next.
Weight(bn) == Max({InstrAt(s.range.end) - InstrAt(s.range.start) : s \in bn.segs})
Heaviest == {bn \in queue : \A other \in queue : Weight(other) <= Weight(bn)}

\* Where a bundle starts in the function.
Place(bn) == Min({(s.range.block * 100 + s.range.start) * 4 + bn.op : s \in bn.segs})

Top == {bn \in Heaviest : \A other \in Heaviest :
            /\ ties = "first" => Place(bn) <= Place(other)
            /\ ties = "last"  => Place(bn) >= Place(other)}

\* suggest_regs: the other side of the moves at both ends of a range.
Suggested(bn) ==
    {r \in PRegs : \E s \in bn.segs :
        LET first == Instr(func, s.range.block, InstrAt(s.range.start))
            last  == Instr(func, s.range.block, InstrAt(s.range.end))
        IN  \/ first.op = "mov" /\ first.args[2] = r
            \/ last.op = "mov" /\ last.args[1] = r}

\* is_alloc_possible
Free(bn, r) == \A s \in bn.segs : \A x \in reserved : x.reg = r => ~ Intersects(s.range, x.range)

IsAllocPossibleLater(bn, r) ==   \* mutant: only the latest allocation of a register is compared
    /\ Free(bn, r)
    /\ \A j \in 1..Len(allocs) :
         (allocs[j].reg = r /\ \A m \in (j + 1)..Len(allocs) : allocs[m].reg # r)
             => ~ SegsIntersect(allocs[j].bundle.segs, bn.segs)
IsAllocPossible(bn, r) ==
    /\ Free(bn, r)
    /\ \A j \in 1..Len(allocs) :
         allocs[j].reg = r => ~ SegsIntersect(allocs[j].bundle.segs, bn.segs)

\* try_assign_suggested_regs, then try_assign_candidate_regs.
RegChoices(bn) ==
    LET suggested == {r \in Suggested(bn) : IsAllocPossible(bn, r)}
        tried == Candidates[bn.class]
        possible == {j \in 1..Len(tried) : IsAllocPossible(bn, tried[j])}
    IN  IF suggested # {} THEN suggested
        ELSE {tried[j] : j \in {m \in possible : \A n \in possible : m <= n}}

Assign ==
    /\ phase = "alloc"
    /\ \E bn \in Top : \E r \in RegChoices(bn) :
         /\ allocs' = Append(allocs, [reg |-> r, bundle |-> bn])
         /\ queue' = queue \ {bn}
    /\ UNCHANGED <<func, ties, reserved, phase, bundles, order, outer, inner, slots, applied, code>>

CanEvictAlways(bn, held) ==   \* mutant: spilled bundles evict each other
    held.class = bn.class /\ \A s \in bn.segs : \E t \in held.segs : Encloses(t.range, s.range)
CanEvict(bn, held) ==
    /\ held.evictable /\ held.class = bn.class
    /\ \A s \in bn.segs : \E t \in held.segs : Encloses(t.range, s.range)

Evictable(bn) == {j \in 1..Len(allocs) : ~ bn.evictable /\ CanEvict(bn, allocs[j].bundle)}

\* try_evict: the first allocation that makes room goes back to the queue.
Evict ==
    /\ phase = "alloc"
    /\ \E bn \in Top :
         /\ RegChoices(bn) = {}
         /\ \E j \in Evictable(bn) :
              /\ \A m \in Evictable(bn) : j <= m
              /\ queue' = (queue \ {bn}) \union {allocs[j].bundle}
              /\ allocs' = [allocs EXCEPT ![j] = [@ EXCEPT !.bundle = bn]]
    /\ UNCHANGED <<func, ties, reserved, phase, bundles, order, outer, inner, slots, applied, code>>

SpillBundleDef(class, o, slot) ==   \* mutant: what is read and written is not loaded
    [segs |-> {[reg |-> o.reg, range |-> RangeOf(func, o)]}, class |-> class, evictable |-> FALSE,
     src |-> IF UsageOf(func, o) = "USE" THEN slot ELSE NoSlot,
     dst |-> IF UsageOf(func, o) = "USE" THEN NoSlot ELSE slot, op |-> o.k]
SpillBundle(class, o, slot) ==
    LET usage == UsageOf(func, o)
    IN  [segs |-> {[reg |-> o.reg, range |-> RangeOf(func, o)]}, class |-> class, evictable |-> FALSE,
         src |-> IF usage = "DEF" THEN NoSlot ELSE slot,
         dst |-> IF usage = "USE" THEN NoSlot ELSE slot, op |-> o.k]

\* The operands inside of a bundle.
InsideShort(bn) ==   \* mutant: the last instruction of a range is left out
    {o \in VOps(func) : \E s \in bn.segs :
        s.reg = o.reg /\ s.range.block = o.block /\ Touches(s.range, o.instr) /\ DefPoint(o.instr) < s.range.end}
Inside(bn) ==
    {o \in VOps(func) : \E s \in bn.segs :
        s.reg = o.reg /\ s.range.block = o.block /\ Touches(s.range, o.instr)}

\* spill: one bundle per operand, all with the same new stack slot.
SpillFirst ==   \* mutant: nothing is evicted
    /\ phase = "alloc"
    /\ \E bn \in Top :
         /\ RegChoices(bn) = {}
         /\ queue' = (queue \ {bn}) \union {SpillBundle(bn.class, o, slots + 1) : o \in Inside(bn)}
    /\ slots' = slots + 1
    /\ UNCHANGED <<func, ties, reserved, phase, bundles, order, outer, inner, allocs, applied, code>>
Spill ==
    /\ phase = "alloc" /\ slots < MaxSlots
    /\ \E bn \in Top :
         /\ RegChoices(bn) = {} /\ Evictable(bn) = {}
         /\ queue' = (queue \ {bn}) \union {SpillBundle(bn.class, o, slots + 1) : o \in Inside(bn)}
    /\ slots' = slots + 1
    /\ UNCHANGED <<func, ties, reserved, phase, bundles, order, outer, inner, allocs, applied, code>>

-----------------------------------------------------------------------------
(* Rewriting the code.                                                     *)

\* is_memory_operand_allowed looks at the instruction as it is by now.
IsMemoryOperandAllowed(ins) ==
    ins.op \in {"mov", "add"} /\ {ins.args[1], ins.args[2]} \subseteq Regs

\* insert_load and insert_store
InsertLoad(c, r, slot) ==
    IF IsMemoryOperandAllowed(c.ins) THEN [c EXCEPT !.ins.args[2] = slot]
    ELSE [c EXCEPT !.pre = Append(@, Mov(r, slot))]
InsertStore(c, r, slot) ==
    IF IsMemoryOperandAllowed(c.ins) THEN [c EXCEPT !.ins.args[1] = slot]
    ELSE [c EXCEPT !.post = <<Mov(slot, r)>> \o @]

\* apply_alloc for one instruction: load, replace, store.
ApplyAlloc(c, b, i, al) ==
    LET mine == {s \in al.bundle.segs : s.range.block = b /\ Touches(s.range, i)}
        loaded == IF al.bundle.src # NoSlot THEN InsertLoad(c, al.reg, al.bundle.src) ELSE c
        named == [loaded EXCEPT !.ins.args =
                     [j \in DOMAIN @ |-> IF \E s \in mine : s.reg = @[j] THEN al.reg ELSE @[j]]]
    IN  IF mine = {} THEN c
        ELSE IF al.bundle.dst # NoSlot THEN InsertStore(named, al.reg, al.bundle.dst) ELSE named

Apply ==
    /\ \/ phase = "alloc" /\ queue = {}
       \/ phase = "apply"
    /\ applied < Len(allocs)
    /\ phase' = "apply"
    /\ applied' = applied + 1
    /\ code' = [b \in Blocks(func) |-> [i \in Instrs(func, b) |->
                   ApplyAlloc(code[b][i], b, i, allocs[applied + 1])]]
    /\ UNCHANGED <<func, ties, reserved, bundles, order, outer, inner, queue, allocs, slots>>

\* remove_useless_instrs: moves of a register to itself.
Kept(ins) ==
    IF ins.op = "mov" /\ ins.args[1] \in Regs /\ ins.args[1] = ins.args[2] THEN Jmp ELSE ins

RemoveUseless ==
    /\ phase \in {"alloc", "apply"} /\ queue = {} /\ applied = Len(allocs)
    /\ phase' = "done"
    /\ code' = [b \in Blocks(func) |-> [i \in Instrs(func, b) |->
                   [code[b][i] EXCEPT !.ins = Kept(@)]]]
    /\ UNCHANGED <<func, ties, reserved, bundles, order, outer, inner, queue, allocs, slots, applied>>

Next ==
    TryCoalesce \/ FillQueue \/ Assign \/ Evict \/ Spill \/ Apply \/ RemoveUseless

\* The pass is a sequential computation that runs until it returns.
Spec == Init /\ [][Next]_vars /\ WF_vars(Next)

-----------------------------------------------------------------------------
(* Properties.                                                             *)

Disjoint(x, y) == ~ SegsIntersect(x, y)

\* Whatever is merged, evicted or spilled, a physical register never holds
\* two bundles at the same point, nor a bundle where an instruction needs
\* the register itself, nor two virtual registers of one bundle
\* (is_alloc_possible, can_evict, try_coalesce).
NoConflict ==
    /\ \A j, m \in 1..Len(allocs) :
         (j # m /\ allocs[j].reg = allocs[m].reg) => Disjoint(allocs[j].bundle.segs, allocs[m].bundle.segs)
    /\ \A j \in 1..Len(allocs) : Free(allocs[j].bundle, allocs[j].reg)
    /\ \A bn \in queue \union {allocs[j].bundle : j \in 1..Len(allocs)} :
         \A s, t \in bn.segs : s.reg # t.reg => ~ Intersects(s.range, t.range)

Waiting == IF phase = "coalesce" THEN {bundles[v] : v \in VRegs} ELSE {bn.segs : bn \in queue}
Placed == {allocs[j].bundle.segs : j \in 1..Len(allocs)}

\* No operand is lost on the way: each one is inside a segment of its
\* register that waits or has been placed, however often its bundle was
\* merged, evicted and spilled (alloc_bundle).
Served ==
    \A o \in VOps(func) :
        \E segs \in Waiting \union Placed : \E s \in segs :
            s.reg = o.reg /\ Encloses(s.range, RangeOf(func, o))

\* What the processor does with an instruction: env has the value at every
\* place, seen the values that instructions other than moves have read.  A
\* value is named after the instruction that made it.
Undefined == <<0, 0>>
Value(env, a, name) == IF a = Imm THEN name ELSE env[a]

Execute(st, ins, name, uses) ==
    LET Val(n) == Value(st.env, ins.args[n], name)
        Seen(vals) == Append(st.seen, vals)
    IN  CASE ins.op = "mov" -> [env |-> [st.env EXCEPT ![ins.args[1]] = Val(2)], seen |-> st.seen]
          [] ins.op \in {"add", "sub"} ->
               [env |-> [st.env EXCEPT ![ins.args[1]] = name], seen |-> Seen(<<Val(1), Val(2)>>)]
          [] ins.op = "cmp" -> [env |-> st.env, seen |-> Seen(<<Val(1), Val(2)>>)]
          [] ins.op = "call" ->
               [env |-> [a \in DOMAIN st.env |->
                            IF a = RetReg THEN name ELSE IF a \in Volatile THEN Undefined ELSE st.env[a]],
                seen |-> Seen([r \in uses |-> st.env[r]])]
          [] OTHER -> st

\* Loads and stores are moves between a register and a slot.
Moved(env, moves) ==
    LET e[n \in 0..Len(moves)] ==
            IF n = 0 THEN env
            ELSE [e[n - 1] EXCEPT ![moves[n].args[1]] = e[n - 1][moves[n].args[2]]]
    IN  e[Len(moves)]

\* An instruction with its loads and stores.
Step(st, c, name, uses) ==
    LET after == Execute([env |-> Moved(st.env, c.pre), seen |-> st.seen], c.ins, name, uses)
    IN  [env |-> Moved(after.env, c.post), seen |-> after.seen]

\* The m-th block of a path.
InBlock(c, b, m, st) ==
    LET s[i \in 0..Len(Block(func, b))] ==
            IF i = 0 THEN st ELSE Step(s[i - 1], c[b][i - 1], <<m, i>>, CallArgs(func, b, i - 1))
    IN  s[Len(Block(func, b))]

Start == [env |-> [a \in Regs \union Slots |-> IF a \in PRegs THEN <<-1, a>> ELSE Undefined],
          seen |-> <<>>]
Run(c, p) ==
    LET s[m \in 0..Len(p)] == IF m = 0 THEN Start ELSE InBlock(c, p[m], m, s[m - 1])
    IN  s[Len(p)]

Paths == {p \in UNION {[1..n -> Blocks(func)] : n \in 1..(Len(func.blocks) + 1)} :
             p[1] = 0 /\ \A m \in 1..(Len(p) - 1) : p[m + 1] \in Succs(func, p[m])}

NoneLeft ==
    \A b \in Blocks(func) : \A i \in Instrs(func, b), j \in 1..2 :
        code[b][i].ins.op \in Arity2 => code[b][i].ins.args[j] \notin VRegs

\* The rewritten code computes what the function computed: along every path
\* each instruction reads the values it would have read if there were a
\* register for every virtual register (apply_alloc, insert_load,
\* insert_store, remove_useless_instrs), and no virtual register is left.
Faithful ==
    phase = "done" =>
        NoneLeft /\ \A p \in Paths : Run(code, p).seen = Run(Original, p).seen

\* The functions for which the code is right: no additions, which lose what
\* is spilled, a register to write to, calls as the lowerer makes them, and
\* no virtual register that is read before it is written.
Supported(f) ==
    /\ \A b \in Blocks(f) : \A i \in Instrs(f, b) :
         /\ Instr(f, b, i) \in Instructions /\ Instr(f, b, i).op # "add"
         /\ HasDest(Instr(f, b, i)) => Instr(f, b, i).args[1] \in Regs
    /\ \A b \in Blocks(f) : PlainCalls(f, b, LiveOuts(f)[b])
    /\ 0 \in Blocks(f) => LiveIns(f)[0] \subseteq PRegs

\* A bundle that was made by spilling gets a register; the code would give
\* it a slot of its own, which nothing is stored to.
EnoughRegisters ==
    ~ (phase = "alloc" /\ \E bn \in Top : ~ bn.evictable /\ RegChoices(bn) = {} /\ Evictable(bn) = {})

\* The queue runs empty, although eviction and spilling refill it
\* (RegAllocPass::run).
Terminates == <>(phase = "done")
==============================================================================
