--------------------------- MODULE RegAllocProofs ----------------------------
(***************************************************************************)
(* Proofs about RegAlloc for every function, every set of registers and    *)
(* every order of the queue: no physical register is given away twice, no  *)
(* operand is lost, and the rewritten code computes what the function      *)
(* computed.  The last of these rests on three parts: the places that the  *)
(* allocations give to registers (PlacesOK), the shape that each           *)
(* instruction has once the first allocations are applied (CodeOK), and    *)
(* the two runs side by side, which agree on what is still needed (Agree). *)
(***************************************************************************)
EXTENDS RegAlloc, MachineCodeProofs, FiniteSetTheorems, TLAPS

Loops == outer # <<>> => inner # <<>> /\ order # <<>>

\* Two virtual registers of a bundle that is being built do not meet.
BundlesApart ==
    \A v \in VRegs : \A s, t \in bundles[v] : s.reg # t.reg => ~ Intersects(s.range, t.range)

IInv == TypeOK /\ Loops /\ BundlesApart /\ NoConflict /\ Served

-----------------------------------------------------------------------------
(* Ranges, segments and operands.                                          *)

\* A segment names a virtual register and has a range that is not empty.
LEMMA SegmentType ==
    ASSUME NEW f, NEW s \in Segment(f)
    PROVE  /\ s.reg \in VRegs /\ s.range \in Ranges(f)
           /\ s.range.start \in Nat /\ s.range.end \in Nat /\ s.range.start <= s.range.end
BY DEF Segment, Ranges

\* Meeting is symmetric, for ranges
LEMMA IntersectsSymmetric ==
    \A x, y : Intersects(x, y) <=> Intersects(y, x)
BY DEF Intersects

\* and for bundles.
LEMMA DisjointSymmetric ==
    \A x, y : Disjoint(x, y) <=> Disjoint(y, x)
BY IntersectsSymmetric DEF Disjoint, SegsIntersect

\* What meets a range meets every range around it.
LEMMA EnclosedMeets ==
    ASSUME NEW f, NEW g, NEW x \in Ranges(f), NEW y \in Ranges(f), NEW z \in Ranges(g),
           Encloses(x, y), Intersects(y, z)
    PROVE  Intersects(x, z)
BY DEF Encloses, Intersects, Ranges

\* An operand is a virtual register, and its range lies at its instruction.
LEMMA OperandType ==
    ASSUME NEW f, NEW o \in VOps(f)
    PROVE  /\ o.reg \in VRegs /\ o.block \in Blocks(f) /\ o.instr \in Nat /\ o.k \in 1..3
           /\ RangeOf(f, o) \in Ranges(f)
           /\ RangeOf(f, o).block = o.block
           /\ UsePoint(o.instr) <= RangeOf(f, o).end /\ RangeOf(f, o).start <= DefPoint(o.instr)
           /\ Encloses(RangeOf(f, o), RangeOf(f, o))
<1>1. /\ o.reg \in VRegs /\ o.block \in Blocks(f) /\ o.instr \in Nat /\ o.k \in 1..3
  BY DEF VOps, Instrs
<1>2. RangeOf(f, o) \in Ranges(f)
  BY <1>1 DEF RangeOf, OpRange, LiveRange, Ranges, UsePoint, DefPoint
<1>3. /\ RangeOf(f, o).block = o.block
      /\ UsePoint(o.instr) <= RangeOf(f, o).end /\ RangeOf(f, o).start <= DefPoint(o.instr)
  BY <1>1 DEF RangeOf, OpRange, LiveRange, UsePoint, DefPoint
<1> QED
  BY <1>1, <1>2, <1>3 DEF Encloses, Ranges

\* Every operand of a function lies in a live range of its register.
LEMMA OperandHasSegment ==
    ASSUME NEW f \in Funcs, NEW o \in VOps(f)
    PROVE  \E s \in SegmentsOf(f, o.reg) : Encloses(s.range, RangeOf(f, o))
<1> DEFINE b == o.block
           i == o.instr
           v == o.reg
           an == PreciseRanges(f, b, LiveIns(f)[b], LiveOuts(f)[b])
           rs == an.ranges[v]
<1>1. v \in VRegs /\ b \in Blocks(f) /\ i \in Instrs(f, b) /\ i \in Nat /\ an \in Analysis(f)
  BY DEF VOps, Instrs, Analysis
<1>2. o.k \in DOMAIN RegOps(f, b, i) /\ v \in RegOps(f, b, i)[o.k].regs /\ UsageOf(f, o) \in {"USE", "DEF", "USE_DEF"}
  BY VirtualUsage DEF VOps, UsageOf
<1>3. /\ UsageOf(f, o) # "DEF" => Reads(f, b, i, v)
      /\ UsageOf(f, o) # "USE" => Writes(f, b, i, v)
  BY <1>2 DEF UsageOf, Reads, Writes, Has
<1>4. Operand(f, b, i, v) /\ WellFormed(f)
  BY <1>2, <1>3, FuncsAssumption DEF Operand
<1>5. /\ RangeOf(f, o).block = b
      /\ OperandStart(f, b, i, v) <= RangeOf(f, o).start
      /\ RangeOf(f, o).end <= OperandEnd(f, b, i, v)
  BY <1>1, <1>2, <1>3 DEF RangeOf, OpRange, LiveRange, OperandStart, OperandEnd, UsePoint, DefPoint
<1> HIDE DEF an
<1>6. PICK m \in 1..Len(rs) :
        /\ rs[m] \in Spans(b) /\ rs[m].start \in Nat /\ rs[m].end \in Nat
        /\ rs[m].start <= OperandStart(f, b, i, v) /\ OperandEnd(f, b, i, v) <= rs[m].end
  BY <1>1, <1>4, OperandsInRanges DEF an
<1> DEFINE x == rs[m]
<1>7. /\ OperandStart(f, b, i, v) \in Nat /\ OperandEnd(f, b, i, v) \in Nat
      /\ OperandStart(f, b, i, v) <= OperandEnd(f, b, i, v)
      /\ RangeOf(f, o) \in Ranges(f)
  BY <1>1, <1>4, OperandPoints, OperandType
<1>8. x \in RangeSet(rs) /\ x \in Ranges(f)
  <2>1. x \in RangeSet(rs)
    BY <1>6 DEF RangeSet
  <2>2. x.block = b /\ x = [block |-> x.block, start |-> x.start, end |-> x.end]
    BY <1>6 DEF Spans
  <2>3. x.start \in Nat /\ x.end \in Nat /\ x.start <= x.end
    BY <1>6, <1>7
  <2> HIDE DEF x
  <2>4. x \in [block : Blocks(f), start : Nat, end : Nat]
    BY <1>1, <2>2, <2>3
  <2> QED
    BY <2>1, <2>3, <2>4 DEF Ranges
<1>9. Encloses(x, RangeOf(f, o))
  <2>1. x.block = b /\ RangeOf(f, o).start \in Nat /\ RangeOf(f, o).end \in Nat
    BY <1>6, <1>7 DEF Spans, Ranges
  <2> QED
    BY <1>5, <1>6, <1>7, <2>1 DEF Encloses
<1> HIDE DEF x
<1>10. [reg |-> v, range |-> x] \in SegmentsOf(f, v)
  BY <1>1, <1>8 DEF SegmentsOf
<1> QED
  BY <1>9, <1>10

\* A register that is chosen is free for the bundle.
LEMMA ChoiceIsPossible ==
    ASSUME NEW bn, NEW r \in RegChoices(bn)
    PROVE  IsAllocPossible(bn, r)
BY DEF RegChoices

\* What is tried for a bundle is a physical register.
LEMMA ChoiceIsRegister ==
    ASSUME NEW bn \in Bundle, NEW r \in RegChoices(bn)
    PROVE  r \in PRegs
<1>1. Candidates[bn.class] \in Seq(PRegs)
  BY RegsAssumption DEF Bundle
<1> QED
  BY <1>1 DEF RegChoices, Suggested

\* The top of the queue is in the queue.
LEMMA TopInQueue == Top \subseteq queue
BY DEF Top, Heaviest

\* An allocation gives a physical register to a bundle.
LEMMA AllocType ==
    ASSUME TypeOK, NEW j \in 1..Len(allocs)
    PROVE  allocs[j] \in Alloc /\ allocs[j].reg \in PRegs /\ allocs[j].bundle \in Bundle
<1>1. allocs[j] \in Alloc
  BY DEF TypeOK
<1> QED
  BY <1>1 DEF Alloc

\* What spilling puts into the queue are bundles.
LEMMA SpillBundleType ==
    ASSUME TypeOK, slots < MaxSlots, NEW bn \in Bundle, NEW o \in VOps(func)
    PROVE  SpillBundle(bn.class, o, slots + 1) \in Bundle
<1>1. slots + 1 \in Slots
  BY RegsAssumption DEF TypeOK, Slots
<1>2. [reg |-> o.reg, range |-> RangeOf(func, o)] \in Segment(func)
  BY OperandType DEF Segment
<1>3. o.k \in 0..3
  BY OperandType
<1> QED
  BY <1>1, <1>2, <1>3 DEF SpillBundle, Bundle

-----------------------------------------------------------------------------
(* Type correctness.                                                       *)

\* try_coalesce merges bundles into bundles.
LEMMA CoalesceType ==
    ASSUME TypeOK, Loops, TryCoalesce
    PROVE  /\ Head(outer) \in VRegs /\ Head(inner) \in VRegs
           /\ bundles' \in [VRegs -> SUBSET Segment(func)]
           /\ {order', outer', inner'} \subseteq Seq(VRegs) /\ Loops'
<1>1. outer \in Seq(VRegs) /\ inner \in Seq(VRegs) /\ order \in Seq(VRegs) /\ outer # <<>> /\ inner # <<>> /\ order # <<>>
  BY DEF TypeOK, Loops, TryCoalesce
<1>2. /\ Head(outer) \in VRegs /\ Tail(outer) \in Seq(VRegs)
      /\ Head(inner) \in VRegs /\ Tail(inner) \in Seq(VRegs)
  BY <1>1
<1>3. bundles' \in [VRegs -> SUBSET Segment(func)]
  BY <1>2 DEF TryCoalesce, TypeOK
<1>4. {order', outer', inner'} \subseteq Seq(VRegs)
  BY <1>1, <1>2 DEF TryCoalesce
<1>5. Loops'
  BY <1>1 DEF TryCoalesce, Loops
<1> QED
  BY <1>2, <1>3, <1>4, <1>5

\* A step keeps the types, and the loops of coalesce_bundles in step.
LEMMA TypeStep ==
    ASSUME TypeOK, Loops, [Next]_vars
    PROVE  TypeOK' /\ Loops'
<1>1. CASE TryCoalesce
  <2>1. Bundle' = Bundle /\ Alloc' = Alloc
    BY <1>1 DEF TryCoalesce, Bundle, Alloc
  <2> QED
    BY <1>1, <2>1, CoalesceType DEF TryCoalesce, TypeOK
<1>2. CASE FillQueue
  <2>1. Bundle' = Bundle /\ Alloc' = Alloc
    BY <1>2 DEF FillQueue, Bundle, Alloc
  <2>2. queue' \subseteq Bundle
    <3>1. SUFFICES ASSUME NEW v \in VRegs
                   PROVE  BundleOf(v) \in Bundle
      BY <1>2 DEF FillQueue
    <3>2. bundles[v] \in SUBSET Segment(func)
      BY DEF TypeOK
    <3> QED
      BY <3>2 DEF Bundle, BundleOf
  <2> QED
    BY <1>2, <2>1, <2>2 DEF FillQueue, TypeOK, Loops
<1>3. CASE Assign
  <2>0. PICK bn \in Top : \E r \in RegChoices(bn) :
          allocs' = Append(allocs, [reg |-> r, bundle |-> bn]) /\ queue' = queue \ {bn}
    BY <1>3 DEF Assign
  <2>1. PICK r \in RegChoices(bn) :
          allocs' = Append(allocs, [reg |-> r, bundle |-> bn]) /\ queue' = queue \ {bn}
    BY <2>0
  <2>2. bn \in Bundle /\ r \in PRegs
    BY <2>1, TopInQueue, ChoiceIsRegister DEF TypeOK
  <2>3. [reg |-> r, bundle |-> bn] \in Alloc
    BY <2>2 DEF Alloc
  <2>4. Bundle' = Bundle /\ Alloc' = Alloc
    BY <1>3 DEF Assign, Bundle, Alloc
  <2>5. allocs' \in Seq(Alloc) /\ Len(allocs') = Len(allocs) + 1
    BY <2>1, <2>3 DEF TypeOK
  <2> QED
    BY <1>3, <2>1, <2>4, <2>5 DEF Assign, TypeOK, Loops
<1>4. CASE Evict
  <2>0. PICK bn \in Top : \E j \in Evictable(bn) :
          /\ queue' = (queue \ {bn}) \union {allocs[j].bundle}
          /\ allocs' = [allocs EXCEPT ![j] = [@ EXCEPT !.bundle = bn]]
    BY <1>4 DEF Evict
  <2>1. PICK j \in Evictable(bn) :
          /\ queue' = (queue \ {bn}) \union {allocs[j].bundle}
          /\ allocs' = [allocs EXCEPT ![j] = [@ EXCEPT !.bundle = bn]]
    BY <2>0
  <2>2. bn \in Bundle /\ j \in 1..Len(allocs)
    BY <2>1, TopInQueue DEF TypeOK, Evictable
  <2>3. allocs[j] \in Alloc /\ allocs[j].bundle \in Bundle
    BY <2>2, AllocType
  <2>4. [allocs[j] EXCEPT !.bundle = bn] \in Alloc
    BY <2>2, <2>3 DEF Alloc
  <2>5. allocs' \in Seq(Alloc) /\ Len(allocs') = Len(allocs)
    <3>1. allocs \in Seq(Alloc)
      BY DEF TypeOK
    <3> HIDE DEF Alloc
    <3> QED
      BY <2>1, <2>2, <2>4, <3>1
  <2>6. Bundle' = Bundle /\ Alloc' = Alloc
    BY <1>4 DEF Evict, Bundle, Alloc
  <2> QED
    BY <1>4, <2>1, <2>3, <2>5, <2>6 DEF Evict, TypeOK, Loops
<1>5. CASE Spill
  <2>1. PICK bn \in Top :
          queue' = (queue \ {bn}) \union {SpillBundle(bn.class, o, slots + 1) : o \in Inside(bn)}
    BY <1>5 DEF Spill
  <2>2. bn \in Bundle /\ Inside(bn) \subseteq VOps(func) /\ slots < MaxSlots
    BY <1>5, <2>1, TopInQueue DEF TypeOK, Inside, Spill
  <2>3. \A o \in Inside(bn) : SpillBundle(bn.class, o, slots + 1) \in Bundle
    BY <2>2, SpillBundleType
  <2>4. queue' \subseteq Bundle
    BY <2>1, <2>3 DEF TypeOK
  <2>5. slots' \in 0..MaxSlots
    BY <1>5, RegsAssumption DEF Spill, TypeOK
  <2>6. Bundle' = Bundle /\ Alloc' = Alloc
    BY <1>5 DEF Spill, Bundle, Alloc
  <2> QED
    BY <1>5, <2>4, <2>5, <2>6 DEF Spill, TypeOK, Loops
<1>6. CASE Apply
  <2>1. Bundle' = Bundle /\ Alloc' = Alloc
    BY <1>6 DEF Apply, Bundle, Alloc
  <2> QED
    BY <1>6, <2>1 DEF Apply, TypeOK, Loops
<1>7. CASE RemoveUseless
  <2>1. Bundle' = Bundle /\ Alloc' = Alloc
    BY <1>7 DEF RemoveUseless, Bundle, Alloc
  <2> QED
    BY <1>7, <2>1 DEF RemoveUseless, TypeOK, Loops
<1>8. CASE UNCHANGED vars
  <2>1. Bundle' = Bundle /\ Alloc' = Alloc
    BY <1>8 DEF vars, Bundle, Alloc
  <2> QED
    BY <1>8, <2>1 DEF vars, TypeOK, Loops
<1> QED
  BY <1>1, <1>2, <1>3, <1>4, <1>5, <1>6, <1>7, <1>8 DEF Next

-----------------------------------------------------------------------------
(* No conflicts.                                                           *)

Apart(segs) == \A s, t \in segs : s.reg # t.reg => ~ Intersects(s.range, t.range)

\* Coalescing merges bundles only when they do not meet.
LEMMA ApartStep ==
    ASSUME TypeOK, Loops, BundlesApart, [Next]_vars
    PROVE  BundlesApart'
<1>1. CASE TryCoalesce
  <2> DEFINE a == Head(outer)
             b == Head(inner)
  <2>1. a \in VRegs /\ b \in VRegs
    BY <1>1, CoalesceType
  <2>2. CASE ~ CanCoalesce(a, b)
    BY <1>1, <2>2 DEF TryCoalesce, BundlesApart
  <2>3. CASE CanCoalesce(a, b)
    <3>1. bundles' = [bundles EXCEPT ![a] = @ \union bundles[b], ![b] = {}]
      BY <1>1, <2>3 DEF TryCoalesce
    <3>2. ~ SegsIntersect(bundles[a], bundles[b])
      BY <2>3 DEF CanCoalesce
    <3>3. Apart(bundles[a] \union bundles[b])
      BY <2>1, <3>2, IntersectsSymmetric DEF Apart, SegsIntersect, BundlesApart
    <3>4. \A v \in VRegs : bundles'[v] \subseteq bundles[a] \union bundles[b] \/ bundles'[v] = bundles[v]
      BY <2>1, <3>1 DEF TypeOK
    <3> QED
      BY <3>3, <3>4 DEF Apart, BundlesApart
  <2> QED
    BY <2>2, <2>3
<1>2. CASE FillQueue \/ Assign \/ Evict \/ Spill \/ Apply \/ RemoveUseless \/ UNCHANGED vars
  <2>1. bundles' = bundles
    BY <1>2 DEF FillQueue, Assign, Evict, Spill, Apply, RemoveUseless, vars
  <2> QED
    BY <2>1 DEF BundlesApart
<1> QED
  BY <1>1, <1>2 DEF Next

\* The three parts of NoConflict.
NoneTwice ==
    \A j, m \in 1..Len(allocs) :
        (j # m /\ allocs[j].reg = allocs[m].reg) => Disjoint(allocs[j].bundle.segs, allocs[m].bundle.segs)
NoneReserved == \A j \in 1..Len(allocs) : Free(allocs[j].bundle, allocs[j].reg)
AllApart ==
    /\ \A bn \in queue : Apart(bn.segs)
    /\ \A j \in 1..Len(allocs) : Apart(allocs[j].bundle.segs)

\* NoConflict in three parts: by pairs of allocations, by what is reserved and
\* by bundle.
LEMMA NoConflictParts == NoConflict <=> NoneTwice /\ NoneReserved /\ AllApart
BY DEF NoConflict, NoneTwice, NoneReserved, AllApart, Apart

\* A bundle that can take the place of another one needs less room.
LEMMA EvictionShrinks ==
    ASSUME TypeOK, NEW bn \in Bundle, NEW held \in Bundle, CanEvict(bn, held)
    PROVE  /\ \A other \in Bundle : Disjoint(held.segs, other.segs) => Disjoint(bn.segs, other.segs)
           /\ \A r \in PRegs : Free(held, r) => Free(bn, r)
<1>1. bn.segs \subseteq Segment(func) /\ held.segs \subseteq Segment(func)
  BY DEF Bundle
<1>2. \A s \in bn.segs : \E t \in held.segs : Encloses(t.range, s.range)
  BY DEF CanEvict
<1>3. ASSUME NEW s \in bn.segs, NEW z \in Ranges(func), Intersects(s.range, z)
      PROVE  \E t \in held.segs : Intersects(t.range, z)
  <2>1. PICK t \in held.segs : Encloses(t.range, s.range)
    BY <1>2
  <2>2. t.range \in Ranges(func) /\ s.range \in Ranges(func)
    BY <1>1, SegmentType
  <2> QED
    BY <1>3, <2>1, <2>2, EnclosedMeets
<1>4. ASSUME NEW other \in Bundle, Disjoint(held.segs, other.segs)
      PROVE  Disjoint(bn.segs, other.segs)
  <2>1. \A u \in other.segs : u.range \in Ranges(func)
    BY SegmentType DEF Bundle
  <2> QED
    BY <1>3, <1>4, <2>1 DEF Disjoint, SegsIntersect
<1>5. ASSUME NEW r \in PRegs, Free(held, r)
      PROVE  Free(bn, r)
  <2>1. \A x \in reserved : x.range \in Ranges(func)
    BY DEF TypeOK
  <2> QED
    BY <1>3, <1>5, <2>1 DEF Free
<1> QED
  BY <1>4, <1>5

\* A step keeps the allocations apart.
LEMMA NoConflictStep ==
    ASSUME TypeOK, Loops, BundlesApart, NoConflict, [Next]_vars
    PROVE  NoConflict'
<1>0. NoneTwice /\ NoneReserved /\ AllApart
  BY NoConflictParts
<1>1. CASE FillQueue
  <2>1. \A bn \in queue' : Apart(bn.segs)
    BY <1>1 DEF FillQueue, BundleOf, BundlesApart, Apart
  <2> QED
    BY <1>0, <1>1, <2>1 DEF FillQueue, NoConflict, Free, Disjoint, SegsIntersect, NoneTwice, NoneReserved, AllApart, Apart
<1>2. CASE Assign
  <2>0. PICK bn \in Top : \E r \in RegChoices(bn) :
          allocs' = Append(allocs, [reg |-> r, bundle |-> bn]) /\ queue' = queue \ {bn}
    BY <1>2 DEF Assign
  <2>1. PICK r \in RegChoices(bn) :
          allocs' = Append(allocs, [reg |-> r, bundle |-> bn]) /\ queue' = queue \ {bn}
    BY <2>0
  <2>2. bn \in queue /\ IsAllocPossible(bn, r)
    BY <2>1, TopInQueue, ChoiceIsPossible
  <2>3. /\ Len(allocs') = Len(allocs) + 1 /\ Len(allocs) \in Nat
        /\ \A j \in 1..Len(allocs) : allocs'[j] = allocs[j]
        /\ allocs'[Len(allocs')] = [reg |-> r, bundle |-> bn]
    BY <2>1 DEF TypeOK
  <2>4. NoneTwice'
    <3>1. SUFFICES ASSUME NEW j \in 1..Len(allocs'), NEW m \in 1..Len(allocs'),
                          j # m, allocs'[j].reg = allocs'[m].reg
                   PROVE  Disjoint(allocs'[j].bundle.segs, allocs'[m].bundle.segs)
      BY DEF NoneTwice, Disjoint, SegsIntersect
    <3>2. CASE j \in 1..Len(allocs) /\ m \in 1..Len(allocs)
      BY <1>0, <2>3, <3>1, <3>2 DEF NoneTwice
    <3>3. CASE j \in 1..Len(allocs) /\ m = Len(allocs')
      BY <2>2, <2>3, <3>1, <3>3 DEF IsAllocPossible, Disjoint
    <3>4. CASE j = Len(allocs') /\ m \in 1..Len(allocs)
      <4>1. Disjoint(allocs'[m].bundle.segs, allocs'[j].bundle.segs)
        BY <2>2, <2>3, <3>1, <3>4 DEF IsAllocPossible, Disjoint
      <4> QED
        BY <4>1, DisjointSymmetric
    <3> QED
      BY <2>3, <3>1, <3>2, <3>3, <3>4
  <2>5. NoneReserved'
    <3>1. reserved' = reserved
      BY <1>2 DEF Assign
    <3>2. Free(bn, r)
      BY <2>2 DEF IsAllocPossible
    <3> QED
      BY <1>0, <2>3, <3>1, <3>2 DEF NoneReserved, Free
  <2>6. AllApart'
    BY <1>0, <2>1, <2>2, <2>3 DEF AllApart, Apart
  <2> QED
    BY <2>4, <2>5, <2>6 DEF NoConflict, NoneTwice, NoneReserved, AllApart, Apart
<1>3. CASE Evict
  <2>0. PICK bn \in Top : \E j \in Evictable(bn) :
          /\ queue' = (queue \ {bn}) \union {allocs[j].bundle}
          /\ allocs' = [allocs EXCEPT ![j] = [@ EXCEPT !.bundle = bn]]
    BY <1>3 DEF Evict
  <2>1. PICK e \in Evictable(bn) :
          /\ queue' = (queue \ {bn}) \union {allocs[e].bundle}
          /\ allocs' = [allocs EXCEPT ![e] = [@ EXCEPT !.bundle = bn]]
    BY <2>0
  <2>2. /\ bn \in queue /\ bn \in Bundle /\ e \in 1..Len(allocs)
        /\ CanEvict(bn, allocs[e].bundle)
    BY <2>1, TopInQueue DEF TypeOK, Evictable
  <2>3. allocs[e] \in Alloc /\ allocs[e].reg \in PRegs /\ allocs[e].bundle \in Bundle
    BY <2>2, AllocType
  <2>4. /\ Len(allocs') = Len(allocs)
        /\ \A j \in 1..Len(allocs) : j # e => allocs'[j] = allocs[j]
        /\ allocs'[e].reg = allocs[e].reg /\ allocs'[e].bundle = bn
    <3>1. allocs \in Seq(Alloc)
      BY DEF TypeOK
    <3>2. allocs'[e] = [allocs[e] EXCEPT !.bundle = bn]
      BY <2>1, <2>2, <3>1
    <3>3. allocs'[e].reg = allocs[e].reg /\ allocs'[e].bundle = bn
      BY <2>3, <3>2 DEF Alloc
    <3> QED
      BY <2>1, <2>2, <3>1, <3>3
  <2>5. /\ \A other \in Bundle : Disjoint(allocs[e].bundle.segs, other.segs) => Disjoint(bn.segs, other.segs)
        /\ Free(allocs[e].bundle, allocs[e].reg) => Free(bn, allocs[e].reg)
    BY <2>2, <2>3, EvictionShrinks
  <2>6. NoneTwice'
    <3>1. SUFFICES ASSUME NEW j \in 1..Len(allocs), NEW m \in 1..Len(allocs),
                          j # m, allocs'[j].reg = allocs'[m].reg
                   PROVE  Disjoint(allocs'[j].bundle.segs, allocs'[m].bundle.segs)
      BY <2>4 DEF NoneTwice, Disjoint, SegsIntersect
    <3>2. CASE j # e /\ m # e
      BY <1>0, <2>4, <3>1, <3>2 DEF NoneTwice
    <3>3. CASE j = e
      <4>1. allocs'[m] = allocs[m] /\ allocs[m].bundle \in Bundle
        BY <2>4, <3>1, <3>3, AllocType
      <4>2. Disjoint(allocs[e].bundle.segs, allocs[m].bundle.segs)
        BY <1>0, <2>2, <2>4, <3>1, <3>3, <4>1 DEF NoneTwice
      <4> QED
        BY <2>4, <2>5, <3>3, <4>1, <4>2
    <3>4. CASE m = e
      <4>1. allocs'[j] = allocs[j] /\ allocs[j].bundle \in Bundle
        BY <2>4, <3>1, <3>4, AllocType
      <4>2. Disjoint(allocs[e].bundle.segs, allocs[j].bundle.segs)
        BY <1>0, <2>2, <2>4, <3>1, <3>4, <4>1 DEF NoneTwice
      <4>3. Disjoint(bn.segs, allocs[j].bundle.segs)
        BY <2>5, <4>1, <4>2
      <4> QED
        BY <2>4, <3>4, <4>1, <4>3, DisjointSymmetric
    <3> QED
      BY <3>2, <3>3, <3>4
  <2>7. NoneReserved'
    <3>1. reserved' = reserved
      BY <1>3 DEF Evict
    <3>2. Free(bn, allocs[e].reg)
      BY <1>0, <2>2, <2>5 DEF NoneReserved
    <3> QED
      BY <1>0, <2>2, <2>4, <3>1, <3>2 DEF NoneReserved, Free
  <2>8. AllApart'
    BY <1>0, <2>1, <2>2, <2>4 DEF AllApart, Apart
  <2> QED
    BY <2>6, <2>7, <2>8 DEF NoConflict, NoneTwice, NoneReserved, AllApart, Apart
<1>4. CASE Spill
  <2>1. PICK bn \in Top :
          queue' = (queue \ {bn}) \union {SpillBundle(bn.class, o, slots + 1) : o \in Inside(bn)}
    BY <1>4 DEF Spill
  <2>2. \A o \in Inside(bn) : Apart(SpillBundle(bn.class, o, slots + 1).segs)
    BY DEF SpillBundle, Apart
  <2>3. AllApart'
    BY <1>0, <1>4, <2>1, <2>2 DEF Spill, AllApart, Apart
  <2> QED
    BY <1>0, <1>4, <2>3 DEF Spill, NoConflict, NoneTwice, NoneReserved, AllApart, Apart, Free, Disjoint, SegsIntersect
<1>5. CASE TryCoalesce \/ Apply \/ RemoveUseless \/ UNCHANGED vars
  <2>1. allocs' = allocs /\ queue' = queue /\ reserved' = reserved
    BY <1>5 DEF TryCoalesce, Apply, RemoveUseless, vars
  <2> QED
    BY <2>1 DEF NoConflict, Free, Disjoint, SegsIntersect
<1> QED
  BY <1>1, <1>2, <1>3, <1>4, <1>5 DEF Next

-----------------------------------------------------------------------------
(* No operand is lost.                                                     *)

\* segs has a segment around operand o.
Holds(segs, o) == \E s \in segs : s.reg = o.reg /\ Encloses(s.range, RangeOf(func, o))

\* Where the segment of an operand is found in each phase.
LEMMA ServedMeans ==
    Served <=> \A o \in VOps(func) :
                  \/ phase = "coalesce" /\ \E v \in VRegs : Holds(bundles[v], o)
                  \/ phase # "coalesce" /\ \E bn \in queue : Holds(bn.segs, o)
                  \/ \E j \in 1..Len(allocs) : Holds(allocs[j].bundle.segs, o)
BY DEF Served, Waiting, Placed, Holds

\* Spilling a bundle makes a bundle for every operand that it held.
LEMMA SpillKeeps ==
    ASSUME TypeOK, NEW bn \in Bundle, NEW o \in VOps(func), Holds(bn.segs, o), NEW slot
    PROVE  o \in Inside(bn) /\ Holds(SpillBundle(bn.class, o, slot).segs, o)
<1>1. PICK s \in bn.segs : s.reg = o.reg /\ Encloses(s.range, RangeOf(func, o))
  BY DEF Holds
<1>2. s.range \in Ranges(func)
  BY <1>1, SegmentType DEF Bundle
<1>3. s.range.block = o.block /\ Touches(s.range, o.instr)
  BY <1>1, <1>2, OperandType DEF Encloses, Touches, Ranges, UsePoint, DefPoint
<1>4. o \in Inside(bn)
  BY <1>1, <1>3 DEF Inside
<1>5. [reg |-> o.reg, range |-> RangeOf(func, o)] \in SpillBundle(bn.class, o, slot).segs
  BY DEF SpillBundle
<1> QED
  BY <1>4, <1>5, OperandType DEF Holds

\* A step loses no operand.
LEMMA ServedStep ==
    ASSUME TypeOK, Loops, Served, [Next]_vars
    PROVE  Served'
<1>0. func' = func
  BY DEF Next, TryCoalesce, FillQueue, Assign, Evict, Spill, Apply, RemoveUseless, vars
<1>1. CASE TryCoalesce
  <2> DEFINE a == Head(outer)
             b == Head(inner)
  <2>1. a \in VRegs /\ b \in VRegs
    BY <1>1, CoalesceType
  <2>2. CASE ~ CanCoalesce(a, b)
    <3>1. phase' = phase /\ queue' = queue /\ allocs' = allocs /\ bundles' = bundles
      BY <1>1, <2>2 DEF TryCoalesce
    <3> QED
      BY <1>0, <3>1, ZenonT(60) DEF Served, Waiting, Placed
  <2>3. CASE CanCoalesce(a, b)
    <3>1. bundles' = [bundles EXCEPT ![a] = @ \union bundles[b], ![b] = {}]
      BY <1>1, <2>3 DEF TryCoalesce
    <3>2. a # b
      <4>1. SUFFICES ASSUME a = b PROVE FALSE
        OBVIOUS
      <4>2. PICK t \in bundles[b] : bundles[b] = {t} /\ \E s \in bundles[a] : IsConnectingMove(s, t) \/ IsConnectingMove(t, s)
        BY <2>3 DEF CanCoalesce
      <4>3. IsConnectingMove(t, t)
        BY <4>1, <4>2
      <4>4. t.range.start \in Nat /\ t.range.end \in Nat /\ t.range.start <= t.range.end
        BY <2>1, <4>2, SegmentType DEF TypeOK
      <4> QED
        BY <4>3, <4>4 DEF IsConnectingMove, UsePoint, DefPoint, Instrs
    <3>3. \A v \in VRegs : \E w \in VRegs : bundles[v] \subseteq bundles'[w]
      BY <2>1, <3>1, <3>2 DEF TypeOK
    <3>4. phase = "coalesce" /\ phase' = phase /\ queue' = queue /\ allocs' = allocs
      BY <1>1 DEF TryCoalesce
    <3> QED
      BY <1>0, <3>3, <3>4 DEF Served, Waiting, Placed
  <2> QED
    BY <2>2, <2>3
<1>2. CASE FillQueue
  <2>1. phase = "coalesce" /\ phase' = "alloc" /\ allocs' = allocs
    BY <1>2 DEF FillQueue
  <2>2. \A v \in VRegs : bundles[v] # {} => \E bn \in queue' : bn.segs = bundles[v]
    <3>1. \A v \in VRegs : BundleOf(v).segs = bundles[v]
      BY DEF BundleOf
    <3>2. \A v \in VRegs : bundles[v] # {} => BundleOf(v) \in queue'
      BY <1>2 DEF FillQueue
    <3> QED
      BY <3>1, <3>2
  <2>3. \A x \in Waiting : x # {} => x \in Waiting'
    <3>1. Waiting = {bundles[v] : v \in VRegs} /\ Waiting' = {bn.segs : bn \in queue'}
      BY <2>1 DEF Waiting
    <3> QED
      BY <2>2, <3>1
  <2>4. Placed' = Placed
    BY <2>1 DEF Placed
  <2> QED
    BY <1>0, <2>3, <2>4 DEF Served
<1>3. CASE Assign
  <2>0. PICK bn \in Top : \E r \in RegChoices(bn) :
          allocs' = Append(allocs, [reg |-> r, bundle |-> bn]) /\ queue' = queue \ {bn}
    BY <1>3 DEF Assign
  <2>1. PICK r \in RegChoices(bn) :
          allocs' = Append(allocs, [reg |-> r, bundle |-> bn]) /\ queue' = queue \ {bn}
    BY <2>0
  <2>2. phase = "alloc" /\ phase' = phase
    BY <1>3 DEF Assign
  <2>3. /\ Len(allocs') = Len(allocs) + 1 /\ Len(allocs) \in Nat
        /\ \A j \in 1..Len(allocs) : allocs'[j] = allocs[j]
        /\ allocs'[Len(allocs')] = [reg |-> r, bundle |-> bn]
    BY <2>1 DEF TypeOK
  <2>4. /\ Placed \subseteq Placed' /\ bn.segs \in Placed'
    BY <2>3 DEF Placed
  <2>5. \A x \in Waiting : x \in Waiting' \/ x = bn.segs
    BY <2>1, <2>2 DEF Waiting
  <2> QED
    BY <1>0, <2>4, <2>5 DEF Served
<1>4. CASE Evict
  <2>0. PICK bn \in Top : \E j \in Evictable(bn) :
          /\ queue' = (queue \ {bn}) \union {allocs[j].bundle}
          /\ allocs' = [allocs EXCEPT ![j] = [@ EXCEPT !.bundle = bn]]
    BY <1>4 DEF Evict
  <2>1. PICK e \in Evictable(bn) :
          /\ queue' = (queue \ {bn}) \union {allocs[e].bundle}
          /\ allocs' = [allocs EXCEPT ![e] = [@ EXCEPT !.bundle = bn]]
    BY <2>0
  <2>2. phase = "alloc" /\ phase' = phase /\ e \in 1..Len(allocs) /\ bn \in queue
    BY <1>4, <2>1, TopInQueue DEF Evict, Evictable
  <2>3. allocs[e] \in Alloc
    BY <2>2, AllocType
  <2>4. /\ Len(allocs') = Len(allocs)
        /\ \A j \in 1..Len(allocs) : j # e => allocs'[j] = allocs[j]
        /\ allocs'[e].bundle = bn
    <3>1. allocs \in Seq(Alloc)
      BY DEF TypeOK
    <3>2. allocs'[e] = [allocs[e] EXCEPT !.bundle = bn]
      BY <2>1, <2>2, <3>1
    <3>3. allocs'[e].bundle = bn
      BY <2>3, <3>2 DEF Alloc
    <3> QED
      BY <2>1, <2>2, <3>1, <3>3
  <2>5. \A x \in Placed : x \in Placed' \/ x = allocs[e].bundle.segs
    BY <2>2, <2>4 DEF Placed
  <2>6. bn.segs \in Placed' /\ allocs[e].bundle.segs \in Waiting'
    BY <2>1, <2>2, <2>4 DEF Placed, Waiting
  <2>7. \A x \in Waiting : x \in Waiting' \/ x = bn.segs
    BY <2>1, <2>2 DEF Waiting
  <2> QED
    BY <1>0, <2>5, <2>6, <2>7 DEF Served
<1>5. CASE Spill
  <2>1. PICK bn \in Top :
          queue' = (queue \ {bn}) \union {SpillBundle(bn.class, o, slots + 1) : o \in Inside(bn)}
    BY <1>5 DEF Spill
  <2>2. bn \in Bundle /\ phase = "alloc" /\ phase' = phase /\ allocs' = allocs
    BY <1>5, <2>1, TopInQueue DEF TypeOK, Spill
  <2>3. SUFFICES ASSUME NEW o \in VOps(func)
                 PROVE  (\E x \in queue' : Holds(x.segs, o)) \/ \E j \in 1..Len(allocs) : Holds(allocs[j].bundle.segs, o)
    BY <1>0, <2>2 DEF Served, Waiting, Placed, Holds
  <2>4. CASE Holds(bn.segs, o)
    BY <2>1, <2>2, <2>4, SpillKeeps
  <2>5. CASE ~ Holds(bn.segs, o)
    <3>1. (\E x \in queue : Holds(x.segs, o)) \/ \E j \in 1..Len(allocs) : Holds(allocs[j].bundle.segs, o)
      BY <2>2, ServedMeans
    <3> QED
      BY <2>1, <2>5, <3>1
  <2> QED
    BY <2>4, <2>5
<1>6. CASE Apply \/ RemoveUseless \/ UNCHANGED vars
  <2>1. /\ allocs' = allocs /\ queue' = queue /\ bundles' = bundles
        /\ phase = "coalesce" <=> phase' = "coalesce"
    BY <1>6 DEF Apply, RemoveUseless, vars
  <2> QED
    BY <1>0, <2>1, ZenonT(60) DEF Served, Waiting, Placed
<1> QED
  BY <1>1, <1>2, <1>3, <1>4, <1>5, <1>6 DEF Next

-----------------------------------------------------------------------------
\* The invariant holds at the start.
LEMMA Initially == Init => IInv
<1> SUFFICES ASSUME Init PROVE IInv
  OBVIOUS
<1>1. order \in Seq(VRegs)
  <2>1. Cardinality(VRegs) \in Nat
    BY RegsAssumption, FS_CardinalityType
  <2>2. order \in [1..Cardinality(VRegs) -> VRegs]
    BY DEF Init, SetToSeqs
  <2> QED
    BY <2>1, <2>2
<1>2. \A v \in VRegs : SegmentsOf(func, v) \subseteq Segment(func)
  BY DEF SegmentsOf, Segment
<1>3. reserved \subseteq [reg : PRegs, range : Ranges(func)]
  BY DEF Init, Reserved
<1>4. TypeOK /\ Loops
  <2>1. MaxSlots \in Nat
    BY RegsAssumption
  <2>2. DOMAIN code = Blocks(func)
    BY DEF Init, Original
  <2> QED
    BY <1>1, <1>2, <1>3, <2>1, <2>2 DEF Init, TypeOK, Loops
<1>5. BundlesApart
  <2>1. \A v \in VRegs : \A s \in SegmentsOf(func, v) : s.reg = v
    BY DEF SegmentsOf
  <2> QED
    BY <2>1 DEF Init, BundlesApart
<1>6. NoConflict
  BY DEF Init, NoConflict
<1>7. Served
  <2>1. func \in Funcs /\ bundles = [v \in VRegs |-> SegmentsOf(func, v)] /\ phase = "coalesce"
    BY DEF Init
  <2>2. SUFFICES ASSUME NEW o \in VOps(func)
                 PROVE  \E v \in VRegs : Holds(bundles[v], o)
    BY <2>1, ServedMeans
  <2>3. PICK s \in SegmentsOf(func, o.reg) : Encloses(s.range, RangeOf(func, o))
    BY <2>1, OperandHasSegment
  <2>4. s.reg = o.reg /\ o.reg \in VRegs
    BY <2>3, OperandType DEF SegmentsOf
  <2> QED
    BY <2>1, <2>3, <2>4 DEF Holds
<1> QED
  BY <1>4, <1>5, <1>6, <1>7 DEF IInv

\* The inductive invariant holds in every state of the pass.
THEOREM Invariance == Spec => []IInv
<1>1. IInv /\ [Next]_vars => IInv'
  BY TypeStep, ApartStep, NoConflictStep, ServedStep DEF IInv
<1> QED
  BY Initially, <1>1, PTL DEF Spec

\* The bundles, the queue and the allocations keep their type
\* (RegAllocPass::run).
THEOREM TypeCorrect == Spec => []TypeOK
BY Invariance, PTL DEF IInv

\* For every function and every order of the queue, no physical register is
\* ever given to two bundles at the same point, or where it is reserved
\* (is_alloc_possible, can_evict).
THEOREM NeverConflicts == Spec => []NoConflict
BY Invariance, PTL DEF IInv

\* No operand is ever without a bundle that waits or is placed
\* (alloc_bundle).
THEOREM AlwaysServed == Spec => []Served
BY Invariance, PTL DEF IInv

-----------------------------------------------------------------------------
(* Where values are kept.                                                  *)

\* The stack slot of a bundle that was made by spilling.
SlotOf(bn) == IF bn.src # NoSlot THEN bn.src ELSE bn.dst

\* A bundle that was never spilled has all segments of its registers, and
\* one that was made by spilling has the points of one operand.
Whole(f, bn) ==
    /\ bn.src = NoSlot /\ bn.dst = NoSlot /\ bn.evictable = TRUE
    /\ \A s \in bn.segs : SegmentsOf(f, s.reg) \subseteq bn.segs /\ ClassOf[s.reg] = bn.class
PartOf(f, o, slot) ==
    [segs |-> {[reg |-> o.reg, range |-> RangeOf(f, o)]}, class |-> ClassOf[o.reg], evictable |-> FALSE,
     src |-> IF UsageOf(f, o) = "DEF" THEN NoSlot ELSE slot,
     dst |-> IF UsageOf(f, o) = "USE" THEN NoSlot ELSE slot, op |-> o.k]
IsPart(f, bn) == \E o \in VOps(f), slot \in Slots : bn = PartOf(f, o, slot)

\* A register has one place: one bundle, or one slot.
Consistent(x, y) ==
    \A s \in x.segs, t \in y.segs : s.reg = t.reg =>
        SlotOf(x) = SlotOf(y) /\ (SlotOf(x) = NoSlot => x = y)

\* Registers that share a slot never hold a value at the same point.
SlotApart(f, x, y) ==
    (SlotOf(x) = SlotOf(y) /\ SlotOf(x) # NoSlot) =>
        \A s \in x.segs, t \in y.segs : s.reg # t.reg => Disjoint(SegmentsOf(f, s.reg), SegmentsOf(f, t.reg))

BundlesOK(f, B, n) ==
    /\ \A x \in B : (Whole(f, x) \/ IsPart(f, x)) /\ SlotOf(x) \in 0..n
    /\ \A x, y \in B : Consistent(x, y) /\ SlotApart(f, x, y)

AllBundles == queue \union {allocs[j].bundle : j \in 1..Len(allocs)}

NoneTwin ==
    /\ \A j, m \in 1..Len(allocs) : j # m => allocs[j].bundle # allocs[m].bundle
    /\ \A j \in 1..Len(allocs) : allocs[j].bundle \notin queue

\* While bundles are coalesced, each has all segments of its registers.
Closed ==
    \A v \in VRegs :
        /\ \A s \in bundles[v] : SegmentsOf(func, s.reg) \subseteq bundles[v] /\ ClassOf[s.reg] = ClassOf[v]
        /\ \A w \in VRegs : v # w => \A s \in bundles[v], t \in bundles[w] : s.reg # t.reg

PlacesOK ==
    /\ reserved = Reserved(func)
    /\ phase = "coalesce" => queue = {} /\ allocs = <<>> /\ Closed
    /\ phase # "coalesce" => BundlesOK(func, AllBundles, slots) /\ NoneTwin
    /\ phase \in {"apply", "done"} => queue = {}

\* A part of the bundles is as good as all of them, with more slots too.
LEMMA FewerBundles ==
    ASSUME NEW f, NEW B, NEW C \in SUBSET B, NEW n \in Nat, NEW m \in Nat, n <= m, BundlesOK(f, B, n)
    PROVE  BundlesOK(f, C, m)
BY DEF BundlesOK

\* The bundle that spilling makes for one operand.
LEMMA PartIs ==
    ASSUME NEW f, NEW o \in VOps(f), NEW slot \in Slots
    PROVE  /\ SlotOf(PartOf(f, o, slot)) = slot /\ slot # NoSlot
           /\ PartOf(f, o, slot).segs = {[reg |-> o.reg, range |-> RangeOf(f, o)]}
           /\ PartOf(f, o, slot).evictable = FALSE
<1>1. slot # NoSlot
  BY RegsAssumption DEF Slots, NoSlot
<1> QED
  BY <1>1 DEF PartOf, SlotOf

\* The bundles P of the operands O are made of bundle bn.
Spilled(f, B, n, bn, O, P) ==
    /\ n \in Nat /\ n + 1 \in Slots /\ BundlesOK(f, B, n)
    /\ bn \in B /\ bn.evictable = TRUE /\ Apart(bn.segs)
    /\ O \subseteq VOps(f) /\ \A o \in O : \E s \in bn.segs : s.reg = o.reg
    /\ \A x \in P : \E o \in O : x = PartOf(f, o, n + 1)

\* Spilling a bundle gives its registers a slot that no other bundle has.
LEMMA SpillPlaces ==
    ASSUME NEW f, NEW B, NEW n, NEW bn, NEW O, NEW P, Spilled(f, B, n, bn, O, P)
    PROVE  BundlesOK(f, (B \ {bn}) \union P, n + 1) /\ P \intersect B = {}
<1> USE DEF Spilled, Apart
<1>1. Whole(f, bn) /\ SlotOf(bn) = NoSlot
  <2>1. \A o \in VOps(f), slot \in Slots : bn # PartOf(f, o, slot)
    <3>1. SUFFICES ASSUME NEW o \in VOps(f), NEW slot \in Slots, bn = PartOf(f, o, slot) PROVE FALSE
      OBVIOUS
    <3>2. PartOf(f, o, slot).evictable = FALSE
      BY PartIs
    <3> QED
      BY <3>1, <3>2
  <2>2. Whole(f, bn)
    BY <2>1 DEF BundlesOK, IsPart
  <2> QED
    BY <2>2 DEF Whole, SlotOf
<1>2. \A x \in P : \E o \in O : /\ x = PartOf(f, o, n + 1) /\ SlotOf(x) = n + 1
                                /\ x.segs = {[reg |-> o.reg, range |-> RangeOf(f, o)]}
  <2>1. \A o \in O : /\ SlotOf(PartOf(f, o, n + 1)) = n + 1
                     /\ PartOf(f, o, n + 1).segs = {[reg |-> o.reg, range |-> RangeOf(f, o)]}
    BY PartIs
  <2> QED
    BY <2>1
<1>3. \A x \in P : \A s \in x.segs : \E t \in bn.segs : t.reg = s.reg
  BY <1>2
<1>4. \A x \in P : IsPart(f, x)
  BY DEF IsPart
<1>5. n + 1 # NoSlot /\ \A y \in B : SlotOf(y) # n + 1
  BY DEF BundlesOK, NoSlot
<1>6. ASSUME NEW x \in P, NEW y \in P PROVE Consistent(x, y)
  BY <1>2, <1>5 DEF Consistent
<1>7. ASSUME NEW x \in P, NEW y \in P PROVE SlotApart(f, x, y)
  <2>1. SUFFICES ASSUME NEW s \in x.segs, NEW t \in y.segs, s.reg # t.reg
                 PROVE  Disjoint(SegmentsOf(f, s.reg), SegmentsOf(f, t.reg))
    BY DEF SlotApart
  <2>2. PICK u \in bn.segs : u.reg = s.reg
    BY <1>3
  <2>3. PICK w \in bn.segs : w.reg = t.reg
    BY <1>3
  <2>4. SegmentsOf(f, s.reg) \subseteq bn.segs /\ SegmentsOf(f, t.reg) \subseteq bn.segs
    BY <1>1, <2>2, <2>3 DEF Whole
  <2>5. (\A p \in SegmentsOf(f, s.reg) : p.reg = s.reg) /\ \A p \in SegmentsOf(f, t.reg) : p.reg = t.reg
    BY DEF SegmentsOf
  <2> QED
    BY <2>1, <2>4, <2>5 DEF Disjoint, SegsIntersect
<1>8. ASSUME NEW x \in P, NEW y \in B \ {bn}
      PROVE  Consistent(x, y) /\ Consistent(y, x) /\ SlotApart(f, x, y) /\ SlotApart(f, y, x)
  <2>1. SlotOf(x) # SlotOf(y)
    BY <1>2, <1>5
  <2>2. \A s \in x.segs, t \in y.segs : s.reg # t.reg
    <3>1. SUFFICES ASSUME NEW s \in x.segs, NEW t \in y.segs, s.reg = t.reg PROVE FALSE
      OBVIOUS
    <3>2. PICK u \in bn.segs : u.reg = s.reg
      BY <1>3
    <3>3. bn = y
      BY <1>1, <3>1, <3>2 DEF BundlesOK, Consistent
    <3> QED
      BY <3>3
  <2> QED
    BY <2>1, <2>2 DEF Consistent, SlotApart
<1>9. ASSUME NEW x \in B, NEW y \in B PROVE Consistent(x, y) /\ SlotApart(f, x, y)
  BY DEF BundlesOK
<1>10. \A x \in (B \ {bn}) \union P : (Whole(f, x) \/ IsPart(f, x)) /\ SlotOf(x) \in 0..(n + 1)
  BY <1>2, <1>4 DEF BundlesOK
<1>11. P \intersect B = {}
  BY <1>2, <1>5
<1>12. \A x, y \in (B \ {bn}) \union P : Consistent(x, y) /\ SlotApart(f, x, y)
  BY <1>6, <1>7, <1>8, <1>9
<1> QED
  BY <1>10, <1>11, <1>12 DEF BundlesOK

\* PlacesOK holds at the start.
LEMMA PlacesInit == Init => PlacesOK
<1> SUFFICES ASSUME Init PROVE PlacesOK
  OBVIOUS
<1>1. \A v \in VRegs : \A s \in SegmentsOf(func, v) : s.reg = v
  BY DEF SegmentsOf
<1>2. Closed
  <2>1. \A v \in VRegs : bundles[v] = SegmentsOf(func, v)
    BY DEF Init
  <2> QED
    BY <1>1, <2>1 DEF Closed
<1> QED
  BY <1>2 DEF Init, PlacesOK

\* A merge moves every segment of a register.
LEMMA ClosedStep ==
    ASSUME TypeOK, Loops, Closed, TryCoalesce
    PROVE  Closed'
<1> DEFINE a == Head(outer)
           b == Head(inner)
<1>1. a \in VRegs /\ b \in VRegs /\ func' = func
  BY CoalesceType DEF TryCoalesce
<1>2. CASE ~ CanCoalesce(a, b)
  <2>1. bundles' = bundles
    BY <1>2 DEF TryCoalesce
  <2> QED
    BY <1>1, <2>1 DEF Closed
<1>3. CASE CanCoalesce(a, b)
  <2>1. bundles' = [bundles EXCEPT ![a] = @ \union bundles[b], ![b] = {}]
    BY <1>3 DEF TryCoalesce
  <2>2. ClassOf[a] = ClassOf[b]
    BY <1>3 DEF CanCoalesce
  <2> HIDE DEF a, b
  <2>3. bundles'[b] = {} /\ (a # b => bundles'[a] = bundles[a] \union bundles[b])
        /\ \A v \in VRegs : v # a /\ v # b => bundles'[v] = bundles[v]
    BY <1>1, <2>1 DEF TypeOK
  <2>4. ASSUME NEW v \in VRegs, NEW s \in bundles'[v]
        PROVE  SegmentsOf(func, s.reg) \subseteq bundles'[v] /\ ClassOf[s.reg] = ClassOf[v]
    BY <1>1, <2>2, <2>3, <2>4 DEF Closed
  <2>5. ASSUME NEW v \in VRegs, NEW w \in VRegs, v # w, NEW s \in bundles'[v], NEW t \in bundles'[w]
        PROVE  s.reg # t.reg
    BY <1>1, <2>3, <2>5 DEF Closed
  <2> QED
    BY <1>1, <2>4, <2>5 DEF Closed
<1> QED
  BY <1>2, <1>3

\* A step keeps PlacesOK.
LEMMA PlacesStep ==
    ASSUME IInv, PlacesOK, EnoughRegisters, [Next]_vars
    PROVE  PlacesOK'
<1> USE DEF IInv
<1>0. func' = func /\ reserved' = reserved
  BY DEF Next, TryCoalesce, FillQueue, Assign, Evict, Spill, Apply, RemoveUseless, vars
<1>1. CASE TryCoalesce
  BY <1>0, <1>1, ClosedStep DEF TryCoalesce, PlacesOK
<1>2. CASE FillQueue
  <2>1. phase = "coalesce" /\ phase' = "alloc" /\ allocs = <<>> /\ allocs' = <<>> /\ Closed /\ slots' = slots
    BY <1>2 DEF FillQueue, PlacesOK
  <2>2. queue' = {BundleOf(v) : v \in {w \in VRegs : bundles[w] # {}}}
    BY <1>2 DEF FillQueue
  <2>3. AllBundles' = queue'
    BY <2>1 DEF AllBundles
  <2>4. \A x \in queue' : \E v \in VRegs : x = BundleOf(v) /\ x.segs = bundles[v] /\ SlotOf(x) = NoSlot /\ Whole(func, x)
    BY <2>1, <2>2 DEF BundleOf, SlotOf, Whole, Closed
  <2>5. \A x, y \in queue' : Consistent(x, y) /\ SlotApart(func, x, y)
    <3>1. SUFFICES ASSUME NEW x \in queue', NEW y \in queue' PROVE Consistent(x, y) /\ SlotApart(func, x, y)
      OBVIOUS
    <3>2. PICK v \in VRegs : x = BundleOf(v) /\ x.segs = bundles[v] /\ SlotOf(x) = NoSlot
      BY <2>4
    <3>3. PICK w \in VRegs : y = BundleOf(w) /\ y.segs = bundles[w] /\ SlotOf(y) = NoSlot
      BY <2>4
    <3> QED
      BY <2>1, <3>2, <3>3 DEF Closed, Consistent, SlotApart
  <2>6. slots' \in Nat
    BY <2>1 DEF TypeOK
  <2>7. BundlesOK(func, queue', slots')
    BY <2>4, <2>5, <2>6 DEF BundlesOK, NoSlot
  <2>8. NoneTwin'
    BY <2>1 DEF NoneTwin
  <2> QED
    BY <1>0, <2>1, <2>3, <2>7, <2>8 DEF PlacesOK
<1>3. CASE Assign
  <2>0. PICK bn \in Top : \E r \in RegChoices(bn) :
          allocs' = Append(allocs, [reg |-> r, bundle |-> bn]) /\ queue' = queue \ {bn}
    BY <1>3 DEF Assign
  <2>1. PICK r \in RegChoices(bn) :
          allocs' = Append(allocs, [reg |-> r, bundle |-> bn]) /\ queue' = queue \ {bn}
    BY <2>0
  <2>2. phase = "alloc" /\ phase' = phase /\ slots' = slots /\ slots \in Nat /\ bn \in queue
    BY <1>3, TopInQueue DEF Assign, TypeOK
  <2>3. /\ Len(allocs') = Len(allocs) + 1 /\ Len(allocs) \in Nat
        /\ \A j \in 1..Len(allocs) : allocs'[j] = allocs[j]
        /\ allocs'[Len(allocs')] = [reg |-> r, bundle |-> bn]
    BY <2>1 DEF TypeOK
  <2>4. AllBundles' \subseteq AllBundles
    BY <2>1, <2>2, <2>3 DEF AllBundles
  <2>5. BundlesOK(func, AllBundles, slots) /\ NoneTwin
    BY <2>2 DEF PlacesOK
  <2>6. BundlesOK(func, AllBundles', slots')
    BY <2>2, <2>4, <2>5, FewerBundles
  <2>7. NoneTwin'
    BY <2>1, <2>2, <2>3, <2>5 DEF NoneTwin
  <2> QED
    BY <1>0, <2>2, <2>6, <2>7 DEF PlacesOK
<1>4. CASE Evict
  <2>0. PICK bn \in Top : \E j \in Evictable(bn) :
          /\ queue' = (queue \ {bn}) \union {allocs[j].bundle}
          /\ allocs' = [allocs EXCEPT ![j] = [@ EXCEPT !.bundle = bn]]
    BY <1>4 DEF Evict
  <2>1. PICK e \in Evictable(bn) :
          /\ queue' = (queue \ {bn}) \union {allocs[e].bundle}
          /\ allocs' = [allocs EXCEPT ![e] = [@ EXCEPT !.bundle = bn]]
    BY <2>0
  <2>2. /\ phase = "alloc" /\ phase' = phase /\ slots' = slots /\ slots \in Nat
        /\ e \in 1..Len(allocs) /\ bn \in queue
    BY <1>4, <2>1, TopInQueue DEF Evict, Evictable, TypeOK
  <2>3. allocs[e] \in Alloc
    BY <2>2, AllocType
  <2>4. /\ Len(allocs') = Len(allocs)
        /\ \A j \in 1..Len(allocs) : j # e => allocs'[j] = allocs[j]
        /\ allocs'[e].bundle = bn
    <3>1. allocs \in Seq(Alloc)
      BY DEF TypeOK
    <3>2. allocs'[e] = [allocs[e] EXCEPT !.bundle = bn]
      BY <2>1, <2>2, <3>1
    <3>3. allocs'[e].bundle = bn
      BY <2>3, <3>2 DEF Alloc
    <3> QED
      BY <2>1, <2>2, <3>1, <3>3
  <2>5. AllBundles' \subseteq AllBundles
    BY <2>1, <2>2, <2>4 DEF AllBundles
  <2>6. BundlesOK(func, AllBundles, slots) /\ NoneTwin
    BY <2>2 DEF PlacesOK
  <2>7. BundlesOK(func, AllBundles', slots')
    BY <2>2, <2>5, <2>6, FewerBundles
  <2>8. NoneTwin'
    BY <2>1, <2>2, <2>4, <2>6 DEF NoneTwin
  <2> QED
    BY <1>0, <2>2, <2>7, <2>8 DEF PlacesOK
<1>5. CASE Spill
  <2>1. PICK bn \in Top :
          /\ RegChoices(bn) = {} /\ Evictable(bn) = {}
          /\ queue' = (queue \ {bn}) \union {SpillBundle(bn.class, o, slots + 1) : o \in Inside(bn)}
    BY <1>5 DEF Spill
  <2>2. /\ phase = "alloc" /\ phase' = phase /\ allocs' = allocs /\ slots' = slots + 1
        /\ slots \in Nat /\ slots + 1 \in Slots /\ bn \in queue /\ bn \in Bundle
    BY <1>5, <2>1, TopInQueue, RegsAssumption DEF Spill, TypeOK, Slots
  <2>3. bn.evictable = TRUE
    BY <2>1, <2>2 DEF EnoughRegisters, Bundle
  <2>4. BundlesOK(func, AllBundles, slots) /\ NoneTwin /\ bn \in AllBundles
    BY <2>2 DEF PlacesOK, AllBundles
  <2>5. /\ Inside(bn) \in SUBSET VOps(func)
        /\ \A o \in Inside(bn) : \E s \in bn.segs : s.reg = o.reg
    BY DEF Inside
  <2>6. \A s, t \in bn.segs : s.reg # t.reg => ~ Intersects(s.range, t.range)
    BY <2>2 DEF NoConflict
  <2> DEFINE P == {PartOf(func, o, slots + 1) : o \in Inside(bn)}
  <2>7. BundlesOK(func, (AllBundles \ {bn}) \union P, slots + 1) /\ P \intersect AllBundles = {}
    <3>1. \A x \in P : \E o \in Inside(bn) : x = PartOf(func, o, slots + 1)
      OBVIOUS
    <3> HIDE DEF P
    <3> QED
      <4>1. Spilled(func, AllBundles, slots, bn, Inside(bn), P)
        BY <2>2, <2>3, <2>4, <2>5, <2>6, <3>1 DEF Spilled, Apart
      <4> QED
        BY <4>1, SpillPlaces
  <2>8. \A o \in Inside(bn) : SpillBundle(bn.class, o, slots + 1) = PartOf(func, o, slots + 1)
    <3>1. SUFFICES ASSUME NEW o \in Inside(bn) PROVE bn.class = ClassOf[o.reg]
      BY DEF SpillBundle, PartOf
    <3>2. PICK s \in bn.segs : s.reg = o.reg
      BY <2>5
    <3>3. Whole(func, bn)
      <4>1. \A p \in VOps(func), slot \in Slots : bn # PartOf(func, p, slot)
        <5>1. SUFFICES ASSUME NEW p \in VOps(func), NEW slot \in Slots, bn = PartOf(func, p, slot) PROVE FALSE
          OBVIOUS
        <5>2. PartOf(func, p, slot).evictable = FALSE
          BY PartIs
        <5> QED
          BY <2>3, <5>1, <5>2
      <4> QED
        BY <2>4, <4>1 DEF BundlesOK, IsPart
    <3> QED
      BY <3>2, <3>3 DEF Whole
  <2>9. queue' = (queue \ {bn}) \union P
    BY <2>1, <2>8
  <2> HIDE DEF P
  <2>10. \A j \in 1..Len(allocs) : allocs[j].bundle # bn /\ allocs[j].bundle \notin queue
    BY <2>2, <2>4 DEF NoneTwin
  <2>11. AllBundles' \subseteq (AllBundles \ {bn}) \union P
    BY <2>2, <2>9, <2>10 DEF AllBundles
  <2>12. BundlesOK(func, AllBundles', slots')
    BY <2>2, <2>7, <2>11, FewerBundles
  <2>13. NoneTwin'
    BY <2>2, <2>4, <2>7, <2>9 DEF NoneTwin, AllBundles
  <2> QED
    BY <1>0, <2>2, <2>12, <2>13 DEF PlacesOK
<1>6. CASE Apply \/ RemoveUseless
  <2>1. /\ phase # "coalesce" /\ phase' # "coalesce" /\ queue = {}
        /\ allocs' = allocs /\ queue' = queue /\ slots' = slots
    BY <1>6 DEF Apply, RemoveUseless, PlacesOK
  <2>2. AllBundles' = AllBundles /\ NoneTwin' = NoneTwin
    BY <2>1 DEF AllBundles, NoneTwin
  <2> QED
    BY <1>0, <2>1, <2>2 DEF PlacesOK
<1>7. CASE UNCHANGED vars
  <2>1. AllBundles' = AllBundles /\ NoneTwin' = NoneTwin /\ Closed' = Closed
    BY <1>7 DEF AllBundles, NoneTwin, Closed, vars
  <2> QED
    BY <1>0, <1>7, <2>1 DEF PlacesOK, vars
<1> QED
  BY <1>1, <1>2, <1>3, <1>4, <1>5, <1>6, <1>7 DEF Next

-----------------------------------------------------------------------------
(* What the allocations say once the queue is empty.                       *)

AllocsOK(f, as) ==
    /\ Len(as) \in Nat
    /\ \A j \in 1..Len(as) :
         /\ as[j].reg \in PRegs
         /\ as[j].bundle.segs \subseteq Segment(f)
         /\ Whole(f, as[j].bundle) \/ IsPart(f, as[j].bundle)
         /\ Apart(as[j].bundle.segs)
         /\ \A s \in as[j].bundle.segs : \A x \in Reserved(f) : x.reg = as[j].reg => ~ Intersects(s.range, x.range)
    /\ \A j, m \in 1..Len(as) :
         /\ Consistent(as[j].bundle, as[m].bundle) /\ SlotApart(f, as[j].bundle, as[m].bundle)
         /\ j # m => as[j].bundle # as[m].bundle
         /\ (j # m /\ as[j].reg = as[m].reg) => Disjoint(as[j].bundle.segs, as[m].bundle.segs)
    /\ \A o \in VOps(f) : \E j \in 1..Len(as) : \E s \in as[j].bundle.segs :
         s.reg = o.reg /\ Encloses(s.range, RangeOf(f, o))

\* Once the queue is empty, the allocations serve every operand from one home.
LEMMA AllocsReady ==
    ASSUME IInv, PlacesOK, phase # "coalesce", queue = {}
    PROVE  AllocsOK(func, allocs)
<1>1. Len(allocs) \in Nat
  BY DEF IInv, TypeOK
<1>2. ASSUME NEW j \in 1..Len(allocs)
      PROVE  /\ allocs[j].reg \in PRegs
             /\ allocs[j].bundle.segs \subseteq Segment(func)
             /\ Whole(func, allocs[j].bundle) \/ IsPart(func, allocs[j].bundle)
             /\ Apart(allocs[j].bundle.segs)
             /\ \A s \in allocs[j].bundle.segs : \A x \in Reserved(func) :
                    x.reg = allocs[j].reg => ~ Intersects(s.range, x.range)
  <2>1. allocs[j].reg \in PRegs /\ allocs[j].bundle \in Bundle
    BY AllocType DEF IInv
  <2>2. allocs[j].bundle.segs \subseteq Segment(func)
    BY <2>1 DEF Bundle
  <2>3. Whole(func, allocs[j].bundle) \/ IsPart(func, allocs[j].bundle)
    BY DEF PlacesOK, BundlesOK, AllBundles
  <2>4. NoneReserved /\ AllApart
    BY NoConflictParts DEF IInv
  <2>5. reserved = Reserved(func)
    BY DEF PlacesOK
  <2> QED
    BY <2>1, <2>2, <2>3, <2>4, <2>5 DEF AllApart, NoneReserved, Free
<1>3. ASSUME NEW j \in 1..Len(allocs), NEW m \in 1..Len(allocs)
      PROVE  /\ Consistent(allocs[j].bundle, allocs[m].bundle) /\ SlotApart(func, allocs[j].bundle, allocs[m].bundle)
             /\ j # m => allocs[j].bundle # allocs[m].bundle
             /\ (j # m /\ allocs[j].reg = allocs[m].reg) => Disjoint(allocs[j].bundle.segs, allocs[m].bundle.segs)
  <2>1. NoneTwice
    BY NoConflictParts DEF IInv
  <2> QED
    BY <2>1 DEF PlacesOK, BundlesOK, AllBundles, NoneTwin, NoneTwice
<1>4. ASSUME NEW o \in VOps(func)
      PROVE  \E j \in 1..Len(allocs) : \E s \in allocs[j].bundle.segs :
                s.reg = o.reg /\ Encloses(s.range, RangeOf(func, o))
  BY DEF IInv, Served, Waiting, Placed
<1> QED
  BY <1>1, <1>2, <1>3, <1>4 DEF AllocsOK

-----------------------------------------------------------------------------
(* The operands of a function that the allocator supports.                  *)

Self(ins) == ins.op = "mov" /\ ins.args[1] = ins.args[2]

\* The instructions of a function that the allocator supports.
LEMMA SupportedInstr ==
    ASSUME NEW f, Supported(f), NEW b \in Blocks(f), NEW i \in Instrs(f, b)
    PROVE  LET ins == Instr(f, b, i)
           IN  /\ ins.op \in {"mov", "sub", "cmp", "call", "jmp"}
               /\ ins.op \in Arity2 => ins \in [op : Arity2, args : [1..2 -> Regs \union {Imm}]]
               /\ ins.op \in {"mov", "sub"} => ins.args[1] \in Regs
               /\ ins.op \notin Arity2 => ins \in {Call, Jmp}
BY DEF Supported, Instructions, Arity2, HasDest, Call, Jmp

\* An operand of a supported function is an argument of its instruction.
LEMMA OperandForm ==
    ASSUME NEW f, Supported(f), NEW o \in VOps(f)
    PROVE  LET ins == Instr(f, o.block, o.instr)
           IN  /\ o.block \in Blocks(f) /\ o.instr \in Instrs(f, o.block)
               /\ o.k \in 1..2 /\ ins.op \in {"mov", "sub", "cmp"} /\ ~ Self(ins)
               /\ ins.args[o.k] = o.reg
               /\ UsageOf(f, o) = IF o.k = 2 \/ ins.op = "cmp" THEN "USE" ELSE IF ins.op = "mov" THEN "DEF" ELSE "USE_DEF"
<1> DEFINE ins == Instr(f, o.block, o.instr)
           Arg(n) == {ins.args[n]} \intersect Regs
<1>1. /\ o.block \in Blocks(f) /\ o.instr \in Instrs(f, o.block) /\ o.reg \in VRegs
      /\ o.k \in 1..3 /\ o.k <= Len(RegOps(f, o.block, o.instr))
      /\ o.reg \in RegOps(f, o.block, o.instr)[o.k].regs
  BY DEF VOps
<1>2. /\ ins.op \in {"mov", "sub", "cmp", "call", "jmp"}
      /\ ins.op \in {"mov", "sub"} => ins.args[1] \in Regs
      /\ ins.op \in Arity2 => ins.args \in [1..2 -> Regs \union {Imm}]
  BY <1>1, SupportedInstr
<1>3. CASE ins.op = "call"
  <2>1. RegOps(f, o.block, o.instr) = <<Op("KILL", Volatile), Op("USE", CallArgs(f, o.block, o.instr)), Op("DEF", {RetReg})>>
    BY <1>3 DEF RegOps
  <2>2. o.reg \in Volatile \/ o.reg \in CallArgs(f, o.block, o.instr) \/ o.reg = RetReg
    BY <1>1, <2>1 DEF Op
  <2>3. o.reg \in PRegs
    BY <2>2, RegAssumption DEF CallArgs
  <2> QED
    BY <1>1, <2>3, RegAssumption
<1>4. CASE ins.op = "jmp"
  <2>1. RegOps(f, o.block, o.instr) = <<>>
    BY <1>4 DEF RegOps
  <2> QED
    BY <1>1, <2>1
<1>5. CASE ins.op = "mov"
  <2>1. CASE Arg(1) = Arg(2)
    <3>1. RegOps(f, o.block, o.instr) = <<>>
      BY <1>5, <2>1 DEF RegOps
    <3> QED
      BY <1>1, <3>1
  <2>2. CASE Arg(1) # Arg(2)
    <3>1. RegOps(f, o.block, o.instr) = <<Op("DEF", Arg(1)), Op("USE", Arg(2))>>
      BY <1>5, <2>2 DEF RegOps
    <3>2. ~ Self(ins)
      BY <2>2 DEF Self
    <3> QED
      BY <1>1, <1>5, <3>1, <3>2 DEF Op, UsageOf
  <2> QED
    BY <2>1, <2>2
<1>6. CASE ins.op = "sub"
  <2>1. RegOps(f, o.block, o.instr) = <<Op("USE_DEF", Arg(1)), Op("USE", Arg(2))>>
    BY <1>6 DEF RegOps
  <2> QED
    BY <1>1, <1>6, <2>1 DEF Op, UsageOf, Self
<1>7. CASE ins.op = "cmp"
  <2>1. RegOps(f, o.block, o.instr) = <<Op("USE", Arg(1)), Op("USE", Arg(2))>>
    BY <1>7 DEF RegOps
  <2> QED
    BY <1>1, <1>7, <2>1 DEF Op, UsageOf, Self
<1> QED
  BY <1>2, <1>3, <1>4, <1>5, <1>6, <1>7

\* A virtual register that an instruction names is one of its operands.
LEMMA OperandOf ==
    ASSUME NEW f, Supported(f), NEW b \in Blocks(f), NEW i \in Instrs(f, b),
           Instr(f, b, i).op \in Arity2, ~ Self(Instr(f, b, i)),
           NEW n \in 1..2, Instr(f, b, i).args[n] \in VRegs
    PROVE  [reg |-> Instr(f, b, i).args[n], block |-> b, instr |-> i, k |-> n] \in VOps(f)
<1> DEFINE ins == Instr(f, b, i)
           o == [reg |-> ins.args[n], block |-> b, instr |-> i, k |-> n]
           Arg(m) == {ins.args[m]} \intersect Regs
<1>1. ins.op \in {"mov", "sub", "cmp"} /\ (ins.op = "mov" => ins.args[1] \in Regs)
  BY SupportedInstr DEF Arity2
<1>2. ins.op = "mov" => Arg(1) # Arg(2)
  BY <1>1 DEF Self
<1>3. Len(RegOps(f, b, i)) = 2 /\ RegOps(f, b, i)[n].regs = Arg(n)
  BY <1>1, <1>2 DEF RegOps, Op
<1>4. ins.args[n] \in Arg(n)
  BY DEF Regs
<1>5. n \in 1..3 /\ n <= 2
  OBVIOUS
<1> HIDE DEF Arg, ins
<1>6. o \in [reg : VRegs, block : {b}, instr : Instrs(f, b), k : 1..3]
  BY <1>5 DEF ins
<1>7. o.k <= Len(RegOps(f, o.block, o.instr)) /\ o.reg \in RegOps(f, o.block, o.instr)[o.k].regs
  BY <1>3, <1>4, <1>5
<1> HIDE DEF o
<1>8. o \in UNION {[reg : VRegs, block : {c}, instr : Instrs(f, c), k : 1..3] : c \in Blocks(f)}
  BY <1>6
<1> QED
  BY <1>7, <1>8 DEF VOps, o, ins

-----------------------------------------------------------------------------
(* Bundles at one instruction.                                              *)

HoldsAt(bn, x, b, i) == \E s \in bn.segs : s.reg = x /\ s.range.block = b /\ Touches(s.range, i)
Touched(bn, b, i) == \E s \in bn.segs : s.range.block = b /\ Touches(s.range, i)

\* What a bundle holds is a virtual register, at an instruction it touches.
LEMMA HeldIsVirtual ==
    ASSUME NEW f, NEW as, AllocsOK(f, as), NEW j \in 1..Len(as), NEW x, NEW b, NEW i,
           HoldsAt(as[j].bundle, x, b, i)
    PROVE  x \in VRegs /\ Touched(as[j].bundle, b, i)
BY SegmentType DEF AllocsOK, HoldsAt, Touched

\* A bundle with a slot is there for one operand of the instruction.
PartFor(f, bn, o, b, i) ==
    /\ o.block = b /\ o.instr = i /\ bn = PartOf(f, o, SlotOf(bn)) /\ SlotOf(bn) \in Slots
    /\ \A s \in bn.segs : s.reg = o.reg /\ s.range = RangeOf(f, o)
\* A bundle with a slot that touches an instruction was made for one of its
\* operands.
LEMMA PartAt ==
    ASSUME NEW f, NEW as, AllocsOK(f, as), NEW j \in 1..Len(as),
           SlotOf(as[j].bundle) # NoSlot, NEW b, NEW i \in Nat, Touched(as[j].bundle, b, i)
    PROVE  \E o \in VOps(f) : PartFor(f, as[j].bundle, o, b, i)
<1> DEFINE bn == as[j].bundle
<1>1. IsPart(f, bn)
  BY DEF AllocsOK, Whole, SlotOf
<1>2. PICK o \in VOps(f) : \E slot \in Slots : bn = PartOf(f, o, slot)
  BY <1>1 DEF IsPart
<1>3. PICK slot \in Slots : bn = PartOf(f, o, slot)
  BY <1>2
<1>4. SlotOf(bn) = slot /\ bn.segs = {[reg |-> o.reg, range |-> RangeOf(f, o)]}
  <2>1. SlotOf(PartOf(f, o, slot)) = slot /\ PartOf(f, o, slot).segs = {[reg |-> o.reg, range |-> RangeOf(f, o)]}
    BY PartIs
  <2> HIDE DEF bn
  <2> QED
    BY <1>3, <2>1
<1>5. RangeOf(f, o).block = b /\ Touches(RangeOf(f, o), i)
  <2> HIDE DEF bn
  <2>1. Touched(bn, b, i)
    BY DEF bn
  <2> QED
    BY <1>4, <2>1 DEF Touched
<1>6. /\ o.block = b /\ o.instr \in Nat
      /\ RangeOf(f, o).start \in {UsePoint(o.instr), DefPoint(o.instr)}
      /\ RangeOf(f, o).end \in {UsePoint(o.instr), DefPoint(o.instr)}
  <2>1. o.block = RangeOf(f, o).block /\ o.instr \in Nat
    BY OperandType
  <2> QED
    BY <1>5, <2>1 DEF RangeOf, OpRange, LiveRange
<1>7. o.instr = i
  BY <1>5, <1>6 DEF Touches, UsePoint, DefPoint
<1> HIDE DEF bn
<1>8. \A s \in bn.segs : s.reg = o.reg /\ s.range = RangeOf(f, o)
  BY <1>4
<1>9. bn = PartOf(f, o, SlotOf(bn)) /\ SlotOf(bn) \in Slots
  BY <1>3, <1>4
<1> QED
  BY <1>6, <1>7, <1>8, <1>9 DEF bn, PartFor

\* An operand is known by its register, its place and its number.
LEMMA VOpsFields ==
    ASSUME NEW f, NEW o \in VOps(f), NEW p \in VOps(f),
           o.reg = p.reg, o.block = p.block, o.instr = p.instr, o.k = p.k
    PROVE  o = p
<1>1. o = [reg |-> o.reg, block |-> o.block, instr |-> o.instr, k |-> o.k]
  BY DEF VOps
<1>2. p = [reg |-> p.reg, block |-> p.block, instr |-> p.instr, k |-> p.k]
  BY DEF VOps
<1> QED
  BY <1>1, <1>2

\* An operand has one bundle.
LEMMA OnePart ==
    ASSUME NEW f, NEW as, AllocsOK(f, as), NEW o \in VOps(f), NEW j \in 1..Len(as), NEW m \in 1..Len(as),
           as[j].bundle = PartOf(f, o, SlotOf(as[j].bundle)), SlotOf(as[j].bundle) \in Slots,
           as[m].bundle = PartOf(f, o, SlotOf(as[m].bundle)), SlotOf(as[m].bundle) \in Slots
    PROVE  j = m
<1> DEFINE x == as[j].bundle
           y == as[m].bundle
<1>1. x = PartOf(f, o, SlotOf(x)) /\ y = PartOf(f, o, SlotOf(y)) /\ SlotOf(x) \in Slots /\ SlotOf(y) \in Slots
  OBVIOUS
<1>2. Consistent(x, y) /\ (j # m => x # y)
  BY DEF AllocsOK
<1> HIDE DEF x, y
<1>3. /\ x.segs = {[reg |-> o.reg, range |-> RangeOf(f, o)]}
      /\ y.segs = {[reg |-> o.reg, range |-> RangeOf(f, o)]}
  <2>1. /\ PartOf(f, o, SlotOf(x)).segs = {[reg |-> o.reg, range |-> RangeOf(f, o)]}
        /\ PartOf(f, o, SlotOf(y)).segs = {[reg |-> o.reg, range |-> RangeOf(f, o)]}
    BY <1>1, PartIs
  <2> QED
    BY <1>1, <2>1
<1>4. SlotOf(x) = SlotOf(y)
  BY <1>2, <1>3 DEF Consistent
<1> QED
  BY <1>1, <1>2, <1>4

\* What a bundle with a slot loads and stores depends on its operand.
PartFits(f, as, j, b, i, k) ==
    LET ins == Instr(f, b, i)
        bn == as[j].bundle
    IN  /\ b \in Blocks(f) /\ i \in Instrs(f, b)
        /\ ins.op \in {"mov", "sub", "cmp"} /\ ~ Self(ins) /\ ins.args[k] \in VRegs
        /\ bn.segs # {}
        /\ \A s \in bn.segs : s.reg = ins.args[k]
        /\ HoldsAt(bn, ins.args[k], b, i)
        /\ bn.src \in {NoSlot, SlotOf(bn)} /\ bn.dst \in {NoSlot, SlotOf(bn)} /\ SlotOf(bn) \in Slots
        /\ bn.src = NoSlot <=> (k = 1 /\ ins.op = "mov")
        /\ bn.dst = NoSlot <=> (k = 2 \/ ins.op = "cmp")
        /\ ins.args[1] = ins.args[2] => ins.op = "cmp"
        /\ \A s \in bn.segs : /\ s.range.start = IF bn.src = NoSlot THEN DefPoint(i) ELSE UsePoint(i)
                              /\ s.range.end = IF bn.dst = NoSlot THEN UsePoint(i) ELSE DefPoint(i)
        /\ \A m \in 1..Len(as) :
             (SlotOf(as[m].bundle) # NoSlot /\ Touched(as[m].bundle, b, i) /\ m # j) =>
                 ~ HoldsAt(as[m].bundle, ins.args[k], b, i) \/ ins.op = "cmp"
        /\ \A m \in 1..Len(as) :
             (as[m].bundle.dst # NoSlot /\ Touched(as[m].bundle, b, i) /\ m # j) => bn.dst = NoSlot

\* It loads what that operand reads and stores what it writes.
LEMMA PartUse ==
    ASSUME NEW f \in Funcs, Supported(f), NEW as, AllocsOK(f, as), NEW j \in 1..Len(as),
           SlotOf(as[j].bundle) # NoSlot, NEW b, NEW i \in Nat, Touched(as[j].bundle, b, i)
    PROVE  \E k \in 1..2 : PartFits(f, as, j, b, i, k)
<1> DEFINE bn == as[j].bundle
           ins == Instr(f, b, i)
           slot == SlotOf(bn)
<1>0. PICK o \in VOps(f) : PartFor(f, as[j].bundle, o, b, i)
  BY PartAt
<1>1. /\ o.block = b /\ o.instr = i
      /\ as[j].bundle = PartOf(f, o, SlotOf(as[j].bundle))
      /\ SlotOf(as[j].bundle) \in Slots
      /\ \A s \in as[j].bundle.segs : s.reg = o.reg /\ s.range = RangeOf(f, o)
  BY <1>0 DEF PartFor
<1>2. /\ b \in Blocks(f) /\ i \in Instrs(f, b)
      /\ o.k \in 1..2 /\ ins.op \in {"mov", "sub", "cmp"} /\ ~ Self(ins)
      /\ ins.args[o.k] = o.reg /\ o.reg \in VRegs
      /\ UsageOf(f, o) = IF o.k = 2 \/ ins.op = "cmp" THEN "USE" ELSE IF ins.op = "mov" THEN "DEF" ELSE "USE_DEF"
  BY <1>1, OperandForm, OperandType
<1>3. /\ bn.src = (IF UsageOf(f, o) = "DEF" THEN NoSlot ELSE slot)
      /\ bn.dst = (IF UsageOf(f, o) = "USE" THEN NoSlot ELSE slot)
      /\ bn.segs = {[reg |-> o.reg, range |-> RangeOf(f, o)]}
  <2>1. /\ PartOf(f, o, slot).src = (IF UsageOf(f, o) = "DEF" THEN NoSlot ELSE slot)
        /\ PartOf(f, o, slot).dst = (IF UsageOf(f, o) = "USE" THEN NoSlot ELSE slot)
        /\ PartOf(f, o, slot).segs = {[reg |-> o.reg, range |-> RangeOf(f, o)]}
    BY DEF PartOf
  <2> HIDE DEF bn, slot
  <2>2. bn = PartOf(f, o, slot)
    BY <1>1 DEF bn, slot
  <2> QED
    BY <2>1, <2>2
<1>4. slot \in Slots /\ slot # NoSlot
  BY <1>1
<1>5. \A s \in bn.segs : /\ s.range.start = IF bn.src = NoSlot THEN DefPoint(i) ELSE UsePoint(i)
                         /\ s.range.end = IF bn.dst = NoSlot THEN UsePoint(i) ELSE DefPoint(i)
  <2> HIDE DEF bn, slot
  <2>1. /\ RangeOf(f, o).start = IF bn.src = NoSlot THEN DefPoint(i) ELSE UsePoint(i)
        /\ RangeOf(f, o).end = IF bn.dst = NoSlot THEN UsePoint(i) ELSE DefPoint(i)
    BY <1>1, <1>2, <1>3, <1>4 DEF RangeOf, OpRange, LiveRange
  <2> QED
    BY <1>3, <2>1
<1>6. HoldsAt(bn, o.reg, b, i)
  <2> HIDE DEF bn
  <2>1. Touched(bn, b, i)
    BY DEF bn
  <2> QED
    BY <1>3, <2>1 DEF Touched, HoldsAt
<1>7. ASSUME NEW m \in 1..Len(as), SlotOf(as[m].bundle) # NoSlot, Touched(as[m].bundle, b, i), m # j,
             NEW p \in VOps(f), p.block = b, p.instr = i,
             as[m].bundle = PartOf(f, p, SlotOf(as[m].bundle)), SlotOf(as[m].bundle) \in Slots,
             p.reg = o.reg, p.k = o.k
      PROVE  FALSE
  <2>1. p = o
    BY <1>1, <1>7, VOpsFields
  <2> QED
    BY <1>1, <1>7, <2>1, OnePart
<1>01. ins.args[1] = ins.args[2] => ins.op = "cmp"
  <2>1. SUFFICES ASSUME ins.op = "sub", ins.args[1] = ins.args[2] PROVE FALSE
    BY <1>2 DEF Self
  <2> DEFINE p(n) == [reg |-> ins.args[n], block |-> b, instr |-> i, k |-> n]
  <2>2. ins.args[1] \in VRegs /\ ins.args[2] \in VRegs /\ ins.op \in Arity2
    BY <1>2, <2>1 DEF Arity2
  <2>3. p(1) \in VOps(f) /\ p(2) \in VOps(f)
    BY <1>2, <2>2, OperandOf
  <2>4. UsageOf(f, p(1)) = "USE_DEF" /\ UsageOf(f, p(2)) = "USE"
    <3>1. \A o1 \in VOps(f) : (o1.block = b /\ o1.instr = i) =>
             UsageOf(f, o1) = IF o1.k = 2 \/ ins.op = "cmp" THEN "USE" ELSE IF ins.op = "mov" THEN "DEF" ELSE "USE_DEF"
      BY OperandForm
    <3> QED
      BY <2>1, <2>3, <3>1
  <2>5. p(1).reg = p(2).reg /\ p(1).block = p(2).block /\ p(1).instr = p(2).instr
    BY <2>1
  <2> HIDE DEF p
  <2> QED
    BY <2>3, <2>4, <2>5, FuncsAssumption
<1>8. ASSUME NEW m \in 1..Len(as), SlotOf(as[m].bundle) # NoSlot, Touched(as[m].bundle, b, i), m # j,
             HoldsAt(as[m].bundle, o.reg, b, i)
      PROVE  ins.args[1] = ins.args[2]
  <2>1. PICK p \in VOps(f) : /\ p.block = b /\ p.instr = i
                             /\ as[m].bundle = PartOf(f, p, SlotOf(as[m].bundle))
                             /\ SlotOf(as[m].bundle) \in Slots
                             /\ \A s \in as[m].bundle.segs : s.reg = p.reg /\ s.range = RangeOf(f, p)
    <3>1. \E p \in VOps(f) : PartFor(f, as[m].bundle, p, b, i)
      BY <1>8, PartAt
    <3> QED
      BY <3>1 DEF PartFor
  <2>2. p.reg = o.reg
    BY <1>8, <2>1 DEF HoldsAt
  <2>3. p.k # o.k
    BY <1>7, <1>8, <2>1, <2>2
  <2>4. p.k \in 1..2 /\ ins.args[p.k] = p.reg
    BY <2>1, OperandForm
  <2> HIDE DEF ins
  <2> QED
    BY <1>2, <2>2, <2>3, <2>4
<1>9. ASSUME NEW m \in 1..Len(as), as[m].bundle.dst # NoSlot, Touched(as[m].bundle, b, i), m # j
      PROVE  bn.dst = NoSlot
  <2>1. SlotOf(as[m].bundle) # NoSlot
    BY <1>9 DEF SlotOf
  <2>2. PICK p \in VOps(f) : /\ p.block = b /\ p.instr = i
                             /\ as[m].bundle = PartOf(f, p, SlotOf(as[m].bundle))
                             /\ SlotOf(as[m].bundle) \in Slots
                             /\ \A s \in as[m].bundle.segs : s.reg = p.reg /\ s.range = RangeOf(f, p)
    <3>1. \E p \in VOps(f) : PartFor(f, as[m].bundle, p, b, i)
      BY <1>9, <2>1, PartAt
    <3> QED
      BY <3>1 DEF PartFor
  <2>3. /\ p.k \in 1..2 /\ ins.args[p.k] = p.reg
        /\ UsageOf(f, p) = IF p.k = 2 \/ ins.op = "cmp" THEN "USE" ELSE IF ins.op = "mov" THEN "DEF" ELSE "USE_DEF"
    BY <2>2, OperandForm
  <2>4. UsageOf(f, p) # "USE"
    <3>1. PartOf(f, p, SlotOf(as[m].bundle)).dst = IF UsageOf(f, p) = "USE" THEN NoSlot ELSE SlotOf(as[m].bundle)
      BY DEF PartOf
    <3> QED
      BY <1>9, <2>2, <3>1
  <2>5. p.k = 1 /\ ins.op # "cmp"
    BY <2>3, <2>4
  <2>6. SUFFICES ASSUME bn.dst # NoSlot PROVE FALSE
    OBVIOUS
  <2>7. o.k = 1
    <3>1. UsageOf(f, o) # "USE"
      BY <1>3, <2>6
    <3> QED
      BY <1>2, <3>1
  <2> HIDE DEF ins
  <2> QED
    BY <1>2, <1>7, <1>9, <2>1, <2>2, <2>3, <2>5, <2>7
<1> HIDE DEF ins, slot, bn
<1>10. (bn.src = NoSlot <=> (o.k = 1 /\ ins.op = "mov")) /\ (bn.dst = NoSlot <=> (o.k = 2 \/ ins.op = "cmp"))
  BY <1>2, <1>3, <1>4
<1>11. bn.src \in {NoSlot, slot} /\ bn.dst \in {NoSlot, slot} /\ bn.segs # {} /\ \A s \in bn.segs : s.reg = o.reg
  BY <1>3
<1> QED
  BY <1>2, <1>4, <1>5, <1>6, <1>8, <1>01, <1>9, <1>10, <1>11 DEF bn, ins, slot, PartFits

-----------------------------------------------------------------------------
(* One allocation applied to one instruction.                               *)

Places == Regs \union Slots
Moves == [op : {"mov"}, args : Places \X Places]
Typed(c, op) ==
    c \in [pre : Seq(Moves), ins : [op : {op}, args : [1..2 -> Places \union {Imm}]], post : Seq(Moves)]

Renamed(c, b, i, al) ==
    [c EXCEPT !.ins.args = [n \in DOMAIN @ |-> IF HoldsAt(al.bundle, @[n], b, i) THEN al.reg ELSE @[n]]]

\* apply_alloc leaves an instruction alone that the bundle does not touch; it
\* loads, renames and stores at the others.
LEMMA ApplyIs ==
    ASSUME NEW c, NEW b, NEW i, NEW al
    PROVE  /\ ~ Touched(al.bundle, b, i) => ApplyAlloc(c, b, i, al) = c
           /\ Touched(al.bundle, b, i) =>
                LET loaded == IF al.bundle.src # NoSlot THEN InsertLoad(c, al.reg, al.bundle.src) ELSE c
                    named == Renamed(loaded, b, i, al)
                IN  ApplyAlloc(c, b, i, al) =
                        IF al.bundle.dst # NoSlot THEN InsertStore(named, al.reg, al.bundle.dst) ELSE named
<1> DEFINE mine == {s \in al.bundle.segs : s.range.block = b /\ Touches(s.range, i)}
<1>1. mine = {} <=> ~ Touched(al.bundle, b, i)
  BY DEF Touched
<1>2. \A x : (\E s \in mine : s.reg = x) <=> HoldsAt(al.bundle, x, b, i)
  BY DEF HoldsAt
<1>3. CASE ~ Touched(al.bundle, b, i)
  BY <1>1, <1>3 DEF ApplyAlloc
<1>4. CASE Touched(al.bundle, b, i)
  <2> DEFINE loaded == IF al.bundle.src # NoSlot THEN InsertLoad(c, al.reg, al.bundle.src) ELSE c
             args == loaded.ins.args
             named == [loaded EXCEPT !.ins.args =
                          [n \in DOMAIN @ |-> IF \E s \in mine : s.reg = @[n] THEN al.reg ELSE @[n]]]
  <2>1. mine # {}
    BY <1>1, <1>4
  <2>2. ApplyAlloc(c, b, i, al) = IF al.bundle.dst # NoSlot THEN InsertStore(named, al.reg, al.bundle.dst) ELSE named
    BY <2>1 DEF ApplyAlloc
  <2>3. named = Renamed(loaded, b, i, al)
    <3> HIDE DEF loaded, mine
    <3> QED
      BY <1>2 DEF Renamed
  <2> QED
    BY <1>4, <2>2, <2>3
<1> QED
  BY <1>3, <1>4

\* Renaming replaces the arguments that the bundle holds, and nothing else.
LEMMA RenameEffect ==
    ASSUME NEW c, NEW op, Typed(c, op), NEW b, NEW i, NEW al, al.reg \in PRegs
    PROVE  LET d == Renamed(c, b, i, al)
           IN  /\ Typed(d, op) /\ d.pre = c.pre /\ d.post = c.post
               /\ \A n \in 1..2 : d.ins.args[n] = IF HoldsAt(al.bundle, c.ins.args[n], b, i) THEN al.reg ELSE c.ins.args[n]
<1> DEFINE new == [n \in DOMAIN c.ins.args |-> IF HoldsAt(al.bundle, c.ins.args[n], b, i) THEN al.reg ELSE c.ins.args[n]]
           d == [c EXCEPT !.ins.args = new]
<1>1. Renamed(c, b, i, al) = d
  BY DEF Renamed
<1>2. c.ins.args \in [1..2 -> Places \union {Imm}] /\ al.reg \in Places
  BY DEF Typed, Places, Regs
<1>3. new \in [1..2 -> Places \union {Imm}]
  BY <1>2
<1>4. \A n \in 1..2 : new[n] = IF HoldsAt(al.bundle, c.ins.args[n], b, i) THEN al.reg ELSE c.ins.args[n]
  BY <1>2
<1> HIDE DEF new
<1>5. Typed(d, op) /\ d.pre = c.pre /\ d.post = c.post /\ d.ins.args = new
  BY <1>3 DEF Typed
<1> QED
  BY <1>1, <1>4, <1>5

\* insert_load makes the source a memory operand or puts a move in front.
LEMMA LoadEffect ==
    ASSUME NEW c, NEW op, Typed(c, op), NEW r \in PRegs, NEW slot \in Slots
    PROVE  LET d == InsertLoad(c, r, slot)
           IN  /\ Typed(d, op) /\ d.post = c.post /\ d.ins.args[1] = c.ins.args[1]
               /\ IsMemoryOperandAllowed(c.ins) => d.pre = c.pre /\ d.ins.args[2] = slot
               /\ ~ IsMemoryOperandAllowed(c.ins) => d.pre = Append(c.pre, Mov(r, slot)) /\ d.ins = c.ins
<1>1. r \in Places /\ slot \in Places
  BY DEF Places, Regs
<1>2. CASE IsMemoryOperandAllowed(c.ins)
  <2> DEFINE new == [c.ins.args EXCEPT ![2] = slot]
  <2>1. InsertLoad(c, r, slot) = [c EXCEPT !.ins.args = new]
    BY <1>2 DEF InsertLoad
  <2>2. c.ins.args \in [1..2 -> Places \union {Imm}]
    BY DEF Typed
  <2>3. new \in [1..2 -> Places \union {Imm}] /\ new[1] = c.ins.args[1] /\ new[2] = slot
    BY <1>1, <2>2
  <2> HIDE DEF new
  <2>4. LET d == [c EXCEPT !.ins.args = new] IN Typed(d, op) /\ d.post = c.post /\ d.pre = c.pre /\ d.ins.args = new
    BY <2>3 DEF Typed
  <2> QED
    BY <1>2, <2>1, <2>3, <2>4
<1>3. CASE ~ IsMemoryOperandAllowed(c.ins)
  <2> DEFINE new == Append(c.pre, Mov(r, slot))
  <2>1. InsertLoad(c, r, slot) = [c EXCEPT !.pre = new]
    BY <1>3 DEF InsertLoad
  <2>2. new \in Seq(Moves)
    BY <1>1 DEF Moves, Mov, Typed
  <2> HIDE DEF new
  <2>3. LET d == [c EXCEPT !.pre = new] IN Typed(d, op) /\ d.post = c.post /\ d.pre = new /\ d.ins = c.ins
    BY <2>2 DEF Typed
  <2> QED
    BY <1>3, <2>1, <2>3 DEF new
<1> QED
  BY <1>2, <1>3

\* insert_store makes the destination a memory operand or puts a move behind.
LEMMA StoreEffect ==
    ASSUME NEW c, NEW op, Typed(c, op), NEW r \in PRegs, NEW slot \in Slots
    PROVE  LET d == InsertStore(c, r, slot)
           IN  /\ Typed(d, op) /\ d.pre = c.pre /\ d.ins.args[2] = c.ins.args[2]
               /\ IsMemoryOperandAllowed(c.ins) => d.post = c.post /\ d.ins.args[1] = slot
               /\ ~ IsMemoryOperandAllowed(c.ins) =>
                    d.ins = c.ins /\ (c.post = <<>> => d.post = <<Mov(slot, r)>>)
<1>1. r \in Places /\ slot \in Places
  BY DEF Places, Regs
<1>2. CASE IsMemoryOperandAllowed(c.ins)
  <2> DEFINE new == [c.ins.args EXCEPT ![1] = slot]
  <2>1. InsertStore(c, r, slot) = [c EXCEPT !.ins.args = new]
    BY <1>2 DEF InsertStore
  <2>2. c.ins.args \in [1..2 -> Places \union {Imm}]
    BY DEF Typed
  <2>3. new \in [1..2 -> Places \union {Imm}] /\ new[1] = slot /\ new[2] = c.ins.args[2]
    BY <1>1, <2>2
  <2> HIDE DEF new
  <2>4. LET d == [c EXCEPT !.ins.args = new] IN Typed(d, op) /\ d.post = c.post /\ d.pre = c.pre /\ d.ins.args = new
    BY <2>3 DEF Typed
  <2> QED
    BY <1>2, <2>1, <2>3, <2>4
<1>3. CASE ~ IsMemoryOperandAllowed(c.ins)
  <2> DEFINE new == <<Mov(slot, r)>> \o c.post
  <2>1. InsertStore(c, r, slot) = [c EXCEPT !.post = new]
    BY <1>3 DEF InsertStore
  <2>2. <<Mov(slot, r)>> \in Seq(Moves) /\ c.post \in Seq(Moves)
    BY <1>1 DEF Moves, Mov, Typed
  <2>3. new \in Seq(Moves) /\ (c.post = <<>> => new = <<Mov(slot, r)>>)
    <3>1. new \in Seq(Moves)
      BY <2>2
    <3>2. ASSUME NEW s \in Seq(Moves) PROVE s \o <<>> = s
      BY <3>2
    <3> QED
      BY <2>2, <3>1, <3>2
  <2> HIDE DEF new
  <2>4. LET d == [c EXCEPT !.post = new] IN Typed(d, op) /\ d.pre = c.pre /\ d.post = new /\ d.ins = c.ins
    BY <2>3 DEF Typed
  <2> QED
    BY <1>3, <2>1, <2>3, <2>4
<1> QED
  BY <1>2, <1>3

-----------------------------------------------------------------------------
(* The rewritten instructions.                                              *)

LoadOf(al) == Mov(al.reg, al.bundle.src)
StoreOf(al) == Mov(al.bundle.dst, al.reg)

\* An operand after the first k allocations: none of them holds its
\* register, or the operand is a register that is loaded before and stored
\* behind the instruction, or it is the slot.
ArgFree(as, x, arg, b, i, k) ==
    arg = x /\ \A j \in 1..k : ~ HoldsAt(as[j].bundle, x, b, i)
ArgInReg(as, x, arg, b, i, k, c) ==
    \E j \in 1..k :
        /\ HoldsAt(as[j].bundle, x, b, i) /\ arg = as[j].reg
        /\ as[j].bundle.src # NoSlot => \E e \in 1..Len(c.pre) : c.pre[e] = LoadOf(as[j])
        /\ as[j].bundle.dst # NoSlot => c.post = <<StoreOf(as[j])>>
ArgInSlot(as, x, arg, b, i, k) ==
    \E j \in 1..k :
        HoldsAt(as[j].bundle, x, b, i) /\ SlotOf(as[j].bundle) # NoSlot /\ arg = SlotOf(as[j].bundle)

ArgOK(as, ins, b, i, c, k, n) ==
    LET x == ins.args[n]
        arg == c.ins.args[n]
    IN  \/ ArgFree(as, x, arg, b, i, k)
        \/ ArgInReg(as, x, arg, b, i, k, c)
        \/ ins.op = "mov" /\ ArgInSlot(as, x, arg, b, i, k) /\ (n = 1 => c.post = <<>>)

PreOK(as, b, i, c, k) ==
    /\ \A e \in 1..Len(c.pre) : \E j \in 1..k :
         Touched(as[j].bundle, b, i) /\ as[j].bundle.src # NoSlot /\ c.pre[e] = LoadOf(as[j])
    /\ \A e, h \in 1..Len(c.pre) : e # h => c.pre[e].args[1] # c.pre[h].args[1]
PostOK(as, b, i, c, k) ==
    \/ c.post = <<>>
    \/ \E j \in 1..k : Touched(as[j].bundle, b, i) /\ as[j].bundle.dst # NoSlot /\ c.post = <<StoreOf(as[j])>>

\* Instruction i of block b after the first k allocations.
Rewrites(as, ins, b, i, c, k) ==
    /\ ins.op \in {"mov", "sub", "cmp"} /\ ~ Self(ins) /\ Typed(c, ins.op)
    /\ \A n \in 1..2 : ArgOK(as, ins, b, i, c, k, n)
    /\ PreOK(as, b, i, c, k) /\ PostOK(as, b, i, c, k)

InsOK(as, ins, b, i, c, k) ==
    \/ ins.op \notin Arity2 /\ c = Rewritten(ins)
    \/ Self(ins) /\ \E a \in Regs : c = Rewritten(Mov(a, a))
    \/ Rewrites(as, ins, b, i, c, k)

\* Virtual registers, physical registers, slots and constants are different.
LEMMA PlacesApart == VRegs \intersect PRegs = {} /\ Imm \notin Places /\ \A s \in Slots : s \notin Regs /\ s # NoSlot
BY RegAssumption, RegsAssumption DEF Places, Slots, NoSlot

\* The first allocations and the next one.
LEMMA AllocNumbers ==
    ASSUME NEW f, NEW as, AllocsOK(f, as), NEW k \in 0..Len(as)
    PROVE  /\ Len(as) \in Nat /\ k \in Nat
           /\ \A j \in 1..k : j \in 1..Len(as) /\ j \in 1..(k + 1)
           /\ \A j \in 1..(k + 1) : j \in 1..k \/ j = k + 1
<1> DEFINE n == Len(as)
<1>1. n \in Nat /\ k \in 0..n
  BY DEF AllocsOK
<1> HIDE DEF n
<1>2. k \in Nat /\ \A j \in 1..k : j \in 1..n /\ j \in 1..(k + 1)
  BY <1>1
<1>3. \A j \in 1..(k + 1) : j \in 1..k \/ j = k + 1
  BY <1>1
<1> QED
  BY <1>1, <1>2, <1>3 DEF n

\* Two bundles that hold a register at an instruction share its slot; without
\* one they are the same.
LEMMA HeldTwice ==
    ASSUME NEW f, NEW as, AllocsOK(f, as), NEW j \in 1..Len(as), NEW m \in 1..Len(as), NEW x, NEW b, NEW i,
           HoldsAt(as[j].bundle, x, b, i), HoldsAt(as[m].bundle, x, b, i)
    PROVE  SlotOf(as[j].bundle) = SlotOf(as[m].bundle) /\ (SlotOf(as[m].bundle) = NoSlot => j = m)
<1>1. Consistent(as[j].bundle, as[m].bundle) /\ (j # m => as[j].bundle # as[m].bundle)
  BY DEF AllocsOK
<1> QED
  BY <1>1 DEF HoldsAt, Consistent

\* Only an operand that is still the register itself is renamed.
LEMMA StillNamed ==
    ASSUME NEW f, NEW as, AllocsOK(f, as), NEW ins, NEW b, NEW i \in Nat, NEW c, NEW k \in 0..Len(as), NEW n,
           ArgOK(as, ins, b, i, c, k, n), NEW m \in 1..Len(as), HoldsAt(as[m].bundle, c.ins.args[n], b, i)
    PROVE  ArgFree(as, ins.args[n], c.ins.args[n], b, i, k)
<1> DEFINE x == ins.args[n]
           arg == c.ins.args[n]
<1>1. arg \in VRegs
  BY HeldIsVirtual
<1>2. arg \notin PRegs /\ arg \notin Slots
  BY <1>1, PlacesApart DEF Regs
<1>3. k \in Nat /\ \A j \in 1..k : j \in 1..Len(as)
  BY AllocNumbers
<1>4. ~ ArgInReg(as, x, arg, b, i, k, c)
  BY <1>2, <1>3 DEF ArgInReg, AllocsOK
<1>5. ~ ArgInSlot(as, x, arg, b, i, k)
  <2>1. SUFFICES ASSUME NEW j \in 1..k, HoldsAt(as[j].bundle, x, b, i), SlotOf(as[j].bundle) # NoSlot
                 PROVE  SlotOf(as[j].bundle) \in Slots
    BY <1>2 DEF ArgInSlot
  <2>2. Touched(as[j].bundle, b, i) /\ j \in 1..Len(as)
    BY <1>3, <2>1, HeldIsVirtual
  <2>3. \E o \in VOps(f) : PartFor(f, as[j].bundle, o, b, i)
    BY <2>1, <2>2, PartAt
  <2> QED
    BY <2>3 DEF PartFor
<1> QED
  BY <1>4, <1>5 DEF ArgOK

\* What an allocation does not disturb.
Undisturbed(as, b, i, c, d, k) ==
    /\ \A e \in 1..Len(c.pre) : \E h \in 1..Len(d.pre) : d.pre[h] = c.pre[e]
    /\ \A j \in 1..k : (Touched(as[j].bundle, b, i) /\ as[j].bundle.dst # NoSlot) => d.post = c.post

\* An argument that the next allocation does not rename stays right.
LEMMA ArgStays ==
    ASSUME NEW f, NEW as, AllocsOK(f, as), NEW ins, NEW b, NEW i \in Nat, NEW c, NEW d, NEW k \in 0..Len(as),
           k + 1 \in 1..Len(as), NEW n,
           ArgOK(as, ins, b, i, c, k, n), Undisturbed(as, b, i, c, d, k), d.ins.args[n] = c.ins.args[n],
           c.ins.args[n] = ins.args[n] => ~ HoldsAt(as[k + 1].bundle, ins.args[n], b, i),
           (ins.op = "mov" /\ n = 1) => d.post = c.post
    PROVE  ArgOK(as, ins, b, i, d, k + 1, n)
<1> DEFINE x == ins.args[n]
           arg == c.ins.args[n]
<1>1. k \in Nat /\ (\A j \in 1..k : j \in 1..(k + 1) /\ j \in 1..Len(as)) /\ \A j \in 1..(k + 1) : j \in 1..k \/ j = k + 1
  BY AllocNumbers
<1>2. CASE ArgFree(as, x, arg, b, i, k)
  BY <1>1, <1>2 DEF ArgFree, ArgOK
<1>3. CASE ArgInReg(as, x, arg, b, i, k, c)
  <2>1. PICK j \in 1..k :
            /\ HoldsAt(as[j].bundle, x, b, i) /\ arg = as[j].reg
            /\ as[j].bundle.src # NoSlot => \E e \in 1..Len(c.pre) : c.pre[e] = LoadOf(as[j])
            /\ as[j].bundle.dst # NoSlot => c.post = <<StoreOf(as[j])>>
    BY <1>3 DEF ArgInReg
  <2>2. Touched(as[j].bundle, b, i)
    BY <1>1, <2>1, HeldIsVirtual
  <2>3. as[j].bundle.src # NoSlot => \E e \in 1..Len(d.pre) : d.pre[e] = LoadOf(as[j])
    BY <2>1 DEF Undisturbed
  <2>4. as[j].bundle.dst # NoSlot => d.post = <<StoreOf(as[j])>>
    BY <2>1, <2>2 DEF Undisturbed
  <2>5. ArgInReg(as, x, arg, b, i, k + 1, d)
    BY <1>1, <2>1, <2>3, <2>4 DEF ArgInReg
  <2> QED
    BY <2>5 DEF ArgOK
<1>4. CASE ins.op = "mov" /\ ArgInSlot(as, x, arg, b, i, k) /\ (n = 1 => c.post = <<>>)
  <2>1. ArgInSlot(as, x, arg, b, i, k + 1)
    BY <1>1, <1>4 DEF ArgInSlot
  <2> QED
    BY <1>4, <2>1 DEF ArgOK
<1> QED
  BY <1>2, <1>3, <1>4 DEF ArgOK

\* Loads into different registers.
LEMMA TargetsDiffer ==
    ASSUME NEW f \in Funcs, Supported(f), NEW as, AllocsOK(f, as), NEW b, NEW i \in Nat,
           NEW j \in 1..Len(as), NEW m \in 1..Len(as), j # m,
           Touched(as[j].bundle, b, i), as[j].bundle.src # NoSlot,
           Touched(as[m].bundle, b, i), as[m].bundle.src # NoSlot
    PROVE  as[j].reg # as[m].reg
<1>1. ASSUME NEW l \in 1..Len(as), Touched(as[l].bundle, b, i), as[l].bundle.src # NoSlot
      PROVE  \E s \in as[l].bundle.segs : s.range.block = b /\ s.range.start = UsePoint(i) /\ UsePoint(i) <= s.range.end
  <2>1. SlotOf(as[l].bundle) # NoSlot
    BY <1>1 DEF SlotOf
  <2>2. PICK k \in 1..2 : PartFits(f, as, l, b, i, k)
    BY <1>1, <2>1, PartUse
  <2>3. \A s \in as[l].bundle.segs : s.range.start = UsePoint(i)
    BY <1>1, <2>2 DEF PartFits
  <2> QED
    BY <1>1, <2>3 DEF Touched, Touches
<1>2. ~ Disjoint(as[j].bundle.segs, as[m].bundle.segs)
  BY <1>1 DEF Disjoint, SegsIntersect, Intersects
<1> QED
  BY <1>2 DEF AllocsOK

\* Before the next allocation is applied to an instruction.
Ready(f, as, ins, b, i, c, k) ==
    /\ f \in Funcs /\ Supported(f) /\ AllocsOK(f, as)
    /\ i \in Nat /\ ins = Instr(f, b, i) /\ k \in 0..Len(as) /\ k + 1 \in 1..Len(as)
    /\ Rewrites(as, ins, b, i, c, k)

\* The loads stay right when nothing is loaded
LEMMA PreGrows ==
    ASSUME NEW f, NEW as, AllocsOK(f, as), NEW b, NEW i, NEW c, NEW d, NEW k \in 0..Len(as), d.pre = c.pre,
           PreOK(as, b, i, c, k)
    PROVE  PreOK(as, b, i, d, k + 1)
BY AllocNumbers DEF PreOK

\* and the stores when nothing is stored.
LEMMA PostGrows ==
    ASSUME NEW f, NEW as, AllocsOK(f, as), NEW b, NEW i, NEW c, NEW d, NEW k \in 0..Len(as), d.post = c.post,
           PostOK(as, b, i, c, k)
    PROVE  PostOK(as, b, i, d, k + 1)
BY AllocNumbers DEF PostOK

\* An allocation that does not touch an instruction keeps it right.
LEMMA UntouchedStep ==
    ASSUME NEW f, NEW as, NEW ins, NEW b, NEW i, NEW c, NEW k, Ready(f, as, ins, b, i, c, k),
           ~ Touched(as[k + 1].bundle, b, i)
    PROVE  Rewrites(as, ins, b, i, c, k + 1)
<1> USE DEF Ready
<1>1. \A n \in 1..2 : ~ HoldsAt(as[k + 1].bundle, ins.args[n], b, i)
  BY DEF HoldsAt, Touched
<1>2. Undisturbed(as, b, i, c, c, k)
  BY DEF Undisturbed
<1>3. ASSUME NEW n \in 1..2 PROVE ArgOK(as, ins, b, i, c, k + 1, n)
  BY <1>1, <1>2, ArgStays DEF Rewrites
<1> QED
  BY <1>3, PreGrows, PostGrows DEF Rewrites

\* So does one of a register that was not spilled: it renames.
LEMMA WholeStep ==
    ASSUME NEW f, NEW as, NEW ins, NEW b, NEW i, NEW c, NEW k, Ready(f, as, ins, b, i, c, k),
           SlotOf(as[k + 1].bundle) = NoSlot
    PROVE  Rewrites(as, ins, b, i, Renamed(c, b, i, as[k + 1]), k + 1)
<1> DEFINE al == as[k + 1]
           d == Renamed(c, b, i, al)
<1>0. /\ f \in Funcs /\ Supported(f) /\ AllocsOK(f, as)
      /\ i \in Nat /\ ins = Instr(f, b, i) /\ k \in 0..Len(as) /\ k + 1 \in 1..Len(as)
      /\ Rewrites(as, ins, b, i, c, k)
  BY DEF Ready
<1>1. al.reg \in PRegs /\ al.bundle.src = NoSlot /\ al.bundle.dst = NoSlot
  BY <1>0 DEF AllocsOK, SlotOf, NoSlot
<1>2. /\ Typed(d, ins.op) /\ d.pre = c.pre /\ d.post = c.post
      /\ \A n \in 1..2 : d.ins.args[n] = IF HoldsAt(al.bundle, c.ins.args[n], b, i) THEN al.reg ELSE c.ins.args[n]
  <2>1. Typed(c, ins.op)
    BY <1>0 DEF Rewrites
  <2> HIDE DEF al
  <2> QED
    BY <1>1, <2>1, RenameEffect
<1> HIDE DEF d
<1>3. Undisturbed(as, b, i, c, d, k)
  BY <1>2 DEF Undisturbed
<1>4. ASSUME NEW n \in 1..2 PROVE ArgOK(as, ins, b, i, d, k + 1, n)
  <2>0. ArgOK(as, ins, b, i, c, k, n)
    BY <1>0 DEF Rewrites
  <2>1. CASE HoldsAt(al.bundle, c.ins.args[n], b, i)
    <3>1. ArgFree(as, ins.args[n], c.ins.args[n], b, i, k)
      BY <1>0, <2>0, <2>1, StillNamed
    <3>2. c.ins.args[n] = ins.args[n]
      BY <3>1 DEF ArgFree
    <3>3. k + 1 \in 1..(k + 1)
      BY <1>0, AllocNumbers
    <3>4. ArgInReg(as, ins.args[n], d.ins.args[n], b, i, k + 1, d)
      BY <1>1, <1>2, <2>1, <3>2, <3>3 DEF ArgInReg
    <3> QED
      BY <3>4 DEF ArgOK
  <2>2. CASE ~ HoldsAt(al.bundle, c.ins.args[n], b, i)
    <3>1. d.ins.args[n] = c.ins.args[n]
      BY <1>2, <2>2
    <3>2. c.ins.args[n] = ins.args[n] => ~ HoldsAt(as[k + 1].bundle, ins.args[n], b, i)
      BY <2>2
    <3> HIDE DEF al
    <3> QED
      BY <1>0, <1>2, <1>3, <2>0, <3>1, <3>2, ArgStays
  <2> QED
    BY <2>1, <2>2
<1>5. PreOK(as, b, i, d, k + 1)
  BY <1>0, <1>2, PreGrows DEF Rewrites
<1>6. PostOK(as, b, i, d, k + 1)
  BY <1>0, <1>2, PostGrows DEF Rewrites
<1> QED
  BY <1>0, <1>2, <1>4, <1>5, <1>6 DEF Rewrites, d

\* The allocation of a bundle that was made by spilling.
LEMMA PartStep ==
    ASSUME NEW f, NEW as, NEW ins, NEW b, NEW i, NEW c, NEW k, Ready(f, as, ins, b, i, c, k),
           SlotOf(as[k + 1].bundle) # NoSlot, Touched(as[k + 1].bundle, b, i)
    PROVE  Rewrites(as, ins, b, i, ApplyAlloc(c, b, i, as[k + 1]), k + 1)
<1> DEFINE m == k + 1
           al == as[m]
           bn == al.bundle
<1>0. /\ f \in Funcs /\ Supported(f) /\ AllocsOK(f, as)
      /\ i \in Nat /\ ins = Instr(f, b, i) /\ k \in 0..Len(as) /\ m \in 1..Len(as)
      /\ Rewrites(as, ins, b, i, c, k)
  BY DEF Ready
<1>1. PICK kk \in 1..2 : PartFits(f, as, m, b, i, kk)
  BY <1>0, PartUse
<1> DEFINE x == ins.args[kk]
           slot == SlotOf(bn)
<1>2. /\ ins.op \in {"mov", "sub", "cmp"} /\ ~ Self(ins) /\ x \in VRegs
      /\ (\A s \in bn.segs : s.reg = x) /\ HoldsAt(bn, x, b, i)
      /\ bn.src \in {NoSlot, slot} /\ bn.dst \in {NoSlot, slot} /\ slot \in Slots
      /\ bn.src = NoSlot <=> (kk = 1 /\ ins.op = "mov")
      /\ bn.dst = NoSlot <=> (kk = 2 \/ ins.op = "cmp")
      /\ ins.args[1] = ins.args[2] => ins.op = "cmp"
  BY <1>0, <1>1 DEF PartFits
<1>3. /\ \A j \in 1..Len(as) : (SlotOf(as[j].bundle) # NoSlot /\ Touched(as[j].bundle, b, i) /\ j # m) =>
             ~ HoldsAt(as[j].bundle, x, b, i) \/ ins.op = "cmp"
      /\ \A j \in 1..Len(as) : (as[j].bundle.dst # NoSlot /\ Touched(as[j].bundle, b, i) /\ j # m) => bn.dst = NoSlot
  BY <1>0, <1>1 DEF PartFits
<1>4. /\ al.reg \in PRegs /\ Len(as) \in Nat /\ k \in Nat /\ m \in 1..(k + 1)
      /\ \A j \in 1..k : j \in 1..Len(as) /\ j # m
  <2>1. al.reg \in PRegs
    BY <1>0 DEF AllocsOK
  <2>2. Len(as) \in Nat /\ k \in Nat /\ \A j \in 1..k : j \in 1..Len(as)
    BY <1>0, AllocNumbers
  <2>3. \A j \in 1..k : j # k + 1
    BY <2>2
  <2>4. k + 1 \in 1..(k + 1)
    BY <2>2
  <2> QED
    BY <2>1, <2>2, <2>3, <2>4
<1>5. /\ Typed(c, ins.op) /\ (\A n \in 1..2 : ArgOK(as, ins, b, i, c, k, n))
      /\ PreOK(as, b, i, c, k) /\ PostOK(as, b, i, c, k)
  BY <1>0 DEF Rewrites
<1>6. Touched(bn, b, i) /\ slot # NoSlot
  OBVIOUS
<1> HIDE DEF bn, al, m
<1>7. \A n \in 1..2 : HoldsAt(bn, c.ins.args[n], b, i) => c.ins.args[n] = ins.args[n] /\ c.ins.args[n] = x
  <2>1. SUFFICES ASSUME NEW n \in 1..2, HoldsAt(bn, c.ins.args[n], b, i)
                 PROVE  c.ins.args[n] = ins.args[n] /\ c.ins.args[n] = x
    OBVIOUS
  <2>2. ArgFree(as, ins.args[n], c.ins.args[n], b, i, k)
    BY <1>0, <1>5, <2>1, StillNamed DEF bn, al
  <2> QED
    BY <1>2, <2>1, <2>2 DEF ArgFree, HoldsAt
<1>8. ins.op # "cmp" => c.ins.args[kk] = x /\ \A n \in 1..2 : n # kk => ~ HoldsAt(bn, c.ins.args[n], b, i)
  <2>1. SUFFICES ASSUME ins.op # "cmp" PROVE c.ins.args[kk] = x
    BY <1>2, <1>7
  <2>2. ASSUME NEW j \in 1..k PROVE ~ HoldsAt(as[j].bundle, x, b, i)
    <3>1. SUFFICES ASSUME HoldsAt(as[j].bundle, x, b, i) PROVE FALSE
      OBVIOUS
    <3>2. SlotOf(as[j].bundle) = slot /\ Touched(as[j].bundle, b, i)
      <4>1. j \in 1..Len(as) /\ m \in 1..Len(as) /\ AllocsOK(f, as)
        BY <1>0, <1>4 DEF m
      <4>2. HoldsAt(as[m].bundle, x, b, i)
        BY <1>2 DEF bn, al
      <4>3. SlotOf(as[j].bundle) = SlotOf(as[m].bundle)
        BY <3>1, <4>1, <4>2, HeldTwice
      <4>4. Touched(as[j].bundle, b, i)
        BY <3>1, <4>1, HeldIsVirtual
      <4> QED
        BY <4>3, <4>4 DEF bn, al
    <3> QED
      BY <1>3, <1>4, <1>6, <2>1, <3>1, <3>2
  <2>3. ArgOK(as, ins, b, i, c, k, kk)
    BY <1>5
  <2> QED
    BY <2>2, <2>3 DEF ArgOK, ArgFree, ArgInReg, ArgInSlot
<1>9. bn.dst # NoSlot => c.post = <<>> /\ \A j \in 1..k : ~ (Touched(as[j].bundle, b, i) /\ as[j].bundle.dst # NoSlot)
  BY <1>3, <1>4, <1>5 DEF PostOK
<1>10. IsMemoryOperandAllowed(c.ins) => ins.op = "mov"
  BY <1>2, <1>5 DEF IsMemoryOperandAllowed, Typed
<1>11. \A s \in Slots : ~ HoldsAt(bn, s, b, i)
  BY <1>2, PlacesApart DEF HoldsAt, Regs
<1> DEFINE d == ApplyAlloc(c, b, i, al)
           named == Renamed(IF bn.src # NoSlot THEN InsertLoad(c, al.reg, bn.src) ELSE c, b, i, al)
<1>13. d = IF bn.dst # NoSlot THEN InsertStore(named, al.reg, bn.dst) ELSE named
  BY <1>6, ApplyIs DEF bn
<1>14. ASSUME NEW e, Typed(e, ins.op)
       PROVE  LET r == Renamed(e, b, i, al)
              IN  /\ Typed(r, ins.op) /\ r.pre = e.pre /\ r.post = e.post
                  /\ \A n \in 1..2 : r.ins.args[n] = IF HoldsAt(bn, e.ins.args[n], b, i) THEN al.reg ELSE e.ins.args[n]
  BY <1>4, <1>14, RenameEffect DEF bn
<1>15. CASE bn.src # NoSlot /\ IsMemoryOperandAllowed(c.ins)
  <2>1. ins.op = "mov" /\ kk = 2 /\ bn.dst = NoSlot /\ bn.src = slot
    BY <1>2, <1>10, <1>15
  <2> DEFINE loaded == InsertLoad(c, al.reg, bn.src)
  <2>2. /\ Typed(loaded, ins.op) /\ loaded.pre = c.pre /\ loaded.post = c.post
        /\ loaded.ins.args[1] = c.ins.args[1] /\ loaded.ins.args[2] = slot
    BY <1>2, <1>4, <1>5, <1>15, <2>1, LoadEffect
  <2>3. d = Renamed(loaded, b, i, al)
    BY <1>13, <1>15, <2>1
  <2> HIDE DEF loaded, d
  <2>4. /\ Typed(d, ins.op) /\ d.pre = c.pre /\ d.post = c.post
        /\ d.ins.args[2] = slot /\ d.ins.args[1] = c.ins.args[1]
    BY <1>2, <1>8, <1>11, <1>14, <2>1, <2>2, <2>3
  <2>5. ASSUME NEW n \in 1..2, n = kk PROVE ArgOK(as, ins, b, i, d, k + 1, n)
    <3>1. ArgInSlot(as, ins.args[n], d.ins.args[n], b, i, k + 1)
      BY <1>2, <1>4, <1>6, <2>1, <2>4, <2>5 DEF ArgInSlot, bn, al
    <3>2. n # 1
      BY <2>1, <2>5
    <3> QED
      BY <2>1, <3>1, <3>2 DEF ArgOK
  <2>6. ASSUME NEW n \in 1..2, n # kk PROVE ArgOK(as, ins, b, i, d, k + 1, n)
    <3>1. Undisturbed(as, b, i, c, d, k)
      BY <2>4 DEF Undisturbed
    <3>2. c.ins.args[n] = ins.args[n] => ~ HoldsAt(as[k + 1].bundle, ins.args[n], b, i)
      BY <1>8, <2>1, <2>6 DEF bn, al, m
    <3>3. k + 1 \in 1..Len(as) /\ ArgOK(as, ins, b, i, c, k, n)
      BY <1>0, <1>5 DEF m
    <3>4. d.ins.args[n] = c.ins.args[n] /\ d.post = c.post
      BY <2>1, <2>4, <2>6
    <3> QED
      BY <1>0, <3>1, <3>2, <3>3, <3>4, ArgStays
  <2>7. PreOK(as, b, i, d, k + 1) /\ PostOK(as, b, i, d, k + 1)
    BY <1>0, <1>5, <2>4, PreGrows, PostGrows
  <2>8. \A n \in 1..2 : ArgOK(as, ins, b, i, d, k + 1, n)
    BY <2>5, <2>6
  <2> QED
    BY <1>2, <2>4, <2>7, <2>8 DEF Rewrites, d, al, m
<1>16. CASE bn.src # NoSlot /\ ~ IsMemoryOperandAllowed(c.ins)
  <2> DEFINE loaded == InsertLoad(c, al.reg, bn.src)
  <2>1. /\ Typed(loaded, ins.op) /\ loaded.pre = Append(c.pre, LoadOf(al)) /\ loaded.post = c.post /\ loaded.ins = c.ins
    BY <1>2, <1>4, <1>5, <1>16, LoadEffect DEF LoadOf, bn
  <2>2. named = Renamed(loaded, b, i, al)
    BY <1>16
  <2> HIDE DEF loaded, named, d
  <2>3. /\ Typed(named, ins.op) /\ named.pre = Append(c.pre, LoadOf(al)) /\ named.post = c.post
        /\ \A n \in 1..2 : named.ins.args[n] = IF HoldsAt(bn, c.ins.args[n], b, i) THEN al.reg ELSE c.ins.args[n]
    BY <1>14, <2>1, <2>2
  <2>4. /\ Typed(d, ins.op) /\ d.pre = named.pre /\ d.ins = named.ins
        /\ bn.dst = NoSlot => d.post = c.post
        /\ bn.dst # NoSlot => d.post = <<StoreOf(al)>>
    <3>1. CASE bn.dst = NoSlot
      BY <1>13, <2>3, <3>1
    <3>2. CASE bn.dst # NoSlot
      <4>1. kk = 1 /\ ins.op = "sub" /\ bn.dst \in Slots
        BY <1>2, <1>16, <3>2
      <4>2. ~ IsMemoryOperandAllowed(named.ins)
        BY <2>3, <4>1 DEF Typed, IsMemoryOperandAllowed
      <4>3. d = InsertStore(named, al.reg, bn.dst)
        BY <1>13, <3>2
      <4>4. /\ Typed(d, ins.op) /\ d.pre = named.pre /\ d.ins = named.ins
            /\ named.post = <<>> => d.post = <<Mov(bn.dst, al.reg)>>
        BY <1>4, <2>3, <4>1, <4>2, <4>3, StoreEffect
      <4>5. StoreOf(al) = Mov(bn.dst, al.reg)
        BY DEF StoreOf, bn
      <4> QED
        BY <1>9, <2>3, <3>2, <4>4, <4>5
    <3> QED
      BY <3>1, <3>2
  <2>5. /\ Len(c.pre) \in Nat /\ Len(d.pre) = Len(c.pre) + 1
        /\ d.pre[Len(d.pre)] = LoadOf(al) /\ \A e \in 1..Len(c.pre) : d.pre[e] = c.pre[e]
        /\ \A e \in 1..Len(d.pre) : e \in 1..Len(c.pre) \/ e = Len(d.pre)
    <3>1. c.pre \in Seq(Moves) /\ d.pre = Append(c.pre, LoadOf(al))
      BY <1>5, <2>3, <2>4 DEF Typed
    <3> QED
      BY <3>1
  <2>6. Undisturbed(as, b, i, c, d, k)
    <3>1. \A e \in 1..Len(c.pre) : e \in 1..Len(d.pre)
      BY <2>5
    <3> QED
      BY <1>9, <2>4, <2>5, <3>1 DEF Undisturbed
  <2>7. ASSUME NEW n \in 1..2 PROVE ArgOK(as, ins, b, i, d, k + 1, n)
    <3>1. CASE HoldsAt(bn, c.ins.args[n], b, i)
      <4>1. d.ins.args[n] = al.reg /\ c.ins.args[n] = ins.args[n]
        BY <1>7, <2>3, <2>4, <3>1
      <4>2. Len(d.pre) \in 1..Len(d.pre)
        BY <2>5
      <4>3. ArgInReg(as, ins.args[n], d.ins.args[n], b, i, k + 1, d)
        BY <1>4, <2>4, <2>5, <3>1, <4>1, <4>2 DEF ArgInReg, bn, al
      <4> QED
        BY <4>3 DEF ArgOK
    <3>2. CASE ~ HoldsAt(bn, c.ins.args[n], b, i)
      <4>1. d.ins.args[n] = c.ins.args[n]
        BY <2>3, <2>4, <3>2
      <4>2. c.ins.args[n] = ins.args[n] => ~ HoldsAt(as[k + 1].bundle, ins.args[n], b, i)
        BY <3>2 DEF bn, al, m
      <4>3. k + 1 \in 1..Len(as) /\ ArgOK(as, ins, b, i, c, k, n)
        BY <1>0, <1>5 DEF m
      <4>4. (ins.op = "mov" /\ n = 1) => d.post = c.post
        BY <1>2, <1>16, <2>4
      <4> QED
        BY <1>0, <2>6, <4>1, <4>2, <4>3, <4>4, ArgStays
    <3> QED
      BY <3>1, <3>2
  <2>8. PreOK(as, b, i, d, k + 1)
    <3>1. ASSUME NEW e \in 1..Len(d.pre)
          PROVE  \E j \in 1..(k + 1) : Touched(as[j].bundle, b, i) /\ as[j].bundle.src # NoSlot /\ d.pre[e] = LoadOf(as[j])
      <4>1. CASE e = Len(d.pre)
        BY <1>4, <1>6, <1>16, <2>5, <4>1 DEF bn, al
      <4>2. CASE e \in 1..Len(c.pre)
        <5>1. \E j \in 1..k : Touched(as[j].bundle, b, i) /\ as[j].bundle.src # NoSlot /\ c.pre[e] = LoadOf(as[j])
          BY <1>5, <4>2 DEF PreOK
        <5>2. \A j \in 1..k : j \in 1..(k + 1)
          BY <1>4
        <5> QED
          BY <2>5, <4>2, <5>1, <5>2
      <4> QED
        BY <2>5, <4>1, <4>2
    <3>2. ASSUME NEW e \in 1..Len(c.pre) PROVE c.pre[e].args[1] # LoadOf(al).args[1]
      <4>1. PICK j \in 1..k : Touched(as[j].bundle, b, i) /\ as[j].bundle.src # NoSlot /\ c.pre[e] = LoadOf(as[j])
        BY <1>5 DEF PreOK
      <4>2. as[j].reg # al.reg
        BY <1>0, <1>4, <1>6, <1>16, <4>1, TargetsDiffer DEF bn, al
      <4>3. LoadOf(as[j]).args[1] = as[j].reg /\ LoadOf(al).args[1] = al.reg
        BY DEF LoadOf, Mov
      <4> QED
        BY <4>1, <4>2, <4>3
    <3>3. ASSUME NEW e \in 1..Len(d.pre), NEW h \in 1..Len(d.pre), e # h PROVE d.pre[e].args[1] # d.pre[h].args[1]
      <4>1. CASE e \in 1..Len(c.pre) /\ h \in 1..Len(c.pre)
        BY <1>5, <2>5, <3>3, <4>1 DEF PreOK
      <4>2. CASE e = Len(d.pre) \/ h = Len(d.pre)
        BY <2>5, <3>2, <3>3, <4>2
      <4> QED
        BY <2>5, <4>1, <4>2
    <3> QED
      BY <3>1, <3>3 DEF PreOK
  <2>9. PostOK(as, b, i, d, k + 1)
    <3>1. CASE bn.dst = NoSlot
      BY <1>0, <1>5, <2>4, <3>1, PostGrows
    <3>2. CASE bn.dst # NoSlot
      BY <1>4, <1>6, <2>4, <3>2 DEF PostOK, bn, al
    <3> QED
      BY <3>1, <3>2
  <2> QED
    BY <1>2, <2>4, <2>7, <2>8, <2>9 DEF Rewrites, d, al, m
<1>17. CASE bn.src = NoSlot
  <2>1. ins.op = "mov" /\ kk = 1 /\ bn.dst = slot /\ bn.dst # NoSlot
    BY <1>2, <1>17
  <2>2. named = Renamed(c, b, i, al) /\ d = InsertStore(named, al.reg, slot)
    BY <1>13, <1>17, <2>1
  <2> HIDE DEF named, d
  <2>3. /\ Typed(named, ins.op) /\ named.pre = c.pre /\ named.post = <<>> /\ c.post = <<>>
        /\ named.ins.args[1] = al.reg /\ named.ins.args[2] = c.ins.args[2]
    BY <1>2, <1>5, <1>8, <1>9, <1>14, <2>1, <2>2
  <2>4. /\ Typed(d, ins.op) /\ d.pre = c.pre /\ d.ins.args[2] = c.ins.args[2]
        /\ \/ d.ins.args[1] = slot /\ d.post = <<>>
           \/ d.ins.args[1] = al.reg /\ d.post = <<StoreOf(al)>>
    BY <1>2, <1>4, <2>1, <2>2, <2>3, StoreEffect DEF StoreOf, bn
  <2>5. ASSUME NEW n \in 1..2, n = kk PROVE ArgOK(as, ins, b, i, d, k + 1, n)
    <3>0. n = 1
      BY <2>1, <2>5
    <3>1. CASE d.ins.args[1] = slot /\ d.post = <<>>
      <4>1. ArgInSlot(as, ins.args[n], d.ins.args[n], b, i, k + 1)
        BY <1>2, <1>4, <1>6, <2>1, <2>5, <3>0, <3>1 DEF ArgInSlot, bn, al
      <4> QED
        BY <2>1, <3>1, <4>1 DEF ArgOK
    <3>2. CASE d.ins.args[1] = al.reg /\ d.post = <<StoreOf(al)>>
      <4>1. ArgInReg(as, ins.args[n], d.ins.args[n], b, i, k + 1, d)
        BY <1>2, <1>4, <1>17, <2>1, <2>5, <3>0, <3>2 DEF ArgInReg, bn, al
      <4> QED
        BY <4>1 DEF ArgOK
    <3> QED
      BY <2>4, <3>1, <3>2
  <2>6. ASSUME NEW n \in 1..2, n # kk PROVE ArgOK(as, ins, b, i, d, k + 1, n)
    <3>1. Undisturbed(as, b, i, c, d, k)
      BY <1>9, <2>1, <2>4 DEF Undisturbed
    <3>2. c.ins.args[n] = ins.args[n] => ~ HoldsAt(as[k + 1].bundle, ins.args[n], b, i)
      BY <1>8, <2>1, <2>6 DEF bn, al, m
    <3>3. k + 1 \in 1..Len(as) /\ ArgOK(as, ins, b, i, c, k, n)
      BY <1>0, <1>5 DEF m
    <3>4. d.ins.args[n] = c.ins.args[n] /\ n # 1
      BY <2>1, <2>4, <2>6
    <3> QED
      BY <1>0, <3>1, <3>2, <3>3, <3>4, ArgStays
  <2>7. PreOK(as, b, i, d, k + 1)
    BY <1>0, <1>5, <2>4, PreGrows
  <2>8. PostOK(as, b, i, d, k + 1)
    BY <1>4, <1>6, <2>1, <2>4 DEF PostOK, bn, al
  <2>9. \A n \in 1..2 : ArgOK(as, ins, b, i, d, k + 1, n)
    BY <2>5, <2>6
  <2> QED
    BY <1>2, <2>4, <2>7, <2>8, <2>9 DEF Rewrites, d, al, m
<1> QED
  BY <1>15, <1>16, <1>17

\* Before anything is applied, an instruction is right.
LEMMA InsStart ==
    ASSUME NEW f, Supported(f), NEW as, NEW b \in Blocks(f), NEW i \in Instrs(f, b)
    PROVE  InsOK(as, Instr(f, b, i), b, i, Rewritten(Instr(f, b, i)), 0)
<1> DEFINE ins == Instr(f, b, i)
           c == Rewritten(ins)
<1>1. /\ ins.op \in {"mov", "sub", "cmp", "call", "jmp"}
      /\ ins.op \in Arity2 => ins \in [op : Arity2, args : [1..2 -> Regs \union {Imm}]]
      /\ ins.op \in {"mov", "sub"} => ins.args[1] \in Regs
  BY SupportedInstr
<1> SUFFICES InsOK(as, ins, b, i, c, 0)
  OBVIOUS
<1> HIDE DEF ins
<1>2. CASE ins.op \notin Arity2
  BY <1>2 DEF InsOK
<1>3. CASE Self(ins)
  <2> DEFINE a == ins.args[1]
  <2>1. a \in Regs /\ ins.op = "mov" /\ ins.args \in [1..2 -> Regs \union {Imm}] /\ ins.args[2] = a
        /\ ins = [op |-> ins.op, args |-> ins.args]
    BY <1>1, <1>3 DEF Self, Arity2
  <2>2. ins.args = <<a, a>>
    <3>1. \A n \in 1..2 : ins.args[n] = a
      BY <2>1
    <3>2. <<a, a>> \in [1..2 -> Regs \union {Imm}] /\ \A n \in 1..2 : <<a, a>>[n] = a
      BY <2>1
    <3> HIDE DEF a
    <3>3. \A u, w \in [1..2 -> Regs \union {Imm}] : (\A n \in 1..2 : u[n] = w[n]) => u = w
      OBVIOUS
    <3> QED
      BY <2>1, <3>1, <3>2, <3>3
  <2>3. ins = Mov(a, a)
    BY <2>1, <2>2 DEF Mov
  <2> QED
    BY <1>3, <2>1, <2>3 DEF InsOK
<1>4. CASE ins.op \in Arity2 /\ ~ Self(ins)
  <2>1. ins \in [op : {ins.op}, args : [1..2 -> Places \union {Imm}]] /\ ins.op \in {"mov", "sub", "cmp"}
    BY <1>1, <1>4 DEF Arity2, Places
  <2>2. Typed(c, ins.op) /\ c.pre = <<>> /\ c.post = <<>> /\ c.ins = ins
    BY <2>1 DEF Typed, Rewritten
  <2> HIDE DEF c
  <2>3. ASSUME NEW n \in 1..2 PROVE ArgOK(as, ins, b, i, c, 0, n)
    BY <2>2 DEF ArgOK, ArgFree
  <2>4. PreOK(as, b, i, c, 0) /\ PostOK(as, b, i, c, 0)
    BY <2>2 DEF PreOK, PostOK
  <2> QED
    BY <1>4, <2>1, <2>2, <2>3, <2>4 DEF InsOK, Rewrites, c
<1> QED
  BY <1>2, <1>3, <1>4

\* apply_alloc keeps an instruction right.
LEMMA InsStep ==
    ASSUME NEW f \in Funcs, Supported(f), NEW as, AllocsOK(f, as), NEW b \in Blocks(f), NEW i \in Instrs(f, b),
           NEW k \in 0..Len(as), k + 1 \in 1..Len(as), NEW c, InsOK(as, Instr(f, b, i), b, i, c, k)
    PROVE  InsOK(as, Instr(f, b, i), b, i, ApplyAlloc(c, b, i, as[k + 1]), k + 1)
<1> DEFINE ins == Instr(f, b, i)
           al == as[k + 1]
           bn == al.bundle
           d == ApplyAlloc(c, b, i, al)
<1>1. i \in Nat
  BY DEF Instrs
<1>2. /\ ~ Touched(bn, b, i) => d = c
      /\ (Touched(bn, b, i) /\ SlotOf(bn) = NoSlot) => d = Renamed(c, b, i, al)
  <2>1. SlotOf(bn) = NoSlot => bn.src = NoSlot /\ bn.dst = NoSlot
    BY DEF SlotOf
  <2> HIDE DEF al
  <2>2. ~ Touched(bn, b, i) => d = c
    BY ApplyIs
  <2>3. ASSUME Touched(bn, b, i), bn.src = NoSlot, bn.dst = NoSlot PROVE d = Renamed(c, b, i, al)
    BY <2>3, ApplyIs
  <2> QED
    BY <2>1, <2>2, <2>3
<1>3. (Touched(bn, b, i) /\ SlotOf(bn) # NoSlot) => ins.op \in {"mov", "sub", "cmp"} /\ ~ Self(ins)
  <2>1. SUFFICES ASSUME Touched(bn, b, i), SlotOf(bn) # NoSlot PROVE ins.op \in {"mov", "sub", "cmp"} /\ ~ Self(ins)
    OBVIOUS
  <2>2. PICK kk \in 1..2 : PartFits(f, as, k + 1, b, i, kk)
    BY <1>1, <2>1, PartUse
  <2> QED
    BY <2>2 DEF PartFits
<1>4. al.reg \in PRegs
  BY DEF AllocsOK
<1>5. CASE ins.op \notin Arity2 /\ c = Rewritten(ins)
  <2>1. ins \in {Call, Jmp}
    BY <1>5, SupportedInstr
  <2>2. Renamed(c, b, i, al) = c
    <3>1. c.ins.args = <<>> /\ c = [pre |-> <<>>, ins |-> ins, post |-> <<>>] /\ ins = [op |-> ins.op, args |-> <<>>]
      BY <1>5, <2>1 DEF Rewritten, Call, Jmp
    <3> DEFINE new == [n \in DOMAIN c.ins.args |-> IF HoldsAt(al.bundle, c.ins.args[n], b, i) THEN al.reg ELSE c.ins.args[n]]
    <3>2. new = <<>>
      BY <3>1
    <3>3. Renamed(c, b, i, al) = [c EXCEPT !.ins.args = new]
      BY DEF Renamed
    <3> HIDE DEF new, ins
    <3>4. [c EXCEPT !.ins.args = <<>>] = c
      BY <3>1
    <3> QED
      BY <3>2, <3>3, <3>4
  <2>3. d = c
    BY <1>2, <1>3, <1>5, <2>2 DEF Arity2
  <2> QED
    BY <1>5, <2>3 DEF InsOK
<1>6. CASE Self(ins) /\ \E a \in Regs : c = Rewritten(Mov(a, a))
  <2>1. PICK a \in Regs : c = Rewritten(Mov(a, a))
    BY <1>6
  <2> DEFINE a2 == IF HoldsAt(bn, a, b, i) THEN al.reg ELSE a
  <2>2. a2 \in Regs
    BY <1>4 DEF Regs
  <2>3. Renamed(c, b, i, al) = Rewritten(Mov(a2, a2))
    <3>1. c.ins.args = <<a, a>> /\ c = [pre |-> <<>>, ins |-> [op |-> "mov", args |-> <<a, a>>], post |-> <<>>]
      BY <2>1 DEF Rewritten, Mov
    <3> DEFINE new == [n \in DOMAIN c.ins.args |-> IF HoldsAt(al.bundle, c.ins.args[n], b, i) THEN al.reg ELSE c.ins.args[n]]
    <3>2. new = <<a2, a2>>
      <4>1. DOMAIN c.ins.args = 1..2 /\ \A n \in 1..2 : c.ins.args[n] = a
        BY <3>1
      <4>2. new = [n \in 1..2 |-> a2]
        BY <4>1
      <4> HIDE DEF a2, new
      <4> QED
        BY <4>2
    <3>3. Renamed(c, b, i, al) = [c EXCEPT !.ins.args = new]
      BY DEF Renamed
    <3> HIDE DEF new, a2
    <3>4. [c EXCEPT !.ins.args = <<a2, a2>>] = [pre |-> <<>>, ins |-> [op |-> "mov", args |-> <<a2, a2>>], post |-> <<>>]
      BY <3>1
    <3> QED
      BY <3>2, <3>3, <3>4 DEF Rewritten, Mov
  <2> HIDE DEF a2
  <2>4. \E x \in Regs : d = Rewritten(Mov(x, x))
    BY <1>2, <1>3, <1>6, <2>1, <2>2, <2>3
  <2> QED
    BY <1>6, <2>4 DEF InsOK
<1>7. CASE Rewrites(as, ins, b, i, c, k)
  <2>1. Ready(f, as, ins, b, i, c, k)
    BY <1>1, <1>7 DEF Ready
  <2>2. CASE ~ Touched(bn, b, i)
    BY <1>2, <2>1, <2>2, UntouchedStep DEF InsOK
  <2>3. CASE Touched(bn, b, i) /\ SlotOf(bn) = NoSlot
    BY <1>2, <2>1, <2>3, WholeStep DEF InsOK
  <2>4. CASE Touched(bn, b, i) /\ SlotOf(bn) # NoSlot
    BY <2>1, <2>4, PartStep DEF InsOK
  <2> QED
    BY <2>2, <2>3, <2>4
<1> QED
  BY <1>5, <1>6, <1>7 DEF InsOK

-----------------------------------------------------------------------------
(* The code after the allocations that were applied so far.                 *)

CodeOK ==
    /\ phase \in {"coalesce", "alloc"} => applied = 0 /\ code = Original
    /\ phase = "apply" => \A b \in Blocks(func) : \A i \in Instrs(func, b) :
         InsOK(allocs, Instr(func, b, i), b, i, code[b][i], applied)
    /\ phase = "done" => \A b \in Blocks(func) : \A i \in Instrs(func, b) : \E c :
         /\ InsOK(allocs, Instr(func, b, i), b, i, c, Len(allocs))
         /\ code[b][i] = [c EXCEPT !.ins = Kept(@)]

\* The code that the pass starts from is right.
LEMMA OriginalOK ==
    ASSUME Supported(func), code = Original, NEW as, NEW b \in Blocks(func), NEW i \in Instrs(func, b)
    PROVE  InsOK(as, Instr(func, b, i), b, i, code[b][i], 0)
<1>1. code[b][i] = Rewritten(Instr(func, b, i))
  BY DEF Original
<1> QED
  BY <1>1, InsStart

\* A step keeps CodeOK.
LEMMA CodeStep ==
    ASSUME IInv, PlacesOK, CodeOK, Supported(func), [Next]_vars
    PROVE  CodeOK'
<1>0. func' = func /\ func \in Funcs
  BY DEF Next, TryCoalesce, FillQueue, Assign, Evict, Spill, Apply, RemoveUseless, vars, IInv, TypeOK
<1>1. CASE TryCoalesce \/ FillQueue \/ Assign \/ Evict \/ Spill
  <2>1. phase \in {"coalesce", "alloc"} /\ phase' \in {"coalesce", "alloc"} /\ applied' = applied /\ code' = code
    BY <1>1 DEF TryCoalesce, FillQueue, Assign, Evict, Spill
  <2>2. Original' = Original
    BY <1>0 DEF Original
  <2> QED
    BY <2>1, <2>2 DEF CodeOK
<1>2. CASE Apply
  <2>1. /\ phase' = "apply" /\ applied' = applied + 1 /\ allocs' = allocs /\ queue = {} /\ phase # "coalesce"
        /\ code' = [b \in Blocks(func) |-> [i \in Instrs(func, b) |->
                       ApplyAlloc(code[b][i], b, i, allocs[applied + 1])]]
    BY <1>2 DEF Apply, PlacesOK
  <2>2. AllocsOK(func, allocs)
    BY <2>1, AllocsReady
  <2>3. applied \in 0..Len(allocs) /\ applied + 1 \in 1..Len(allocs)
    <3>1. Len(allocs) \in Nat /\ applied \in 0..Len(allocs) /\ applied < Len(allocs)
      BY <1>2 DEF IInv, TypeOK, Apply
    <3> QED
      BY <3>1
  <2>4. ASSUME NEW b \in Blocks(func), NEW i \in Instrs(func, b)
        PROVE  InsOK(allocs, Instr(func, b, i), b, i, code[b][i], applied)
    <3>1. phase = "apply" \/ phase \in {"coalesce", "alloc"}
      BY <1>2 DEF Apply
    <3>2. CASE phase = "apply"
      BY <3>2 DEF CodeOK
    <3>3. CASE phase \in {"coalesce", "alloc"}
      <4>1. applied = 0 /\ code = Original
        BY <3>3 DEF CodeOK
      <4>2. InsOK(allocs, Instr(func, b, i), b, i, code[b][i], 0)
        BY <4>1, OriginalOK
      <4> QED
        BY <4>1, <4>2
    <3> QED
      BY <3>1, <3>2, <3>3
  <2>5. ASSUME NEW b \in Blocks(func), NEW i \in Instrs(func, b)
        PROVE  InsOK(allocs, Instr(func, b, i), b, i, code'[b][i], applied + 1)
    <3>1. code'[b][i] = ApplyAlloc(code[b][i], b, i, allocs[applied + 1])
      BY <2>1
    <3>2. InsOK(allocs, Instr(func, b, i), b, i, code[b][i], applied)
      BY <2>4
    <3> QED
      BY <1>0, <2>2, <2>3, <3>1, <3>2, InsStep
  <2> QED
    BY <1>0, <2>1, <2>5 DEF CodeOK
<1>3. CASE RemoveUseless
  <2>1. /\ phase' = "done" /\ applied = Len(allocs) /\ allocs' = allocs /\ phase \in {"alloc", "apply"}
        /\ code' = [b \in Blocks(func) |-> [i \in Instrs(func, b) |-> [code[b][i] EXCEPT !.ins = Kept(@)]]]
    BY <1>3 DEF RemoveUseless
  <2>2. ASSUME NEW b \in Blocks(func), NEW i \in Instrs(func, b)
        PROVE  /\ InsOK(allocs, Instr(func, b, i), b, i, code[b][i], Len(allocs))
               /\ code'[b][i] = [code[b][i] EXCEPT !.ins = Kept(@)]
    <3>1. code'[b][i] = [code[b][i] EXCEPT !.ins = Kept(@)]
      BY <2>1
    <3>2. CASE phase = "apply"
      BY <2>1, <3>1, <3>2 DEF CodeOK
    <3>3. CASE phase = "alloc"
      <4>1. applied = 0 /\ code = Original
        BY <3>3 DEF CodeOK
      <4>2. InsOK(allocs, Instr(func, b, i), b, i, code[b][i], 0)
        BY <4>1, OriginalOK
      <4> QED
        BY <2>1, <3>1, <4>1, <4>2
    <3> QED
      BY <2>1, <3>2, <3>3
  <2> QED
    BY <1>0, <2>1, <2>2 DEF CodeOK
<1>4. CASE UNCHANGED vars
  <2>1. Original' = Original
    BY <1>0 DEF Original
  <2> QED
    BY <1>4, <2>1 DEF vars, CodeOK
<1> QED
  BY <1>1, <1>2, <1>3, <1>4 DEF Next

\* The inductive invariant of the whole pass.
FInv == PlacesOK /\ CodeOK

\* Both invariants hold in every state, for functions that the allocator
\* supports and as long as there are registers for the spilled operands.
LEMMA FInvariance ==
    ASSUME \A f \in Funcs : Supported(f)
    PROVE  Spec /\ []EnoughRegisters => [](IInv /\ FInv)
<1>1. Init => FInv
  <2>1. Init => CodeOK
    BY DEF Init, CodeOK
  <2> QED
    BY <2>1, PlacesInit DEF FInv
<1>2. IInv /\ FInv /\ EnoughRegisters /\ [Next]_vars => FInv'
  <2>1. IInv => Supported(func)
    BY DEF IInv, TypeOK
  <2> QED
    BY <2>1, PlacesStep, CodeStep DEF FInv
<1> QED
  BY <1>1, <1>2, Invariance, PTL DEF Spec

\* No virtual register is left in the code.
LEMMA NoneIsLeft ==
    ASSUME IInv, FInv, Supported(func), phase = "done"
    PROVE  NoneLeft
<1>1. AllocsOK(func, allocs) /\ func \in Funcs
  BY AllocsReady DEF FInv, PlacesOK, IInv, TypeOK
<1>2. SUFFICES ASSUME NEW b \in Blocks(func), NEW i \in Instrs(func, b), NEW n \in 1..2,
                      code[b][i].ins.op \in Arity2
               PROVE  code[b][i].ins.args[n] \notin VRegs
  BY DEF NoneLeft
<1> DEFINE ins == Instr(func, b, i)
<1>3. PICK c : InsOK(allocs, ins, b, i, c, Len(allocs)) /\ code[b][i] = [c EXCEPT !.ins = Kept(@)]
  BY DEF FInv, CodeOK
<1> DEFINE k == Len(allocs)
<1>4. k \in 0..Len(allocs) /\ \A j \in 1..Len(allocs) : allocs[j].reg \in PRegs
  BY <1>1 DEF AllocsOK
<1>5. CASE ins.op \notin Arity2 /\ c = Rewritten(ins)
  <2>1. code[b][i].ins = Kept(ins)
    BY <1>3, <1>5 DEF Rewritten
  <2> QED
    BY <1>2, <1>5, <2>1 DEF Kept, Jmp, Arity2
<1>6. CASE Self(ins) /\ \E a \in Regs : c = Rewritten(Mov(a, a))
  <2>1. PICK a \in Regs : c = Rewritten(Mov(a, a))
    BY <1>6
  <2>2. code[b][i].ins = Kept(Mov(a, a))
    BY <1>3, <2>1 DEF Rewritten
  <2>3. Kept(Mov(a, a)) = Jmp
    BY DEF Kept, Mov
  <2> QED
    BY <1>2, <2>2, <2>3 DEF Jmp, Arity2
<1>7. CASE Rewrites(allocs, ins, b, i, c, k)
  <2>1. Typed(c, ins.op) /\ ins.op \in {"mov", "sub", "cmp"} /\ ~ Self(ins) /\ ArgOK(allocs, ins, b, i, c, k, n)
    BY <1>7 DEF Rewrites
  <2>2. code[b][i].ins = Kept(c.ins)
    BY <1>3, <2>1 DEF Typed
  <2>3. code[b][i].ins = c.ins
    BY <1>2, <2>2 DEF Kept, Jmp, Arity2
  <2> HIDE DEF ins, k
  <2>4. ArgFree(allocs, ins.args[n], c.ins.args[n], b, i, k) => ins.args[n] \notin VRegs
    <3>1. SUFFICES ASSUME ArgFree(allocs, ins.args[n], c.ins.args[n], b, i, k), ins.args[n] \in VRegs PROVE FALSE
      OBVIOUS
    <3> DEFINE o == [reg |-> ins.args[n], block |-> b, instr |-> i, k |-> n]
    <3>2. o \in VOps(func)
      BY <2>1, <3>1, OperandOf DEF ins, Arity2
    <3>3. o.reg = ins.args[n] /\ o.block = b /\ o.instr = i
      OBVIOUS
    <3> HIDE DEF o
    <3>4. PICK j \in 1..Len(allocs) : \E s \in allocs[j].bundle.segs : s.reg = o.reg /\ Encloses(s.range, RangeOf(func, o))
      BY <1>1, <3>2 DEF AllocsOK
    <3>5. HoldsAt(allocs[j].bundle, ins.args[n], b, i)
      <4>1. PICK s \in allocs[j].bundle.segs : s.reg = o.reg /\ Encloses(s.range, RangeOf(func, o))
        BY <3>4
      <4>2. s.range \in Ranges(func)
        BY <1>1, <4>1, SegmentType DEF AllocsOK
      <4>3. s.range.block = b /\ Touches(s.range, i)
        BY <3>2, <3>3, <4>1, <4>2, OperandType DEF Encloses, Touches, Ranges, UsePoint, DefPoint
      <4> QED
        BY <3>3, <4>1, <4>3 DEF HoldsAt
    <3> QED
      BY <3>1, <3>5 DEF ArgFree, k
  <2>5. ArgInReg(allocs, ins.args[n], c.ins.args[n], b, i, k, c) => c.ins.args[n] \in PRegs
    BY <1>4 DEF ArgInReg, k
  <2>6. ArgInSlot(allocs, ins.args[n], c.ins.args[n], b, i, k) => c.ins.args[n] \in Slots
    <3>1. SUFFICES ASSUME NEW j \in 1..Len(allocs), HoldsAt(allocs[j].bundle, ins.args[n], b, i),
                          SlotOf(allocs[j].bundle) # NoSlot
                   PROVE  SlotOf(allocs[j].bundle) \in Slots
      BY DEF ArgInSlot, k
    <3>2. i \in Nat /\ Touched(allocs[j].bundle, b, i)
      <4>1. Touched(allocs[j].bundle, b, i)
        BY <1>1, <3>1, HeldIsVirtual
      <4> QED
        BY <4>1 DEF Instrs
    <3>3. \E o \in VOps(func) : PartFor(func, allocs[j].bundle, o, b, i)
      BY <1>1, <3>1, <3>2, PartAt
    <3> QED
      BY <3>3 DEF PartFor
  <2>7. c.ins.args[n] \notin VRegs
    BY <2>1, <2>4, <2>5, <2>6, PlacesApart DEF ArgOK, ArgFree, Regs
  <2> QED
    BY <2>3, <2>7
<1> QED
  BY <1>3, <1>5, <1>6, <1>7 DEF InsOK

-----------------------------------------------------------------------------
(* The homes of the registers.                                              *)

Live(f, b, i, r) == NeededAt(f, b, i, r, LiveOuts(f)[b])
LiveOn(f, b, p, r) == p \in Needed(f, b, r, LiveOuts(f)[b])

\* A segment, of a bundle or of a reserved register, at point p of block b.
Around(s, b, p) ==
    /\ p \in Nat /\ s.range.start \in Nat /\ s.range.end \in Nat
    /\ s.range.block = b /\ s.range.start <= p /\ p <= s.range.end

\* Two segments around one point meet.
LEMMA AroundMeet ==
    ASSUME NEW s, NEW x, NEW b, NEW p, Around(s, b, p), Around(x, b, p)
    PROVE  Intersects(s.range, x.range)
  BY DEF Around, Intersects

\* A point at which a register is live is a number.
LEMMA PointType ==
    ASSUME NEW f, WellFormed(f), NEW b \in Blocks(f), NEW r, NEW p, LiveOn(f, b, p, r)
    PROVE  p \in Nat
<1>1. LastPoint(f, b) \in Int
  BY DEF WellFormed, LastPoint, DefPoint
<1> QED
  BY <1>1 DEF LiveOn, Needed

\* Where a register is live, one of its ranges lies around the point.
LEMMA RangeAround ==
    ASSUME NEW f \in Funcs, Supported(f), NEW b \in Blocks(f), NEW r \in Regs, NEW p, LiveOn(f, b, p, r)
    PROVE  LET rs == PreciseRanges(f, b, LiveIns(f)[b], LiveOuts(f)[b]).ranges[r]
           IN  \E x \in RangeSet(rs) \intersect Ranges(f) :
                  x.block = b /\ x.start <= p /\ p <= x.end
<1> DEFINE rs == PreciseRanges(f, b, LiveIns(f)[b], LiveOuts(f)[b]).ranges[r]
<1>1. WellFormed(f) /\ PlainCalls(f, b, LiveOuts(f)[b])
  BY FuncsAssumption DEF Supported
<1>2. p \in Needed(f, b, r, LiveOuts(f)[b])
  BY DEF LiveOn
<1>3. PICK j \in 1..Len(rs) :
          /\ rs[j] \in [block : {b}, start : Nat, end : Nat] /\ rs[j].start <= rs[j].end
          /\ rs[j].start <= p /\ p <= rs[j].end
  BY <1>1, <1>2, NeededInRange
<1> HIDE DEF rs
<1>4. rs[j] \in RangeSet(rs)
  BY DEF RangeSet
<1>5. rs[j] \in [block : Blocks(f), start : Nat, end : Nat] /\ rs[j].block = b
  BY <1>3
<1>6. rs[j] \in Ranges(f)
  BY <1>3, <1>5 DEF Ranges
<1> QED
  BY <1>3, <1>4, <1>5, <1>6 DEF rs

\* Where a virtual register is needed, it has a segment, ...
LEMMA NeededVirtual ==
    ASSUME NEW f \in Funcs, Supported(f), NEW b \in Blocks(f), NEW r \in VRegs, NEW p, LiveOn(f, b, p, r)
    PROVE  \E s \in SegmentsOf(f, r) : s.reg = r /\ Around(s, b, p)
<1> DEFINE an == PreciseRanges(f, b, LiveIns(f)[b], LiveOuts(f)[b])
           rs == an.ranges[r]
<1>1. p \in Nat /\ r \in Regs
  BY PointType, FuncsAssumption DEF Regs
<1>2. PICK x \in RangeSet(rs) \intersect Ranges(f) : x.block = b /\ x.start <= p /\ p <= x.end
  BY <1>1, RangeAround
<1>3. an \in Analysis(f)
  BY DEF Analysis
<1> HIDE DEF an
<1> DEFINE s == [reg |-> r, range |-> x]
<1>4. s \in SegmentsOf(f, r)
  BY <1>2, <1>3 DEF SegmentsOf
<1>5. s.reg = r /\ s.range = x /\ x.start \in Nat /\ x.end \in Nat
  BY <1>2 DEF Ranges
<1> QED
  BY <1>1, <1>2, <1>4, <1>5 DEF Around

\* ... and where a physical one is needed, it is reserved.
LEMMA NeededPhysical ==
    ASSUME NEW f \in Funcs, Supported(f), NEW b \in Blocks(f), NEW r \in PRegs, NEW p, LiveOn(f, b, p, r)
    PROVE  \E x \in Reserved(f) : x.reg = r /\ Around(x, b, p)
<1> DEFINE an == PreciseRanges(f, b, LiveIns(f)[b], LiveOuts(f)[b])
           rs == an.ranges[r]
<1>1. p \in Nat /\ r \in Regs
  BY PointType, FuncsAssumption DEF Regs
<1>2. PICK x \in RangeSet(rs) \intersect Ranges(f) : x.block = b /\ x.start <= p /\ p <= x.end
  BY <1>1, RangeAround
<1>3. an \in Analysis(f)
  BY DEF Analysis
<1> HIDE DEF an
<1> DEFINE s == [reg |-> r, range |-> x]
<1>4. s \in ReservedIn(an) /\ s \in [reg : PRegs, range : Ranges(f)]
  <2> DEFINE S(q) == {[reg |-> q, range |-> y] : y \in RangeSet(an.ranges[q])}
  <2>1. s \in S(r)
    BY <1>2
  <2>2. s \in UNION {S(q) : q \in PRegs}
    <3> HIDE DEF S, s
    <3> QED
      BY <2>1
  <2> HIDE DEF s
  <2>3. s \in ReservedIn(an)
    BY <2>2 DEF ReservedIn, S
  <2> QED
    BY <1>2, <2>3 DEF s
<1>5. s.reg = r /\ s.range = x /\ x.start \in Nat /\ x.end \in Nat
  BY <1>2 DEF Ranges
<1> HIDE DEF s
<1>6. s \in Reserved(f)
  BY <1>3, <1>4 DEF Reserved
<1> QED
  BY <1>1, <1>2, <1>5, <1>6 DEF Around

\* What a call destroys is reserved where it returns.
LEMMA CallReserves ==
    ASSUME NEW f \in Funcs, Supported(f), NEW b \in Blocks(f), NEW i \in Instrs(f, b),
           Instr(f, b, i).op = "call", NEW r \in Volatile
    PROVE  \E x \in Reserved(f) : x.reg = r /\ Around(x, b, DefPoint(i))
<1> DEFINE an == PreciseRanges(f, b, LiveIns(f)[b], LiveOuts(f)[b])
           k == [reg |-> r, block |-> b, instr |-> i]
           x == LiveRange(b, DefPoint(i), DefPoint(i))
           s == [reg |-> r, range |-> x]
<1>1. k \in an.kills
  BY FuncsAssumption, CallKills
<1>2. an \in Analysis(f) /\ r \in PRegs
  BY RegAssumption DEF Analysis
<1>3. DefPoint(i) \in Nat /\ DefPoint(i) <= DefPoint(i)
  BY DEF Instrs, DefPoint
<1> HIDE DEF an
<1>4. x \in Ranges(f) /\ x.block = b /\ x.start = DefPoint(i) /\ x.end = DefPoint(i)
  BY <1>3 DEF LiveRange, Ranges
<1>5. k.reg = r /\ k.block = b /\ k.instr = i
  OBVIOUS
<1>6. s \in ReservedIn(an)
  <2> DEFINE K == {[reg |-> q.reg, range |-> LiveRange(q.block, DefPoint(q.instr), DefPoint(q.instr))] : q \in an.kills}
  <2>1. s = [reg |-> k.reg, range |-> LiveRange(k.block, DefPoint(k.instr), DefPoint(k.instr))]
    BY <1>5
  <2> HIDE DEF k
  <2>2. s \in K
    BY <1>1, <2>1
  <2>3. K \subseteq ReservedIn(an)
    <3> DEFINE R == UNION {{[reg |-> q, range |-> y] : y \in RangeSet(an.ranges[q])} : q \in PRegs}
    <3>1. ReservedIn(an) = R \union K
      BY ZenonT(30) DEF ReservedIn
    <3> HIDE DEF R, K
    <3> QED
      BY <3>1
  <2> QED
    BY <2>2, <2>3
<1>7. s \in [reg : PRegs, range : Ranges(f)] /\ s.reg = r /\ s.range = x
  BY <1>2, <1>4
<1> HIDE DEF s, x
<1>8. s \in Reserved(f)
  BY <1>2, <1>6, <1>7 DEF Reserved
<1> QED
  BY <1>3, <1>4, <1>7, <1>8 DEF Around

\* The home of a register, in which its value is kept: a physical one is its
\* own, that of a virtual one is the register or the slot of its bundles.
Names(bn, x) == \E s \in bn.segs : s.reg = x
PlaceOf(al) == IF SlotOf(al.bundle) = NoSlot THEN al.reg ELSE SlotOf(al.bundle)
Home(as, x, l) ==
    IF x \in PRegs THEN l = x
    ELSE \E j \in 1..Len(as) : Names(as[j].bundle, x) /\ l = PlaceOf(as[j])

\* A bundle that holds a register has a segment of it.
LEMMA HeldNames ==
    ASSUME NEW bn, NEW x, NEW b, NEW i, HoldsAt(bn, x, b, i)
    PROVE  Names(bn, x)
  BY DEF HoldsAt, Names

\* The slot of an allocation; a bundle without one has all of its registers.
LEMMA SlotType ==
    ASSUME NEW f, NEW as, AllocsOK(f, as), NEW j \in 1..Len(as)
    PROVE  /\ SlotOf(as[j].bundle) \in Slots \union {NoSlot}
           /\ SlotOf(as[j].bundle) = NoSlot => Whole(f, as[j].bundle)
<1>1. Whole(f, as[j].bundle) \/ IsPart(f, as[j].bundle)
  BY DEF AllocsOK
<1>2. Whole(f, as[j].bundle) => SlotOf(as[j].bundle) = NoSlot
  BY DEF Whole, SlotOf
<1>3. IsPart(f, as[j].bundle) => SlotOf(as[j].bundle) \in Slots /\ SlotOf(as[j].bundle) # NoSlot
  <2>1. SUFFICES ASSUME NEW o \in VOps(f), NEW slot \in Slots, as[j].bundle = PartOf(f, o, slot)
                 PROVE  SlotOf(as[j].bundle) \in Slots /\ SlotOf(as[j].bundle) # NoSlot
    BY DEF IsPart
  <2>2. SlotOf(PartOf(f, o, slot)) = slot /\ slot # NoSlot
    BY PartIs
  <2> QED
    BY <2>1, <2>2
<1> QED
  BY <1>1, <1>2, <1>3

\* A home is a physical register or a slot.
LEMMA HomeType ==
    ASSUME NEW f, NEW as, AllocsOK(f, as), NEW x, NEW l, Home(as, x, l)
    PROVE  l \in PRegs \union Slots /\ l \in Places
<1>1. l \in PRegs \union Slots
  <2>1. CASE x \in PRegs
    BY <2>1 DEF Home
  <2>2. CASE x \notin PRegs
    <3>1. PICK j \in 1..Len(as) : l = PlaceOf(as[j])
      BY <2>2 DEF Home
    <3> QED
      BY <3>1, SlotType DEF PlaceOf, AllocsOK
  <2> QED
    BY <2>1, <2>2
<1> QED
  BY <1>1 DEF Places, Regs

\* A register has one home.
LEMMA HomeOne ==
    ASSUME NEW f, NEW as, AllocsOK(f, as), NEW x, NEW l, NEW m, Home(as, x, l), Home(as, x, m)
    PROVE  l = m
<1>1. CASE x \in PRegs
  BY <1>1 DEF Home
<1>2. CASE x \notin PRegs
  <2>1. PICK j \in 1..Len(as) : Names(as[j].bundle, x) /\ l = PlaceOf(as[j])
    BY <1>2 DEF Home
  <2>2. PICK k \in 1..Len(as) : Names(as[k].bundle, x) /\ m = PlaceOf(as[k])
    BY <1>2 DEF Home
  <2>3. Consistent(as[j].bundle, as[k].bundle) /\ (j # k => as[j].bundle # as[k].bundle)
    BY DEF AllocsOK
  <2>4. SlotOf(as[j].bundle) = SlotOf(as[k].bundle) /\ (SlotOf(as[j].bundle) = NoSlot => j = k)
    BY <2>1, <2>2, <2>3 DEF Names, Consistent
  <2> QED
    BY <2>1, <2>2, <2>4 DEF PlaceOf
<1> QED
  BY <1>1, <1>2

NeedsAround(segs, r, b, p) == \E s \in segs : s.reg = r /\ Around(s, b, p)

\* A bundle that was never spilled is there wherever its registers are needed.
LEMMA WholeAround ==
    ASSUME NEW f \in Funcs, Supported(f), NEW as, AllocsOK(f, as), NEW b \in Blocks(f),
           NEW j \in 1..Len(as), SlotOf(as[j].bundle) = NoSlot, NEW r, Names(as[j].bundle, r),
           NEW p, LiveOn(f, b, p, r)
    PROVE  NeedsAround(as[j].bundle.segs, r, b, p)
<1>1. PICK t \in as[j].bundle.segs : t.reg = r
  BY DEF Names
<1>2. r \in VRegs
  BY <1>1, SegmentType DEF AllocsOK
<1>3. SegmentsOf(f, r) \subseteq as[j].bundle.segs
  BY <1>1, SlotType DEF Whole
<1> QED
  BY <1>2, <1>3, NeededVirtual DEF NeedsAround

\* At point p the register of an allocation is taken by something other
\* than the value of r.
Taken(as, j, r, b, p) ==
    \E s \in as[j].bundle.segs : Around(s, b, p) /\ (r # s.reg \/ SlotOf(as[j].bundle) # NoSlot)

\* The register of a bundle holds nothing else at the points of the bundle.
LEMMA RegisterApart ==
    ASSUME NEW f \in Funcs, Supported(f), NEW as, AllocsOK(f, as), NEW b \in Blocks(f), NEW p,
           NEW j \in 1..Len(as), NEW r \in Regs, Taken(as, j, r, b, p), LiveOn(f, b, p, r),
           NEW l, Home(as, r, l)
    PROVE  l # as[j].reg
<1>0. PICK s \in as[j].bundle.segs : Around(s, b, p) /\ (r # s.reg \/ SlotOf(as[j].bundle) # NoSlot)
  BY DEF Taken
<1> SUFFICES ASSUME l = as[j].reg PROVE FALSE
  OBVIOUS
<1>1. as[j].reg \in PRegs /\ as[j].reg \notin Slots
  BY PlacesApart DEF AllocsOK, Regs
<1>2. CASE r \in PRegs
  <2>1. r = as[j].reg
    BY <1>2 DEF Home
  <2>2. PICK x \in Reserved(f) : x.reg = r /\ Around(x, b, p)
    BY <1>2, NeededPhysical
  <2>3. ~ Intersects(s.range, x.range)
    BY <1>0, <2>1, <2>2 DEF AllocsOK
  <2> QED
    BY <1>0, <2>2, <2>3, AroundMeet
<1>3. CASE r \notin PRegs
  <2>1. PICK k \in 1..Len(as) : Names(as[k].bundle, r) /\ l = PlaceOf(as[k])
    BY <1>3 DEF Home
  <2>2. SlotOf(as[k].bundle) = NoSlot /\ as[k].reg = as[j].reg
    BY <1>1, <2>1, SlotType DEF PlaceOf
  <2>3. PICK t \in as[k].bundle.segs : t.reg = r /\ Around(t, b, p)
    <3>1. NeedsAround(as[k].bundle.segs, r, b, p)
      BY <2>1, <2>2, WholeAround
    <3> QED
      BY <3>1 DEF NeedsAround
  <2>4. Intersects(s.range, t.range)
    BY <1>0, <2>3, AroundMeet
  <2>5. CASE j = k
    <3>1. Apart(as[j].bundle.segs)
      BY DEF AllocsOK
    <3> QED
      BY <1>0, <2>2, <2>3, <2>4, <2>5, <3>1 DEF Apart
  <2>6. CASE j # k
    <3>1. Disjoint(as[j].bundle.segs, as[k].bundle.segs)
      BY <2>2, <2>6 DEF AllocsOK
    <3> QED
      BY <1>0, <2>3, <2>4, <3>1 DEF Disjoint, SegsIntersect
  <2> QED
    BY <2>5, <2>6
<1> QED
  BY <1>2, <1>3

\* Two registers that hold values at the same point have different homes.
LEMMA HomesApart ==
    ASSUME NEW f \in Funcs, Supported(f), NEW as, AllocsOK(f, as), NEW b \in Blocks(f), NEW p,
           NEW r \in Regs, NEW q \in Regs, r # q, LiveOn(f, b, p, r), LiveOn(f, b, p, q),
           NEW l, NEW m, Home(as, r, l), Home(as, q, m)
    PROVE  l # m
<1>1. ASSUME NEW x \in Regs, NEW y \in Regs, x # y, LiveOn(f, b, p, x), LiveOn(f, b, p, y),
             NEW j \in 1..Len(as), Names(as[j].bundle, x), SlotOf(as[j].bundle) = NoSlot,
             NEW n, Home(as, y, n)
      PROVE  n # as[j].reg
  <2>1. PICK s \in as[j].bundle.segs : s.reg = x /\ Around(s, b, p)
    <3>1. NeedsAround(as[j].bundle.segs, x, b, p)
      BY <1>1, WholeAround
    <3> QED
      BY <3>1 DEF NeedsAround
  <2>2. Taken(as, j, y, b, p)
    BY <1>1, <2>1 DEF Taken
  <2> QED
    BY <1>1, <2>2, RegisterApart
<1>2. CASE r \in PRegs /\ q \in PRegs
  BY <1>2 DEF Home
<1>3. ASSUME NEW x \in PRegs, NEW y \in Regs, y \notin PRegs, LiveOn(f, b, p, x), LiveOn(f, b, p, y),
             NEW n, Home(as, y, n)
      PROVE  n # x
  <2>1. PICK j \in 1..Len(as) : Names(as[j].bundle, y) /\ n = PlaceOf(as[j])
    BY <1>3 DEF Home
  <2>2. Home(as, x, x) /\ x \in Regs /\ x \notin Slots
    BY PlacesApart DEF Home, Regs
  <2>3. CASE SlotOf(as[j].bundle) = NoSlot
    <3>1. x # as[j].reg
      BY <1>1, <1>3, <2>1, <2>2, <2>3
    <3> QED
      BY <2>1, <2>3, <3>1 DEF PlaceOf
  <2>4. CASE SlotOf(as[j].bundle) # NoSlot
    BY <2>1, <2>2, <2>4, SlotType DEF PlaceOf
  <2> QED
    BY <2>3, <2>4
<1>4. CASE r \notin PRegs /\ q \notin PRegs
  <2>1. PICK j \in 1..Len(as) : Names(as[j].bundle, r) /\ l = PlaceOf(as[j])
    BY <1>4 DEF Home
  <2>2. PICK k \in 1..Len(as) : Names(as[k].bundle, q) /\ m = PlaceOf(as[k])
    BY <1>4 DEF Home
  <2>3. CASE SlotOf(as[j].bundle) = NoSlot
    BY <1>1, <2>1, <2>3 DEF PlaceOf
  <2>4. CASE SlotOf(as[k].bundle) = NoSlot
    BY <1>1, <2>2, <2>4 DEF PlaceOf
  <2>5. CASE SlotOf(as[j].bundle) # NoSlot /\ SlotOf(as[k].bundle) # NoSlot
    <3> SUFFICES ASSUME l = m PROVE FALSE
      OBVIOUS
    <3>1. SlotOf(as[j].bundle) = SlotOf(as[k].bundle)
      BY <2>1, <2>2, <2>5 DEF PlaceOf
    <3>2. SlotApart(f, as[j].bundle, as[k].bundle)
      BY DEF AllocsOK
    <3>3. Disjoint(SegmentsOf(f, r), SegmentsOf(f, q))
      BY <2>1, <2>2, <2>5, <3>1, <3>2 DEF SlotApart, Names
    <3>4. r \in VRegs /\ q \in VRegs
      BY <1>4 DEF Regs
    <3>5. PICK s \in SegmentsOf(f, r) : Around(s, b, p)
      BY <3>4, NeededVirtual
    <3>6. PICK t \in SegmentsOf(f, q) : Around(t, b, p)
      BY <3>4, NeededVirtual
    <3> QED
      BY <3>3, <3>5, <3>6, AroundMeet DEF Disjoint, SegsIntersect
  <2> QED
    BY <2>3, <2>4, <2>5
<1>5. CASE r \in PRegs /\ q \notin PRegs
  <2>1. l = r
    BY <1>5 DEF Home
  <2> QED
    BY <1>3, <1>5, <2>1
<1>6. CASE q \in PRegs /\ r \notin PRegs
  <2>1. m = q
    BY <1>6 DEF Home
  <2> QED
    BY <1>3, <1>6, <2>1
<1> QED
  BY <1>2, <1>4, <1>5, <1>6

-----------------------------------------------------------------------------
(* What runs one thing after the other: moves, instructions, blocks.        *)

\* Row n is made from row n - 1: by a move, an instruction or a block.
Row(kind, c, b, k, start, n, prev) ==
    IF n = 0 THEN start
    ELSE IF kind = "move" THEN [prev EXCEPT ![c[n].args[1]] = prev[c[n].args[2]]]
    ELSE IF kind = "instr" THEN Step(prev, c[b][n - 1], <<k, n>>, CallArgs(func, b, n - 1))
    ELSE InBlock(c, b[n], n, prev)

Rows(kind, c, b, k, start, g, last) == g = [n \in 0..last |-> Row(kind, c, b, k, start, n, g[n - 1])]

\* These recursions have a solution.
LEMMA RowsExist ==
    ASSUME NEW kind, NEW c, NEW b, NEW k, NEW start, NEW last \in Nat
    PROVE  \E g : Rows(kind, c, b, k, start, g, last)
<1> DEFINE S == {l \in Nat : ~\E g : Rows(kind, c, b, k, start, g, l)}
           R(m, x) == Row(kind, c, b, k, start, m, x)
<1>1. \A x, y : R(0, x) = R(0, y)
  BY DEF Row
<1>2. \E g : Rows(kind, c, b, k, start, g, 0)
  <2> HIDE DEF R
  <2> DEFINE g == [m \in 0..0 |-> R(0, "none")]
  <2>1. \A m \in 0..0 : R(0, "none") = R(m, g[m - 1])
    <3>1. \A m \in 0..0 : m = 0
      OBVIOUS
    <3> HIDE DEF g
    <3> QED
      BY <1>1, <3>1
  <2> HIDE DEF g
  <2>2. g = [m \in 0..0 |-> R(0, "none")]
    BY DEF g
  <2>3. g = [m \in 0..0 |-> R(m, g[m - 1])]
    BY <2>1, <2>2
  <2> QED
    BY <2>3 DEF Rows, R
<1>3. ASSUME NEW l \in Nat, NEW h, Rows(kind, c, b, k, start, h, l)
      PROVE  \E g : Rows(kind, c, b, k, start, g, l + 1)
  <2>0. \A m \in 0..l : h[m] = R(m, h[m - 1])
    BY <1>3 DEF Rows
  <2> HIDE DEF R
  <2>1. PICK g : g = [m \in 0..(l + 1) |-> IF m = l + 1 THEN R(l + 1, h[l]) ELSE h[m]]
    OBVIOUS
  <2>2. \A m \in 0..l : g[m] = h[m] /\ h[m] = R(m, h[m - 1])
    BY <2>0, <2>1
  <2>3. ASSUME NEW m \in 0..(l + 1) PROVE g[m] = R(m, g[m - 1])
    <3>1. CASE m = l + 1
      <4>1. g[m] = R(l + 1, h[l]) /\ g[m - 1] = h[l]
        BY <2>1, <2>2, <3>1
      <4> QED
        BY <3>1, <4>1
    <3>2. CASE m = 0
      BY <1>1, <2>2, <3>2
    <3>3. CASE m # 0 /\ m # l + 1
      <4>1. m \in 0..l /\ m - 1 \in 0..l
        BY <3>3
      <4>2. g[m] = R(m, h[m - 1]) /\ g[m - 1] = h[m - 1]
        BY <2>2, <4>1
      <4> QED
        BY <4>2
    <3> QED
      BY <3>1, <3>2, <3>3
  <2>4. g = [m \in 0..(l + 1) |-> g[m]]
    BY <2>1
  <2>5. g = [m \in 0..(l + 1) |-> R(m, g[m - 1])]
    BY <2>3, <2>4
  <2> QED
    BY <2>5 DEF Rows, R
<1>4. S = {}
  <2> SUFFICES ASSUME S # {} PROVE FALSE
    OBVIOUS
  <2>1. PICK l \in S : \A j \in S : l <= j
    BY LeastNumber
  <2>2. l \in Nat \ {0}
    BY <1>2
  <2>3. \E h : Rows(kind, c, b, k, start, h, l - 1)
    BY <2>1, <2>2
  <2>4. \E g : Rows(kind, c, b, k, start, g, (l - 1) + 1)
    BY <1>3, <2>2, <2>3
  <2> QED
    BY <2>2, <2>4
<1> QED
  BY <1>4

MoveRows(env, moves, e) ==
    e = [n \in 0..Len(moves) |->
            IF n = 0 THEN env ELSE [e[n - 1] EXCEPT ![moves[n].args[1]] = e[n - 1][moves[n].args[2]]]]

\* The environments e between the moves.
Between(env, moves, e) ==
    /\ Moved(env, moves) = e[Len(moves)] /\ e[0] = env
    /\ \A n \in 1..Len(moves) :
         e[n] = [e[n - 1] EXCEPT ![moves[n].args[1]] = e[n - 1][moves[n].args[2]]]

\* Moved runs the moves one after the other.
LEMMA MovedIs ==
    ASSUME NEW env, NEW moves, Len(moves) \in Nat
    PROVE  \E e : Between(env, moves, e)
<1> DEFINE e == CHOOSE e : MoveRows(env, moves, e)
           last == Len(moves)
<1>1. Moved(env, moves) = e[last]
  BY DEF Moved, MoveRows
<1>2. last \in Nat
  OBVIOUS
<1>3. \E g : MoveRows(env, moves, g)
  <2>1. PICK g : Rows("move", moves, 0, 0, env, g, last)
    BY <1>2, RowsExist
  <2>2. g = [n \in 0..last |-> IF n = 0 THEN env
                ELSE [g[n - 1] EXCEPT ![moves[n].args[1]] = g[n - 1][moves[n].args[2]]]]
    BY <2>1 DEF Rows, Row
  <2> QED
    BY <2>2 DEF MoveRows
<1>4. MoveRows(env, moves, e)
  BY <1>3
<1> HIDE DEF e
<1>5. \A n \in 0..last : e[n] = IF n = 0 THEN env
                ELSE [e[n - 1] EXCEPT ![moves[n].args[1]] = e[n - 1][moves[n].args[2]]]
  BY <1>4 DEF MoveRows
<1>6. 0 \in 0..last /\ \A n \in 1..last : n \in 0..last /\ n # 0
  BY <1>2
<1> HIDE DEF last
<1>7. e[0] = env /\ \A n \in 1..last : e[n] = [e[n - 1] EXCEPT ![moves[n].args[1]] = e[n - 1][moves[n].args[2]]]
  BY <1>5, <1>6
<1> QED
  BY <1>1, <1>7 DEF last, Between

\* No move changes nothing.
LEMMA MovedNone ==
    ASSUME NEW env
    PROVE  Moved(env, <<>>) = env
<1> DEFINE moves == <<>>
<1>1. Len(moves) = 0 /\ Len(moves) \in Nat
  OBVIOUS
<1> HIDE DEF moves
<1>2. \E e : Between(env, moves, e)
  BY <1>1, MovedIs
<1> QED
  BY <1>1, <1>2 DEF moves, Between

OneMove(moves, a, b) == moves = <<Mov(a, b)>>

\* One move copies one place.
LEMMA MovedOne ==
    ASSUME NEW env, NEW a, NEW b, NEW moves, OneMove(moves, a, b)
    PROVE  Moved(env, moves) = [env EXCEPT ![a] = env[b]]
<1>1. Len(moves) = 1 /\ Len(moves) \in Nat /\ moves[1].args[1] = a /\ moves[1].args[2] = b
  BY DEF Mov, OneMove
<1>2. PICK e : Between(env, moves, e)
  BY <1>1, MovedIs
<1>3. e[1] = [e[0] EXCEPT ![moves[1].args[1]] = e[0][moves[1].args[2]]]
  BY <1>1, <1>2 DEF Between
<1> QED
  BY <1>1, <1>2, <1>3 DEF Between

\* Loads into different registers, none of which is overwritten.
Loads(moves) ==
    /\ Len(moves) \in Nat
    /\ \A e \in 1..Len(moves) : moves[e].args[1] \in PRegs /\ moves[e].args[2] \in Slots
    /\ \A e, h \in 1..Len(moves) : e # h => moves[e].args[1] # moves[h].args[1]

\* What the first n loads do.
Loaded(env, moves, n, now) ==
    /\ DOMAIN now = Places
    /\ \A h \in 1..n : now[moves[h].args[1]] = env[moves[h].args[2]]
    /\ \A a \in Places : (\A h \in 1..n : a # moves[h].args[1]) => now[a] = env[a]

\* One more load.
LEMMA LoadOne ==
    ASSUME NEW env, NEW moves, Loads(moves), NEW n \in 1..Len(moves), NEW last, NEW now,
           Loaded(env, moves, n - 1, last),
           now = [last EXCEPT ![moves[n].args[1]] = last[moves[n].args[2]]]
    PROVE  Loaded(env, moves, n, now)
<1> DEFINE t == moves[n].args[1]
           s == moves[n].args[2]
<1>1. t \in PRegs /\ s \in Slots /\ t \in Places /\ s \in Places
  BY DEF Loads, Places, Regs
<1>2. n \in Nat /\ n - 1 \in Nat /\ 1..n = (1..(n - 1)) \union {n} /\ n \notin 1..(n - 1)
      /\ 1..(n - 1) \subseteq 1..Len(moves)
  BY DEF Loads
<1>3. \A h \in 1..(n - 1) : /\ moves[h].args[1] # t /\ moves[h].args[1] # s
                            /\ moves[h].args[1] \in Places
  <2>1. \A h \in 1..(n - 1) : h # n /\ moves[h].args[1] \in PRegs /\ moves[h].args[1] # t
    BY <1>2 DEF Loads
  <2> QED
    BY <1>1, <2>1, PlacesApart DEF Places, Regs
<1>4. t # s
  BY <1>1, PlacesApart DEF Regs
<1> HIDE DEF t, s
<1>5. now = [last EXCEPT ![t] = last[s]] /\ DOMAIN last = Places
  BY DEF t, s, Loaded
<1>6. DOMAIN now = Places /\ now[t] = last[s] /\ \A a \in Places : a # t => now[a] = last[a]
  BY <1>1, <1>5
<1>7. last[s] = env[s]
  BY <1>1, <1>3 DEF Loaded
<1>8. \A h \in 1..(n - 1) : now[moves[h].args[1]] = env[moves[h].args[2]]
  BY <1>3, <1>6 DEF Loaded
<1>9. \A a \in Places : (\A h \in 1..n : a # moves[h].args[1]) => now[a] = env[a]
  <2> SUFFICES ASSUME NEW a \in Places, \A h \in 1..n : a # moves[h].args[1] PROVE now[a] = env[a]
    OBVIOUS
  <2>1. a # t /\ \A h \in 1..(n - 1) : a # moves[h].args[1]
    BY <1>2 DEF t
  <2> QED
    BY <1>6, <2>1 DEF Loaded
<1>10. now[moves[n].args[1]] = env[moves[n].args[2]]
  BY <1>6, <1>7 DEF t, s
<1>11. \A h \in 1..n : now[moves[h].args[1]] = env[moves[h].args[2]]
  BY <1>2, <1>8, <1>10
<1> QED
  BY <1>6, <1>9, <1>11 DEF Loaded

\* The loads of an instruction all read what was there before them.
LEMMA MovedLoads ==
    ASSUME NEW env, DOMAIN env = Places, NEW moves, Loads(moves)
    PROVE  Loaded(env, moves, Len(moves), Moved(env, moves))
<1>0. Len(moves) \in Nat
  BY DEF Loads
<1>0a. PICK e : Between(env, moves, e)
  BY <1>0, MovedIs
<1>1. /\ Moved(env, moves) = e[Len(moves)] /\ e[0] = env
      /\ \A n \in 1..Len(moves) :
           e[n] = [e[n - 1] EXCEPT ![moves[n].args[1]] = e[n - 1][moves[n].args[2]]]
  BY <1>0a DEF Between
<1> DEFINE S == {n \in 0..Len(moves) : ~ Loaded(env, moves, n, e[n])}
<1>2. S = {}
  <2> SUFFICES ASSUME S # {} PROVE FALSE
    OBVIOUS
  <2>1. PICK n \in S : \A l \in S : n <= l
    <3>1. S \subseteq Nat
      BY <1>0
    <3> HIDE DEF S
    <3> QED
      BY <3>1, LeastNumber
  <2>2. n # 0
    <3>1. 1..0 = {}
      OBVIOUS
    <3>2. Loaded(env, moves, 0, e[0])
      BY <1>1, <3>1 DEF Loaded
    <3> QED
      BY <2>1, <3>2
  <2>3. n \in 1..Len(moves) /\ n - 1 \in 0..Len(moves) /\ n - 1 < n
    BY <1>0, <2>1, <2>2
  <2>4. Loaded(env, moves, n - 1, e[n - 1])
    BY <2>1, <2>3
  <2>5. e[n] = [e[n - 1] EXCEPT ![moves[n].args[1]] = e[n - 1][moves[n].args[2]]]
    BY <1>1, <2>3
  <2>6. Loaded(env, moves, n, e[n])
    BY <2>3, <2>4, <2>5, LoadOne
  <2> QED
    BY <2>1, <2>6
<1>3. Loaded(env, moves, Len(moves), e[Len(moves)])
  BY <1>0, <1>2
<1> QED
  BY <1>1, <1>3

-----------------------------------------------------------------------------
(* One instruction of the original and of the rewritten function.           *)

At(f, as, b, i) ==
    /\ f \in Funcs /\ Supported(f) /\ AllocsOK(f, as)
    /\ b \in Blocks(f) /\ i \in Instrs(f, b) /\ i \in Nat

\* What is still needed before instruction i has the same value in the
\* registers of the original as in their homes.
Agree(f, as, b, i, eS, eM) ==
    /\ DOMAIN eS = Places /\ DOMAIN eM = Places
    /\ \A r \in Regs, l \in Places : (Home(as, r, l) /\ Live(f, b, i, r)) => eM[l] = eS[r]

\* What is live before and at an instruction, from what is live behind it.
LEMMA LiveSteps ==
    ASSUME NEW f, NEW as, NEW b, NEW i, At(f, as, b, i), NEW r
    PROVE  /\ Live(f, b, i, r) <=> Reads(f, b, i, r) \/ (~ Writes(f, b, i, r) /\ Live(f, b, i + 1, r))
           /\ LiveOn(f, b, UsePoint(i), r) <=> Live(f, b, i, r)
           /\ LiveOn(f, b, DefPoint(i), r) <=> Writes(f, b, i, r) \/ Live(f, b, i + 1, r)
<1>1. Len(Block(f, b)) \in Nat /\ i \in Instrs(f, b)
  BY FuncsAssumption DEF At, WellFormed
<1> QED
  BY <1>1, NeededSteps DEF Live, LiveOn

\* What an instruction with two arguments reads and writes.
LEMMA ReadsWrites ==
    ASSUME NEW f, NEW b, NEW i, Instr(f, b, i).op \in {"mov", "sub", "cmp"}, ~ Self(Instr(f, b, i)), NEW r \in Regs
    PROVE  LET ins == Instr(f, b, i)
           IN  /\ Reads(f, b, i, r) <=> r = ins.args[2] \/ (ins.op \in {"sub", "cmp"} /\ r = ins.args[1])
               /\ Writes(f, b, i, r) <=> ins.op \in {"mov", "sub"} /\ r = ins.args[1]
<1> DEFINE ins == Instr(f, b, i)
           Arg(n) == {ins.args[n]} \intersect Regs
<1>0. \A n \in 1..2 : r \in Arg(n) <=> r = ins.args[n]
  OBVIOUS
<1>1. CASE ins.op = "mov"
  <2>1. Arg(1) # Arg(2) => RegOps(f, b, i) = <<Op("DEF", Arg(1)), Op("USE", Arg(2))>>
    BY <1>1 DEF RegOps
  <2>2. Arg(1) = Arg(2) => RegOps(f, b, i) = <<>> /\ r # ins.args[1] /\ r # ins.args[2]
    BY <1>1, <1>0 DEF RegOps, Self
  <2>3. CASE Arg(1) = Arg(2)
    BY <1>1, <2>2, <2>3 DEF Reads, Writes, Has
  <2>4. CASE Arg(1) # Arg(2)
    <3>1. DOMAIN RegOps(f, b, i) = 1..2 /\ RegOps(f, b, i)[1] = Op("DEF", Arg(1)) /\ RegOps(f, b, i)[2] = Op("USE", Arg(2))
      BY <2>1, <2>4
    <3> HIDE DEF Arg
    <3> QED
      BY <1>0, <1>1, <3>1 DEF Reads, Writes, Has, Op
  <2> QED
    BY <2>3, <2>4
<1>2. CASE ins.op = "sub"
  <2>1. RegOps(f, b, i) = <<Op("USE_DEF", Arg(1)), Op("USE", Arg(2))>>
    BY <1>2 DEF RegOps
  <2>2. DOMAIN RegOps(f, b, i) = 1..2 /\ RegOps(f, b, i)[1] = Op("USE_DEF", Arg(1)) /\ RegOps(f, b, i)[2] = Op("USE", Arg(2))
    BY <2>1
  <2> HIDE DEF Arg
  <2> QED
    BY <1>0, <1>2, <2>2 DEF Reads, Writes, Has, Op
<1>3. CASE ins.op = "cmp"
  <2>1. RegOps(f, b, i) = <<Op("USE", Arg(1)), Op("USE", Arg(2))>>
    BY <1>3 DEF RegOps
  <2>2. DOMAIN RegOps(f, b, i) = 1..2 /\ RegOps(f, b, i)[1] = Op("USE", Arg(1)) /\ RegOps(f, b, i)[2] = Op("USE", Arg(2))
    BY <2>1
  <2> HIDE DEF Arg
  <2> QED
    BY <1>0, <1>3, <2>2 DEF Reads, Writes, Has, Op
<1> QED
  BY <1>1, <1>2, <1>3

\* A bundle that was made by spilling takes its register while it loads and
\* stores.
LEMMA PartTakes ==
    ASSUME NEW f, NEW as, NEW b, NEW i, At(f, as, b, i), NEW j \in 1..Len(as),
           Touched(as[j].bundle, b, i), NEW r
    PROVE  /\ as[j].bundle.src # NoSlot => Taken(as, j, r, b, UsePoint(i))
           /\ as[j].bundle.dst # NoSlot => Taken(as, j, r, b, DefPoint(i))
<1> SUFFICES ASSUME as[j].bundle.src # NoSlot \/ as[j].bundle.dst # NoSlot
             PROVE  /\ as[j].bundle.src # NoSlot => Taken(as, j, r, b, UsePoint(i))
                    /\ as[j].bundle.dst # NoSlot => Taken(as, j, r, b, DefPoint(i))
  OBVIOUS
<1>1. SlotOf(as[j].bundle) # NoSlot
  BY DEF SlotOf
<1>2. PICK k \in 1..2 : PartFits(f, as, j, b, i, k)
  BY <1>1, PartUse DEF At
<1>3. HoldsAt(as[j].bundle, Instr(f, b, i).args[k], b, i)
  BY <1>2 DEF PartFits
<1>4. PICK s \in as[j].bundle.segs : s.range.block = b
  BY <1>3 DEF HoldsAt
<1>5. /\ s.range.start = IF as[j].bundle.src = NoSlot THEN DefPoint(i) ELSE UsePoint(i)
      /\ s.range.end = IF as[j].bundle.dst = NoSlot THEN UsePoint(i) ELSE DefPoint(i)
  BY <1>2 DEF PartFits
<1>6. i \in Nat
  BY DEF At
<1>7. UsePoint(i) \in Nat /\ DefPoint(i) \in Nat /\ UsePoint(i) <= DefPoint(i)
  BY <1>6 DEF UsePoint, DefPoint
<1>8. ASSUME NEW p \in Nat, s.range.start \in {UsePoint(i), DefPoint(i)}, s.range.end \in {UsePoint(i), DefPoint(i)},
             s.range.start = p \/ (p = DefPoint(i) /\ s.range.end = p), s.range.start = p => p = UsePoint(i) \/ s.range.end = p
      PROVE  Around(s, b, p)
  <2>1. s.range.start \in Nat /\ s.range.end \in Nat
    BY <1>7, <1>8
  <2>2. s.range.start <= p /\ p <= s.range.end
    BY <1>7, <1>8
  <2> QED
    BY <1>4, <1>8, <2>1, <2>2 DEF Around
<1>9. as[j].bundle.src # NoSlot => Around(s, b, UsePoint(i))
  BY <1>5, <1>7, <1>8
<1>10. as[j].bundle.dst # NoSlot => Around(s, b, DefPoint(i))
  BY <1>5, <1>7, <1>8
<1> QED
  BY <1>1, <1>9, <1>10 DEF Taken

\* The moves in front of a rewritten instruction are loads.
LEMMA PreLoads ==
    ASSUME NEW f, NEW as, NEW b, NEW i, At(f, as, b, i), NEW c, Rewrites(as, Instr(f, b, i), b, i, c, Len(as))
    PROVE  Loads(c.pre)
<1>1. Len(c.pre) \in Nat /\ PreOK(as, b, i, c, Len(as)) /\ AllocsOK(f, as)
  BY DEF Rewrites, Typed, At
<1>2. ASSUME NEW e \in 1..Len(c.pre)
      PROVE  c.pre[e].args[1] \in PRegs /\ c.pre[e].args[2] \in Slots
  <2>1. PICK j \in 1..Len(as) : as[j].bundle.src # NoSlot /\ c.pre[e] = LoadOf(as[j])
    BY <1>1 DEF PreOK
  <2>2. SlotOf(as[j].bundle) = as[j].bundle.src /\ SlotOf(as[j].bundle) \in Slots /\ as[j].reg \in PRegs
    BY <1>1, <2>1, SlotType DEF SlotOf, AllocsOK
  <2>3. c.pre[e].args[1] = as[j].reg /\ c.pre[e].args[2] = as[j].bundle.src
    BY <2>1 DEF LoadOf, Mov
  <2> QED
    BY <2>2, <2>3
<1> QED
  BY <1>1, <1>2 DEF Loads, PreOK

\* Loads only overwrite registers that hold nothing.
LEMMA AfterLoads ==
    ASSUME NEW f, NEW as, NEW b, NEW i, At(f, as, b, i), NEW c, Rewrites(as, Instr(f, b, i), b, i, c, Len(as)),
           NEW eS, NEW eM, Agree(f, as, b, i, eS, eM)
    PROVE  /\ Agree(f, as, b, i, eS, Moved(eM, c.pre))
           /\ Loaded(eM, c.pre, Len(c.pre), Moved(eM, c.pre))
<1> DEFINE eL == Moved(eM, c.pre)
<1>1. Loaded(eM, c.pre, Len(c.pre), eL)
  BY PreLoads, MovedLoads DEF Agree
<1> HIDE DEF eL
<1>2. ASSUME NEW r \in Regs, NEW l \in Places, Home(as, r, l), Live(f, b, i, r)
      PROVE  eL[l] = eS[r]
  <2>1. ASSUME NEW e \in 1..Len(c.pre) PROVE l # c.pre[e].args[1]
    <3>1. PICK j \in 1..Len(as) : Touched(as[j].bundle, b, i) /\ as[j].bundle.src # NoSlot /\ c.pre[e] = LoadOf(as[j])
      BY DEF PreOK, Rewrites
    <3>2. Taken(as, j, r, b, UsePoint(i))
      BY <3>1, PartTakes
    <3>3. LiveOn(f, b, UsePoint(i), r)
      BY <1>2, LiveSteps
    <3>4. l # as[j].reg
      BY <1>2, <3>2, <3>3, RegisterApart DEF At
    <3>5. c.pre[e].args[1] = as[j].reg
      BY <3>1 DEF LoadOf, Mov
    <3> QED
      BY <3>4, <3>5
  <2>2. eL[l] = eM[l]
    BY <1>1, <2>1 DEF Loaded
  <2> QED
    BY <1>2, <2>2 DEF Agree
<1> QED
  BY <1>1, <1>2 DEF eL, Agree, Loaded

\* No virtual register is without a bundle at an instruction that names it.
LEMMA FreeIsFixed ==
    ASSUME NEW f, NEW as, NEW b, NEW i, At(f, as, b, i), Instr(f, b, i).op \in Arity2, ~ Self(Instr(f, b, i)),
           NEW n \in 1..2, NEW arg, ArgFree(as, Instr(f, b, i).args[n], arg, b, i, Len(as))
    PROVE  Instr(f, b, i).args[n] \notin VRegs
<1> DEFINE x == Instr(f, b, i).args[n]
           o == [reg |-> x, block |-> b, instr |-> i, k |-> n]
<1> SUFFICES ASSUME x \in VRegs PROVE FALSE
  OBVIOUS
<1>1. o \in VOps(f)
  BY OperandOf DEF At
<1>2. o.reg = x /\ o.block = b /\ o.instr = i
  OBVIOUS
<1> HIDE DEF o
<1>3. PICK j \in 1..Len(as) : \E s \in as[j].bundle.segs : s.reg = o.reg /\ Encloses(s.range, RangeOf(f, o))
  BY <1>1 DEF AllocsOK, At
<1>4. PICK s \in as[j].bundle.segs : s.reg = o.reg /\ Encloses(s.range, RangeOf(f, o))
  BY <1>3
<1>5. s.range \in Ranges(f)
  BY <1>4, SegmentType DEF AllocsOK, At
<1>6. s.range.block = b /\ Touches(s.range, i)
  BY <1>1, <1>2, <1>4, <1>5, OperandType DEF Encloses, Touches, Ranges, UsePoint, DefPoint
<1>7. HoldsAt(as[j].bundle, x, b, i)
  BY <1>2, <1>4, <1>6 DEF HoldsAt
<1> QED
  BY <1>7 DEF ArgFree

\* The operands that an instruction reads.
IsRead(ins, n) == n = 2 \/ ins.op \in {"sub", "cmp"}

SameArg(eS, ins, eL, c, n, name) == Value(eL, c.ins.args[n], name) = Value(eS, ins.args[n], name)

\* The rewritten instruction reads the values that the original one reads.
LEMMA ReadSame ==
    ASSUME NEW f, NEW as, NEW b, NEW i, At(f, as, b, i), NEW c, Rewrites(as, Instr(f, b, i), b, i, c, Len(as)),
           NEW eS, NEW eM, Agree(f, as, b, i, eS, eM), NEW name,
           NEW n \in 1..2, IsRead(Instr(f, b, i), n)
    PROVE  SameArg(eS, Instr(f, b, i), Moved(eM, c.pre), c, n, name)
<1> DEFINE ins == Instr(f, b, i)
           x == ins.args[n]
           arg == c.ins.args[n]
           eL == Moved(eM, c.pre)
<1> SUFFICES Value(eL, arg, name) = Value(eS, x, name)
  BY DEF SameArg
<1>1. /\ ins.op \in {"mov", "sub", "cmp"} /\ ~ Self(ins) /\ ins.op \in Arity2
      /\ ArgOK(as, ins, b, i, c, Len(as), n)
  BY DEF Rewrites, Arity2
<1>2. Agree(f, as, b, i, eS, eL) /\ Loaded(eM, c.pre, Len(c.pre), eL)
  BY AfterLoads
<1>3. x \in Regs => Live(f, b, i, x)
  <2>1. x \in Regs => Reads(f, b, i, x)
    BY <1>1, ReadsWrites DEF IsRead
  <2> QED
    BY <2>1, LiveSteps
<1>4. x \in Regs \union {Imm} /\ Imm \notin Regs
  BY <1>1, SupportedInstr, RegAssumption DEF At
<1> HIDE DEF eL
<1>5. ASSUME x \in Regs, NEW l, Home(as, x, l)
      PROVE  eM[l] = eS[x] /\ eL[l] = eS[x] /\ l # Imm
  <2>1. l \in Places /\ l # Imm /\ Live(f, b, i, x)
    BY <1>3, <1>5, HomeType, PlacesApart DEF At
  <2>2. eM[l] = eS[x]
    BY <1>5, <2>1 DEF Agree
  <2>3. eL[l] = eS[x]
    BY <1>2, <1>5, <2>1 DEF Agree
  <2> QED
    BY <2>1, <2>2, <2>3
<1>6. CASE ArgFree(as, x, arg, b, i, Len(as))
  <2>1. arg = x /\ x \notin VRegs
    BY <1>1, <1>6, FreeIsFixed DEF ArgFree
  <2>2. CASE x = Imm
    BY <2>1, <2>2 DEF Value, eL
  <2>3. CASE x # Imm
    <3>1. x \in PRegs /\ x \in Regs
      BY <1>4, <2>1, <2>3 DEF Regs
    <3>2. Home(as, x, x)
      BY <3>1 DEF Home
    <3>3. eL[x] = eS[x]
      BY <1>5, <3>1, <3>2
    <3> QED
      BY <2>1, <2>3, <3>3 DEF Value, eL
  <2> QED
    BY <2>2, <2>3
<1>7. ASSUME NEW j \in 1..Len(as), HoldsAt(as[j].bundle, x, b, i)
      PROVE  x \in VRegs /\ x \in Regs /\ Home(as, x, PlaceOf(as[j])) /\ Touched(as[j].bundle, b, i)
  <2>1. x \in VRegs /\ Touched(as[j].bundle, b, i)
    BY <1>7, HeldIsVirtual DEF At
  <2>2. Names(as[j].bundle, x)
    BY <1>7, HeldNames
  <2> QED
    BY <2>1, <2>2, PlacesApart DEF Home, Regs
<1>8. ASSUME arg \in Places, eL[arg] = eS[x], x \in Regs
      PROVE  Value(eL, arg, name) = Value(eS, x, name)
  BY <1>4, <1>8, PlacesApart DEF Value
<1>9. CASE ArgInReg(as, x, arg, b, i, Len(as), c)
  <2>1. PICK j \in 1..Len(as) :
            /\ HoldsAt(as[j].bundle, x, b, i) /\ arg = as[j].reg
            /\ as[j].bundle.src # NoSlot => \E e \in 1..Len(c.pre) : c.pre[e] = LoadOf(as[j])
    BY <1>9 DEF ArgInReg
  <2>2. x \in VRegs /\ x \in Regs /\ Home(as, x, PlaceOf(as[j])) /\ Touched(as[j].bundle, b, i)
    BY <1>7, <2>1
  <2>3. arg \in Places
    BY <2>1 DEF At, AllocsOK, Places, Regs
  <2>4. CASE SlotOf(as[j].bundle) = NoSlot
    <3>1. PlaceOf(as[j]) = arg
      BY <2>1, <2>4 DEF PlaceOf
    <3> QED
      BY <1>5, <1>8, <2>2, <2>3, <3>1 DEF eL
  <2>5. CASE SlotOf(as[j].bundle) # NoSlot
    <3>1. PICK k \in 1..2 : PartFits(f, as, j, b, i, k)
      BY <2>2, <2>5, PartUse DEF At
    <3>2. ins.args[k] = x
      BY <2>1, <3>1 DEF PartFits, HoldsAt
    <3>3. as[j].bundle.src # NoSlot
      <4> SUFFICES ASSUME as[j].bundle.src = NoSlot PROVE FALSE
        OBVIOUS
      <4>1. k = 1 /\ ins.op = "mov" /\ (ins.args[1] = ins.args[2] => ins.op = "cmp")
        BY <3>1 DEF PartFits
      <4>2. n = 2
        BY <4>1 DEF IsRead
      <4> QED
        BY <3>2, <4>1, <4>2
    <3>4. PlaceOf(as[j]) = as[j].bundle.src
      BY <2>5, <3>3 DEF PlaceOf, SlotOf
    <3>5. PICK e \in 1..Len(c.pre) : c.pre[e] = LoadOf(as[j])
      BY <2>1, <3>3
    <3>6. c.pre[e].args[1] = arg /\ c.pre[e].args[2] = as[j].bundle.src
      BY <2>1, <3>5 DEF LoadOf, Mov
    <3>7. eL[arg] = eM[as[j].bundle.src]
      BY <1>2, <3>6 DEF Loaded
    <3>8. eL[arg] = eS[x]
      BY <1>5, <2>2, <3>4, <3>7
    <3> QED
      BY <1>8, <2>2, <2>3, <3>8 DEF eL
  <2> QED
    BY <2>4, <2>5
<1>10. CASE ArgInSlot(as, x, arg, b, i, Len(as))
  <2>1. PICK j \in 1..Len(as) :
          HoldsAt(as[j].bundle, x, b, i) /\ SlotOf(as[j].bundle) # NoSlot /\ arg = SlotOf(as[j].bundle)
    BY <1>10 DEF ArgInSlot
  <2>2. x \in Regs /\ Home(as, x, arg)
    BY <1>7, <2>1 DEF PlaceOf
  <2>3. arg \in Places
    BY <2>2, HomeType DEF At
  <2> QED
    BY <1>5, <1>8, <2>2, <2>3 DEF eL
<1> QED
  BY <1>1, <1>6, <1>9, <1>10 DEF ArgOK

\* A write to register d arrives in its home m: directly, or through a
\* register that holds nothing else and is stored behind the instruction.
WritesHome(as, d, b, i, c, m) ==
    /\ Home(as, d, m)
    /\ \/ c.post = <<>> /\ c.ins.args[1] = m
       \/ \E j \in 1..Len(as) :
            /\ c.ins.args[1] = as[j].reg /\ OneMove(c.post, m, as[j].reg)
            /\ \A r : Taken(as, j, r, b, DefPoint(i))

\* A store behind an instruction is that of its first operand.
Stores(as, j, b, i) == Touched(as[j].bundle, b, i) /\ as[j].bundle.dst # NoSlot

\* Only the first argument is stored, and a comparison stores nothing.
LEMMA StoreIsFirst ==
    ASSUME NEW f, NEW as, NEW b, NEW i, At(f, as, b, i), NEW j \in 1..Len(as), Stores(as, j, b, i)
    PROVE  Instr(f, b, i).op # "cmp" /\ HoldsAt(as[j].bundle, Instr(f, b, i).args[1], b, i)
<1>1. SlotOf(as[j].bundle) # NoSlot
  BY DEF SlotOf, Stores
<1>2. PICK k \in 1..2 : PartFits(f, as, j, b, i, k)
  BY <1>1, PartUse DEF At, Stores
<1>3. k # 2 /\ Instr(f, b, i).op # "cmp"
  BY <1>2 DEF PartFits, Stores
<1>4. k = 1
  BY <1>3
<1> QED
  BY <1>2, <1>3, <1>4 DEF PartFits

\* What a rewritten instruction writes ends up at the home of its register.
LEMMA DestHome ==
    ASSUME NEW f, NEW as, NEW b, NEW i, At(f, as, b, i), NEW c, Rewrites(as, Instr(f, b, i), b, i, c, Len(as)),
           Instr(f, b, i).op \in {"mov", "sub"}
    PROVE  \E m : WritesHome(as, Instr(f, b, i).args[1], b, i, c, m)
<1> DEFINE ins == Instr(f, b, i)
           d == ins.args[1]
           arg == c.ins.args[1]
<1>0. \A n \in 1..2 : ArgOK(as, ins, b, i, c, Len(as), n)
  BY DEF Rewrites
<1>1. ~ Self(ins) /\ ins.op \in Arity2 /\ PostOK(as, b, i, c, Len(as)) /\ d \in Regs
  BY SupportedInstr DEF Rewrites, Arity2, At
<1>2. ASSUME ~ \E j \in 1..Len(as) : HoldsAt(as[j].bundle, d, b, i) /\ as[j].bundle.dst # NoSlot
      PROVE  c.post = <<>>
  <2> SUFFICES ASSUME NEW j \in 1..Len(as), Touched(as[j].bundle, b, i), as[j].bundle.dst # NoSlot PROVE FALSE
    BY <1>1 DEF PostOK
  <2>1. Stores(as, j, b, i)
    BY DEF Stores
  <2>2. HoldsAt(as[j].bundle, ins.args[1], b, i)
    BY <2>1, StoreIsFirst
  <2> QED
    BY <1>2, <2>2
<1>3. PICK n \in 1..2 : n = 1 /\ ArgOK(as, ins, b, i, c, Len(as), n)
  <2>1. PICK n \in 1..2 : n = 1
    OBVIOUS
  <2> QED
    BY <1>0, <2>1
<1>4. CASE ArgFree(as, ins.args[n], c.ins.args[n], b, i, Len(as))
  <2>1. d \notin VRegs /\ arg = d
    BY <1>1, <1>3, <1>4, FreeIsFixed DEF ArgFree
  <2>2. Home(as, d, d)
    BY <1>1, <2>1 DEF Home, Regs
  <2>3. c.post = <<>>
    BY <1>2, <1>3, <1>4 DEF ArgFree
  <2> QED
    BY <2>1, <2>2, <2>3 DEF WritesHome
<1>5. ASSUME NEW j \in 1..Len(as), HoldsAt(as[j].bundle, d, b, i)
      PROVE  Home(as, d, PlaceOf(as[j])) /\ Touched(as[j].bundle, b, i)
  <2>1. d \in VRegs /\ Touched(as[j].bundle, b, i)
    BY <1>5, HeldIsVirtual DEF At
  <2>2. Names(as[j].bundle, d)
    BY <1>5, HeldNames
  <2> QED
    BY <2>1, <2>2, PlacesApart DEF Home, Regs
<1>6. CASE ArgInReg(as, ins.args[n], c.ins.args[n], b, i, Len(as), c)
  <2>1. PICK j \in 1..Len(as) :
            /\ HoldsAt(as[j].bundle, d, b, i) /\ arg = as[j].reg
            /\ as[j].bundle.dst # NoSlot => c.post = <<StoreOf(as[j])>>
    BY <1>3, <1>6 DEF ArgInReg
  <2>2. Home(as, d, PlaceOf(as[j])) /\ Touched(as[j].bundle, b, i)
    BY <1>5, <2>1
  <2>3. CASE SlotOf(as[j].bundle) = NoSlot
    <3>1. PlaceOf(as[j]) = arg
      BY <2>1, <2>3 DEF PlaceOf
    <3>2. ASSUME NEW k \in 1..Len(as), HoldsAt(as[k].bundle, d, b, i), as[k].bundle.dst # NoSlot PROVE FALSE
      <4>1. SlotOf(as[j].bundle) = SlotOf(as[k].bundle)
        BY <2>1, <3>2, HeldTwice DEF At
      <4> QED
        BY <2>3, <3>2, <4>1 DEF SlotOf
    <3>3. c.post = <<>>
      BY <1>2, <3>2
    <3> QED
      BY <2>2, <3>1, <3>3 DEF WritesHome
  <2>4. CASE SlotOf(as[j].bundle) # NoSlot
    <3>1. PICK k \in 1..2 : PartFits(f, as, j, b, i, k)
      BY <2>2, <2>4, PartUse DEF At
    <3>2. ins.args[k] = d
      BY <2>1, <3>1 DEF PartFits, HoldsAt
    <3>3. as[j].bundle.dst # NoSlot /\ (as[j].bundle.src = NoSlot \/ as[j].bundle.src = SlotOf(as[j].bundle))
          /\ as[j].bundle.dst \in {NoSlot, SlotOf(as[j].bundle)}
      BY <3>1, <3>2 DEF PartFits
    <3>4. PlaceOf(as[j]) = as[j].bundle.dst
      BY <2>4, <3>3 DEF PlaceOf
    <3>5. OneMove(c.post, PlaceOf(as[j]), as[j].reg)
      BY <2>1, <3>3, <3>4 DEF StoreOf, OneMove
    <3>6. \A r : Taken(as, j, r, b, DefPoint(i))
      BY <2>2, <3>3, PartTakes
    <3> QED
      BY <2>1, <2>2, <3>5, <3>6 DEF WritesHome
  <2> QED
    BY <2>3, <2>4
<1>7. CASE ArgInSlot(as, ins.args[n], c.ins.args[n], b, i, Len(as)) /\ c.post = <<>>
  <2>1. PICK j \in 1..Len(as) :
          HoldsAt(as[j].bundle, d, b, i) /\ SlotOf(as[j].bundle) # NoSlot /\ arg = SlotOf(as[j].bundle)
    BY <1>3, <1>7 DEF ArgInSlot
  <2>2. Home(as, d, arg)
    BY <1>5, <2>1 DEF PlaceOf
  <2> QED
    BY <1>7, <2>2 DEF WritesHome
<1> QED
  BY <1>3, <1>4, <1>6, <1>7 DEF ArgOK

\* Environment now is last with value v at place a.
Put(last, a, v, now) ==
    /\ DOMAIN now = Places /\ now[a] = v
    /\ \A x \in Places : x # a => now[x] = last[x]

Written(f, as, b, i, c, m, eS, eL, v, nS, nL) ==
    /\ Instr(f, b, i).op \in {"mov", "sub"} /\ ~ Self(Instr(f, b, i))
    /\ WritesHome(as, Instr(f, b, i).args[1], b, i, c, m)
    /\ Put(eS, Instr(f, b, i).args[1], v, nS) /\ Put(eL, c.ins.args[1], v, nL)

\* Behind the instruction, the value that was written is in the home of its
\* register, and what else is needed is where it was.
LEMMA AfterWrite ==
    ASSUME NEW f, NEW as, NEW b, NEW i, At(f, as, b, i), NEW c, NEW m, NEW eS, NEW eL, Agree(f, as, b, i, eS, eL),
           NEW v, NEW nS, NEW nL, Written(f, as, b, i, c, m, eS, eL, v, nS, nL)
    PROVE  Agree(f, as, b, i + 1, nS, Moved(nL, c.post))
<1> DEFINE d == Instr(f, b, i).args[1]
           a == c.ins.args[1]
<1>01. /\ d = Instr(f, b, i).args[1] /\ a = c.ins.args[1]
      /\ Instr(f, b, i).op \in {"mov", "sub"} /\ ~ Self(Instr(f, b, i))
  BY DEF Written
<1>02. WritesHome(as, d, b, i, c, m) /\ Put(eS, d, v, nS) /\ Put(eL, a, v, nL)
  BY DEF Written
<1> HIDE DEF d, a
<1> DEFINE nM == Moved(nL, c.post)
<1>1. d \in Regs /\ Writes(f, b, i, d) /\ \A r \in Regs : r # d => ~ Writes(f, b, i, r)
  <2>1. d \in Regs
    BY <1>01, SupportedInstr DEF At
  <2> QED
    BY <1>01, <2>1, ReadsWrites
<1>2. Home(as, d, m) /\ m \in Places
  BY <1>02, HomeType DEF WritesHome, At
<1>3. ASSUME NEW r \in Regs, r # d, NEW l \in Places, Home(as, r, l), Live(f, b, i + 1, r)
      PROVE  /\ nS[r] = eS[r] /\ eL[l] = eS[r] /\ l # m
             /\ LiveOn(f, b, DefPoint(i), r)
  <2>1. Live(f, b, i, r) /\ LiveOn(f, b, DefPoint(i), r) /\ LiveOn(f, b, DefPoint(i), d)
    BY <1>1, <1>3, LiveSteps
  <2>2. l # m
    BY <1>1, <1>2, <1>3, <2>1, HomesApart DEF At
  <2>3. r \in Places
    BY DEF Places
  <2> QED
    BY <1>02, <1>3, <2>1, <2>2, <2>3 DEF Agree, Put
<1> DEFINE Right == /\ DOMAIN nM = Places /\ nM[m] = v
                    /\ \A r \in Regs, l \in Places :
                         (r # d /\ Home(as, r, l) /\ Live(f, b, i + 1, r)) => nM[l] = nS[r]
<1>4. Right
  <2>1. CASE c.post = <<>> /\ c.ins.args[1] = m
    <3>1. nM = nL
      BY <2>1, MovedNone
    <3> HIDE DEF nM
    <3> QED
      BY <1>01, <1>02, <1>3, <2>1, <3>1 DEF Put
  <2>2. ASSUME NEW j \in 1..Len(as), c.ins.args[1] = as[j].reg, OneMove(c.post, m, as[j].reg),
               \A r : Taken(as, j, r, b, DefPoint(i))
        PROVE  Right
    <3>0. OneMove(c.post, m, as[j].reg) /\ c.ins.args[1] = as[j].reg
      BY <2>2
    <3>1. nM = [nL EXCEPT ![m] = nL[as[j].reg]]
      <4> DEFINE r == as[j].reg
      <4>1. OneMove(c.post, m, r)
        BY <3>0
      <4> HIDE DEF r
      <4>2. Moved(nL, c.post) = [nL EXCEPT ![m] = nL[r]]
        BY <4>1, MovedOne
      <4> QED
        BY <4>2 DEF r
    <3>2. nL[as[j].reg] = v /\ DOMAIN nL = Places
      BY <1>01, <1>02, <2>2 DEF Put
    <3> HIDE DEF nM
    <3>3. DOMAIN nM = Places /\ nM[m] = v /\ \A x \in Places : x # m => nM[x] = nL[x]
      BY <1>2, <3>1, <3>2
    <3>4. ASSUME NEW r \in Regs, r # d, NEW l \in Places, Home(as, r, l), Live(f, b, i + 1, r)
          PROVE  nM[l] = nS[r]
      <4>1. nS[r] = eS[r] /\ eL[l] = eS[r] /\ l # m /\ LiveOn(f, b, DefPoint(i), r)
        BY <1>3, <3>4
      <4>2. l # as[j].reg
        BY <2>2, <3>4, <4>1, RegisterApart DEF At
      <4> QED
        BY <1>01, <1>02, <2>2, <3>3, <4>1, <4>2 DEF Put
    <3> QED
      BY <3>3, <3>4
  <2> QED
    BY <1>01, <1>02, <2>1, <2>2 DEF WritesHome
<1>5. nS[d] = v /\ DOMAIN nS = Places
  BY <1>02 DEF Put
<1> HIDE DEF nM
<1>6. ASSUME NEW r \in Regs, NEW l \in Places, Home(as, r, l), Live(f, b, i + 1, r)
      PROVE  nM[l] = nS[r]
  <2>1. CASE r = d
    <3>1. l = m
      BY <1>2, <1>6, <2>1, HomeOne DEF At
    <3> QED
      BY <1>4, <1>5, <2>1, <3>1
  <2> QED
    BY <1>4, <1>6, <2>1
<1> QED
  BY <1>4, <1>5, <1>6 DEF Agree, nM

St(e, s) == [env |-> e, seen |-> s]

\* The two functions have seen the same values, and agree on what is needed.
Same(f, as, b, i, sS, sM) == sS.seen = sM.seen /\ Agree(f, as, b, i, sS.env, sM.env)

\* A step: the loads, the instruction, the stores.
LEMMA StepIs ==
    ASSUME NEW st, NEW c, NEW name, NEW uses
    PROVE  LET after == Execute(St(Moved(st.env, c.pre), st.seen), c.ins, name, uses)
           IN  /\ Step(st, c, name, uses).env = Moved(after.env, c.post)
               /\ Step(st, c, name, uses).seen = after.seen
  BY DEF Step, St

\* A step of the original function is its instruction.
LEMMA OriginalStep ==
    ASSUME NEW st, NEW ins, NEW name, NEW uses
    PROVE  LET after == Execute(St(st.env, st.seen), ins, name, uses)
           IN  /\ Step(st, Rewritten(ins), name, uses).env = after.env
               /\ Step(st, Rewritten(ins), name, uses).seen = after.seen
<1> DEFINE c == Rewritten(ins)
<1>1. c.pre = <<>> /\ c.post = <<>> /\ c.ins = ins
  BY DEF Rewritten
<1> HIDE DEF c
<1>2. Moved(st.env, c.pre) = st.env
  BY <1>1, MovedNone
<1>3. \A e : Moved(e, c.post) = e
  BY <1>1, MovedNone
<1> QED
  BY <1>1, <1>2, <1>3, StepIs DEF c

\* What a move or a subtraction writes and what it has seen.
Made(e, ins, name) == IF ins.op = "mov" THEN Value(e, ins.args[2], name) ELSE name
SeenBy(e, s, ins, name) ==
    IF ins.op = "mov" THEN s ELSE Append(s, <<Value(e, ins.args[1], name), Value(e, ins.args[2], name)>>)
Wrote(e, s, ins, name, after) ==
    Put(e, ins.args[1], Made(e, ins, name), after.env) /\ after.seen = SeenBy(e, s, ins, name)

\* What a move and a subtraction do,
LEMMA ExecuteWrite ==
    ASSUME NEW e, DOMAIN e = Places, NEW s, NEW ins, ins.op \in {"mov", "sub"}, ins.args[1] \in Places,
           NEW name, NEW uses
    PROVE  Wrote(e, s, ins, name, Execute(St(e, s), ins, name, uses))
<1> DEFINE a == ins.args[1]
<1>1. CASE ins.op = "mov"
  <2> DEFINE v == Value(e, ins.args[2], name)
  <2>1. Execute(St(e, s), ins, name, uses) = [env |-> [e EXCEPT ![a] = v], seen |-> s]
    BY <1>1 DEF Execute, St
  <2> HIDE DEF v
  <2> QED
    BY <1>1, <2>1 DEF Put, v, Wrote, Made, SeenBy
<1>2. CASE ins.op = "sub"
  <2> DEFINE v == <<Value(e, ins.args[1], name), Value(e, ins.args[2], name)>>
  <2>1. Execute(St(e, s), ins, name, uses) = [env |-> [e EXCEPT ![a] = name], seen |-> Append(s, v)]
    BY <1>2 DEF Execute, St
  <2> HIDE DEF v
  <2> QED
    BY <1>2, <2>1 DEF Put, v, Wrote, Made, SeenBy
<1> QED
  BY <1>1, <1>2

Compared(e, s, ins, name, after) == after.env = e /\ after.seen = SeenBy(e, s, ins, name)

\* what a comparison does,
LEMMA ExecuteCmp ==
    ASSUME NEW e, NEW s, NEW ins, ins.op = "cmp", NEW name, NEW uses
    PROVE  Compared(e, s, ins, name, Execute(St(e, s), ins, name, uses))
  BY DEF Execute, St, Compared, SeenBy

\* what a jump does,
LEMMA ExecuteJmp ==
    ASSUME NEW e, NEW s, NEW name, NEW uses
    PROVE  LET after == Execute(St(e, s), Jmp, name, uses)
           IN  after.env = e /\ after.seen = s
  BY DEF Execute, St, Jmp

\* and what a call does.
LEMMA ExecuteCall ==
    ASSUME NEW e, DOMAIN e = Places, NEW s, NEW name, NEW uses
    PROVE  LET after == Execute(St(e, s), Call, name, uses)
           IN  /\ DOMAIN after.env = Places
               /\ \A a \in Places : after.env[a] =
                    IF a = RetReg THEN name ELSE IF a \in Volatile THEN Undefined ELSE e[a]
               /\ after.seen = Append(s, [r \in uses |-> e[r]])
<1>1. Execute(St(e, s), Call, name, uses) =
        [env |-> [a \in Places |-> IF a = RetReg THEN name ELSE IF a \in Volatile THEN Undefined ELSE e[a]],
         seen |-> Append(s, [r \in uses |-> e[r]])]
  BY DEF Execute, St, Call
<1> QED
  BY <1>1

Idle(f, b, i) == \A r \in Regs : ~ Writes(f, b, i, r)
Equal(e, n) == DOMAIN n = Places /\ \A x \in Places : n[x] = e[x]

\* An instruction that writes nothing leaves what is needed behind it.
LEMMA SameIdle ==
    ASSUME NEW f, NEW as, NEW b, NEW i, At(f, as, b, i), Idle(f, b, i),
           NEW eS, NEW eM, Agree(f, as, b, i, eS, eM), NEW nS, Equal(eS, nS), NEW nM, Equal(eM, nM)
    PROVE  Agree(f, as, b, i + 1, nS, nM)
<1> SUFFICES ASSUME NEW r \in Regs, NEW l \in Places, Home(as, r, l), Live(f, b, i + 1, r)
             PROVE  nM[l] = nS[r]
  BY DEF Agree, Equal
<1>1. Live(f, b, i, r) /\ r \in Places
  BY LiveSteps DEF Places, Idle
<1> QED
  BY <1>1 DEF Agree, Equal

\* A jump writes nothing.
LEMMA SameJmp ==
    ASSUME NEW f, NEW as, NEW b, NEW i, At(f, as, b, i), Instr(f, b, i) = Jmp,
           NEW sS, NEW sM, Same(f, as, b, i, sS, sM), NEW name, NEW uses
    PROVE  Same(f, as, b, i + 1, Step(sS, Rewritten(Jmp), name, uses), Step(sM, Rewritten(Jmp), name, uses))
<1>1. Idle(f, b, i)
  <2>1. RegOps(f, b, i) = <<>>
    BY DEF RegOps, Jmp
  <2> QED
    BY <2>1 DEF Idle, Writes, Has
<1>2. /\ Step(sS, Rewritten(Jmp), name, uses).env = sS.env /\ Step(sS, Rewritten(Jmp), name, uses).seen = sS.seen
      /\ Step(sM, Rewritten(Jmp), name, uses).env = sM.env /\ Step(sM, Rewritten(Jmp), name, uses).seen = sM.seen
  BY OriginalStep, ExecuteJmp
<1>3. Agree(f, as, b, i + 1, sS.env, sM.env)
  <2>1. Equal(sS.env, sS.env) /\ Equal(sM.env, sM.env)
    BY DEF Same, Agree, Equal
  <2> QED
    BY <1>1, <2>1, SameIdle DEF Same
<1> QED
  BY <1>2, <1>3 DEF Same

\* A move of a register to itself, which is removed.
LEMMA SameSelf ==
    ASSUME NEW f, NEW as, NEW b, NEW i, At(f, as, b, i), Self(Instr(f, b, i)),
           NEW sS, NEW sM, Same(f, as, b, i, sS, sM), NEW name, NEW uses
    PROVE  Same(f, as, b, i + 1, Step(sS, Rewritten(Instr(f, b, i)), name, uses), Step(sM, Rewritten(Jmp), name, uses))
<1> DEFINE ins == Instr(f, b, i)
           nS == Step(sS, Rewritten(ins), name, uses)
           nM == Step(sM, Rewritten(Jmp), name, uses)
<1>1. Idle(f, b, i)
  <2>1. RegOps(f, b, i) = <<>>
    BY DEF RegOps, Self
  <2> QED
    BY <2>1 DEF Idle, Writes, Has
<1>2. nM.env = sM.env /\ nM.seen = sM.seen
  BY OriginalStep, ExecuteJmp
<1>3. ins.op = "mov" /\ ins.args[1] \in Regs /\ ins.args[1] \in Places /\ ins.args[2] = ins.args[1] /\ ins.args[1] # Imm
  BY SupportedInstr, RegAssumption DEF At, Self, Places
<1>4. /\ Put(sS.env, ins.args[1], Value(sS.env, ins.args[2], name), nS.env) /\ nS.seen = sS.seen
  <2>1. DOMAIN sS.env = Places
    BY DEF Same, Agree
  <2> QED
    <3> DEFINE after == Execute(St(sS.env, sS.seen), ins, name, uses)
    <3>1. nS.env = after.env /\ nS.seen = after.seen
      BY OriginalStep
    <3>2. Wrote(sS.env, sS.seen, ins, name, after)
      <4>1. ins.op \in {"mov", "sub"}
        BY <1>3
      <4> HIDE DEF ins
      <4> QED
        BY <1>3, <2>1, <4>1, ExecuteWrite
    <3> HIDE DEF after, nS, ins
    <3> QED
      BY <1>3, <3>1, <3>2 DEF Wrote, Made, SeenBy
<1>5. Equal(sS.env, nS.env)
  BY <1>3, <1>4 DEF Put, Value, Equal
<1> HIDE DEF nS, nM
<1>6. Agree(f, as, b, i + 1, nS.env, nM.env)
  <2>1. Equal(sM.env, nM.env)
    BY <1>2 DEF Same, Agree, Equal
  <2> QED
    BY <1>1, <1>5, <2>1, SameIdle DEF Same
<1> QED
  BY <1>2, <1>4, <1>6 DEF Same, nS, nM

\* What lives across a call is not kept in a register that it destroys.
LEMMA CallSpares ==
    ASSUME NEW f, NEW as, NEW b, NEW i, At(f, as, b, i), Instr(f, b, i).op = "call",
           NEW r \in Regs, r \notin Volatile, LiveOn(f, b, DefPoint(i), r), NEW l, Home(as, r, l)
    PROVE  l \notin Volatile
<1> SUFFICES ASSUME l \in Volatile PROVE FALSE
  OBVIOUS
<1>1. l \in PRegs /\ l \notin Slots
  BY RegAssumption, PlacesApart DEF Regs
<1>2. r \notin PRegs
  BY DEF Home
<1>3. PICK j \in 1..Len(as) : Names(as[j].bundle, r) /\ l = PlaceOf(as[j])
  BY <1>2 DEF Home
<1>4. SlotOf(as[j].bundle) = NoSlot /\ as[j].reg = l
  BY <1>1, <1>3, SlotType DEF PlaceOf, At
<1>5. NeedsAround(as[j].bundle.segs, r, b, DefPoint(i))
  BY <1>3, <1>4, WholeAround DEF At
<1>6. PICK s \in as[j].bundle.segs : Around(s, b, DefPoint(i))
  BY <1>5 DEF NeedsAround
<1>7. PICK x \in Reserved(f) : x.reg = l /\ Around(x, b, DefPoint(i))
  BY CallReserves DEF At
<1>8. ~ Intersects(s.range, x.range)
  BY <1>4, <1>7 DEF At, AllocsOK
<1> QED
  BY <1>6, <1>7, <1>8, AroundMeet

\* A call is seen with the same arguments, returns the same value and destroys
\* nothing that is needed.
LEMMA SameCall ==
    ASSUME NEW f, NEW as, NEW b, NEW i, At(f, as, b, i), Instr(f, b, i) = Call,
           NEW sS, NEW sM, Same(f, as, b, i, sS, sM), NEW name
    PROVE  Same(f, as, b, i + 1, Step(sS, Rewritten(Call), name, CallArgs(f, b, i)),
                                 Step(sM, Rewritten(Call), name, CallArgs(f, b, i)))
<1> DEFINE uses == CallArgs(f, b, i)
           nS == Step(sS, Rewritten(Call), name, uses)
           nM == Step(sM, Rewritten(Call), name, uses)
<1>0. Instr(f, b, i).op = "call"
  BY DEF Call
<1>1. \A r \in uses : r \in PRegs /\ Reads(f, b, i, r)
  <2>1. RegOps(f, b, i) = <<Op("KILL", Volatile), Op("USE", uses), Op("DEF", {RetReg})>>
    BY <1>0 DEF RegOps
  <2>2. uses \subseteq PRegs
    BY DEF CallArgs
  <2> HIDE DEF uses
  <2>3. 2 \in DOMAIN RegOps(f, b, i) /\ RegOps(f, b, i)[2] = Op("USE", uses)
    BY <2>1
  <2>4. RegOps(f, b, i)[2].usage = "USE" /\ RegOps(f, b, i)[2].regs = uses
    BY <2>3 DEF Op
  <2> QED
    BY <2>2, <2>3, <2>4 DEF Reads, Has
<1>2. /\ DOMAIN sS.env = Places /\ DOMAIN sM.env = Places /\ sS.seen = sM.seen
      /\ \A r \in Regs, l \in Places : (Home(as, r, l) /\ Live(f, b, i, r)) => sM.env[l] = sS.env[r]
  BY DEF Same, Agree
<1>3. [r \in uses |-> sS.env[r]] = [r \in uses |-> sM.env[r]]
  <2>1. ASSUME NEW r \in uses PROVE sS.env[r] = sM.env[r]
    <3>1. r \in PRegs /\ r \in Regs /\ r \in Places /\ Live(f, b, i, r)
      BY <1>1, LiveSteps DEF Regs, Places
    <3>2. Home(as, r, r)
      BY <3>1 DEF Home
    <3> QED
      BY <1>2, <3>1, <3>2
  <2> HIDE DEF uses
  <2> QED
    BY <2>1
<1>4. /\ DOMAIN nS.env = Places
      /\ \A a \in Places : nS.env[a] = IF a = RetReg THEN name ELSE IF a \in Volatile THEN Undefined ELSE sS.env[a]
      /\ nS.seen = Append(sS.seen, [r \in uses |-> sS.env[r]])
  BY <1>2, OriginalStep, ExecuteCall
<1>5. /\ DOMAIN nM.env = Places
      /\ \A a \in Places : nM.env[a] = IF a = RetReg THEN name ELSE IF a \in Volatile THEN Undefined ELSE sM.env[a]
      /\ nM.seen = Append(sM.seen, [r \in uses |-> sM.env[r]])
  BY <1>2, OriginalStep, ExecuteCall
<1> HIDE DEF nS, nM
<1>6. ASSUME NEW r \in Regs, NEW l \in Places, Home(as, r, l), Live(f, b, i + 1, r)
      PROVE  nM.env[l] = nS.env[r]
  <2>1. r \in Places /\ Volatile \subseteq PRegs /\ RetReg \in Volatile
    BY RegAssumption DEF Places
  <2>2. CASE r \in Volatile
    <3>1. r = RetReg
      BY <1>0, <1>6, <2>2 DEF At, Supported, PlainCalls, Live
    <3>2. l = r
      BY <1>6, <2>1, <2>2 DEF Home
    <3> QED
      BY <1>4, <1>5, <2>1, <3>1, <3>2
  <2>3. CASE r \notin Volatile
    <3>1. ~ Writes(f, b, i, r)
      BY <1>0, <2>1, <2>3, CallWrites
    <3>2. Live(f, b, i, r) /\ LiveOn(f, b, DefPoint(i), r)
      BY <1>6, <3>1, LiveSteps
    <3>3. l \notin Volatile
      BY <1>0, <1>6, <2>3, <3>2, CallSpares
    <3> QED
      BY <1>2, <1>4, <1>5, <1>6, <2>1, <2>3, <3>2, <3>3
  <2> QED
    BY <2>2, <2>3
<1>7. Agree(f, as, b, i + 1, nS.env, nM.env)
  BY <1>4, <1>5, <1>6 DEF Agree
<1>8. nS.seen = nM.seen
  BY <1>2, <1>3, <1>4, <1>5
<1> QED
  BY <1>7, <1>8 DEF Same, nS, nM

\* The instruction as remove_useless_instrs leaves it.
KeptOf(c, d) == d = [c EXCEPT !.ins = Kept(@)]

\* remove_useless_instrs keeps the loads and the stores.
LEMMA KeptIs ==
    ASSUME NEW c, NEW op, Typed(c, op), NEW d, KeptOf(c, d)
    PROVE  d.pre = c.pre /\ d.post = c.post /\ d.ins = Kept(c.ins) /\ c.ins.op = op
<1> DEFINE k == Kept(c.ins)
<1>1. d = [c EXCEPT !.ins = k]
  BY DEF KeptOf
<1> HIDE DEF k
<1> QED
  BY <1>1 DEF Typed, k

\* A comparison sees the same values.
LEMMA SameCmp ==
    ASSUME NEW f, NEW as, NEW b, NEW i, At(f, as, b, i), NEW c, Rewrites(as, Instr(f, b, i), b, i, c, Len(as)),
           Instr(f, b, i).op = "cmp", NEW d, KeptOf(c, d),
           NEW sS, NEW sM, Same(f, as, b, i, sS, sM), NEW name, NEW uses
    PROVE  Same(f, as, b, i + 1, Step(sS, Rewritten(Instr(f, b, i)), name, uses), Step(sM, d, name, uses))
<1> DEFINE ins == Instr(f, b, i)
           nS == Step(sS, Rewritten(ins), name, uses)
           nM == Step(sM, d, name, uses)
           eL == Moved(sM.env, c.pre)
<1>1. Typed(c, ins.op) /\ ~ Self(ins) /\ PostOK(as, b, i, c, Len(as)) /\ Agree(f, as, b, i, sS.env, sM.env)
  BY DEF Rewrites, Same
<1>2. d.pre = c.pre /\ d.post = c.post /\ d.ins = c.ins /\ c.ins.op = "cmp"
  <2>1. d.pre = c.pre /\ d.post = c.post /\ d.ins = Kept(c.ins) /\ c.ins.op = ins.op
    BY <1>1, KeptIs
  <2> QED
    BY <2>1 DEF Kept
<1>3. c.post = <<>>
  <2>1. ASSUME NEW j \in 1..Len(as), Touched(as[j].bundle, b, i), as[j].bundle.dst # NoSlot
        PROVE  Instr(f, b, i).op # "cmp"
    <3>1. Stores(as, j, b, i)
      BY <2>1 DEF Stores
    <3> QED
      BY <3>1, StoreIsFirst
  <2> QED
    BY <1>1, <2>1 DEF PostOK
<1>4. Agree(f, as, b, i, sS.env, eL)
  BY <1>1, AfterLoads
<1>5. ASSUME NEW n \in 1..2
      PROVE  Value(eL, c.ins.args[n], name) = Value(sS.env, ins.args[n], name)
  <2>1. IsRead(ins, n)
    BY DEF IsRead
  <2> QED
    <3>1. SameArg(sS.env, ins, eL, c, n, name)
      BY <1>1, <2>1, ReadSame
    <3> QED
      BY <3>1 DEF SameArg
<1>6. nS.env = sS.env /\ nS.seen = SeenBy(sS.env, sS.seen, ins, name)
  <2> DEFINE after == Execute(St(sS.env, sS.seen), ins, name, uses)
  <2>1. nS.env = after.env /\ nS.seen = after.seen
    BY OriginalStep
  <2>2. Compared(sS.env, sS.seen, ins, name, after)
    BY ExecuteCmp
  <2> QED
    BY <2>1, <2>2 DEF Compared
<1>7. nM.env = eL /\ nM.seen = SeenBy(eL, sM.seen, c.ins, name)
  <2> DEFINE after == Execute(St(Moved(sM.env, d.pre), sM.seen), d.ins, name, uses)
  <2>1. nM.env = Moved(after.env, d.post) /\ nM.seen = after.seen
    BY StepIs
  <2>2. after = Execute(St(eL, sM.seen), c.ins, name, uses)
    BY <1>2
  <2> HIDE DEF nM, eL
  <2>3. Compared(eL, sM.seen, c.ins, name, Execute(St(eL, sM.seen), c.ins, name, uses))
    BY <1>2, ExecuteCmp
  <2> QED
    BY <1>2, <1>3, <2>1, <2>2, <2>3, MovedNone DEF Compared
<1>8. Idle(f, b, i)
  BY <1>1, ReadsWrites DEF Idle
<1> HIDE DEF nS, nM, eL
<1>9. Equal(sS.env, nS.env) /\ Equal(eL, nM.env)
  BY <1>4, <1>6, <1>7 DEF Equal, Agree
<1>10. Agree(f, as, b, i + 1, nS.env, nM.env)
  BY <1>4, <1>8, <1>9, SameIdle
<1>11. nS.seen = nM.seen
  <2>1. sS.seen = sM.seen
    BY DEF Same
  <2>2. /\ Value(eL, c.ins.args[1], name) = Value(sS.env, ins.args[1], name)
        /\ Value(eL, c.ins.args[2], name) = Value(sS.env, ins.args[2], name)
    BY <1>5
  <2> QED
    BY <1>2, <1>6, <1>7, <2>1, <2>2 DEF SeenBy
<1> QED
  BY <1>10, <1>11 DEF Same, nS, nM

\* The rewritten instruction puts at place a what the original one makes.
Arrives(eL, a, eS, s, ins, name, after) ==
    Put(eL, a, Made(eS, ins, name), after.env) /\ after.seen = SeenBy(eS, s, ins, name)

\* A move and a subtraction see and write the same values.
LEMMA WriteSame ==
    ASSUME NEW f, NEW as, NEW b, NEW i, At(f, as, b, i), NEW c, Rewrites(as, Instr(f, b, i), b, i, c, Len(as)),
           Instr(f, b, i).op \in {"mov", "sub"}, c.ins.args[1] \in Places,
           NEW eS, NEW eM, Agree(f, as, b, i, eS, eM), NEW seen, NEW name, NEW uses,
           NEW after, after = Execute(St(Moved(eM, c.pre), seen), Kept(c.ins), name, uses)
    PROVE  Arrives(Moved(eM, c.pre), c.ins.args[1], eS, seen, Instr(f, b, i), name, after)
<1> DEFINE ins == Instr(f, b, i)
           eL == Moved(eM, c.pre)
<1>1. Typed(c, ins.op) /\ c.ins.op = ins.op /\ Agree(f, as, b, i, eS, eL)
  BY AfterLoads DEF Rewrites, Typed
<1>2. ASSUME NEW n \in 1..2, n = 2 \/ ins.op = "sub"
      PROVE  Value(eL, c.ins.args[n], name) = Value(eS, ins.args[n], name)
  <2>1. IsRead(ins, n)
    BY <1>2 DEF IsRead
  <2> QED
    <3>1. SameArg(eS, ins, eL, c, n, name)
      BY <2>1, ReadSame
    <3> QED
      BY <3>1 DEF SameArg
<1>3. Made(eL, c.ins, name) = Made(eS, ins, name) /\ SeenBy(eL, seen, c.ins, name) = SeenBy(eS, seen, ins, name)
  <2>1. /\ Value(eL, c.ins.args[2], name) = Value(eS, ins.args[2], name)
        /\ ins.op = "sub" => Value(eL, c.ins.args[1], name) = Value(eS, ins.args[1], name)
    BY <1>2
  <2> HIDE DEF ins, eL
  <2> QED
    BY <1>1, <2>1 DEF Made, SeenBy, ins
<1>4. DOMAIN eL = Places
  BY <1>1 DEF Agree
<1> HIDE DEF eL
<1>5. CASE Kept(c.ins) = c.ins
  <2>0. c.ins.op \in {"mov", "sub"}
    BY <1>1
  <2>1. Wrote(eL, seen, c.ins, name, Execute(St(eL, seen), c.ins, name, uses))
    BY <1>4, <2>0, ExecuteWrite
  <2> QED
    BY <1>3, <1>5, <2>1 DEF Wrote, eL, Arrives
<1>6. CASE Kept(c.ins) # c.ins
  <2>1. c.ins.op = "mov" /\ c.ins.args[1] \in Regs /\ c.ins.args[1] = c.ins.args[2] /\ Kept(c.ins) = Jmp
    BY <1>6 DEF Kept
  <2>2. after.env = eL /\ after.seen = seen
    BY <2>1, ExecuteJmp DEF eL
  <2>3. Made(eL, c.ins, name) = eL[c.ins.args[1]] /\ SeenBy(eL, seen, c.ins, name) = seen
    BY <2>1, RegAssumption DEF Made, SeenBy, Value
  <2>4. Put(eL, c.ins.args[1], Made(eL, c.ins, name), after.env)
    BY <1>4, <2>2, <2>3 DEF Put
  <2> QED
    BY <1>3, <2>2, <2>3, <2>4 DEF eL, Arrives
<1> QED
  BY <1>5, <1>6

\* Behind a move and a subtraction the two functions still agree.
LEMMA SameWrite ==
    ASSUME NEW f, NEW as, NEW b, NEW i, At(f, as, b, i), NEW c, Rewrites(as, Instr(f, b, i), b, i, c, Len(as)),
           Instr(f, b, i).op \in {"mov", "sub"}, NEW d, KeptOf(c, d),
           NEW sS, NEW sM, Same(f, as, b, i, sS, sM), NEW name, NEW uses
    PROVE  Same(f, as, b, i + 1, Step(sS, Rewritten(Instr(f, b, i)), name, uses), Step(sM, d, name, uses))
<1> DEFINE ins == Instr(f, b, i)
           nS == Step(sS, Rewritten(ins), name, uses)
           nM == Step(sM, d, name, uses)
           eS == sS.env
           eM == sM.env
           eL == Moved(eM, c.pre)
           v == Made(eS, ins, name)
           after == Execute(St(eL, sM.seen), Kept(c.ins), name, uses)
<1>1. Typed(c, ins.op) /\ ~ Self(ins) /\ ins.op \in {"mov", "sub"}
  BY DEF Rewrites
<1>2. Agree(f, as, b, i, eS, eM) /\ DOMAIN eS = Places /\ sS.seen = sM.seen
  BY DEF Same, Agree
<1>3. d.pre = c.pre /\ d.post = c.post /\ d.ins = Kept(c.ins)
  BY <1>1, KeptIs
<1>4. ins.args[1] \in Regs /\ ins.args[1] \in Places
  BY <1>1, SupportedInstr DEF At, Places
<1>5. PICK m : WritesHome(as, ins.args[1], b, i, c, m)
  BY DestHome
<1>6. c.ins.args[1] \in Places
  <2>1. m \in Places
    BY <1>5, HomeType DEF WritesHome, At
  <2>2. \A j \in 1..Len(as) : as[j].reg \in Places
    BY DEF At, AllocsOK, Places, Regs
  <2> QED
    BY <1>5, <2>1, <2>2 DEF WritesHome
<1>7. nS.env = Execute(St(eS, sS.seen), ins, name, uses).env /\ nS.seen = Execute(St(eS, sS.seen), ins, name, uses).seen
  BY OriginalStep
<1>8. nM.env = Moved(after.env, d.post) /\ nM.seen = after.seen
  BY <1>3, StepIs
<1> HIDE DEF eS, eM, nS, nM
<1>9. Put(eS, ins.args[1], v, nS.env) /\ nS.seen = SeenBy(eS, sS.seen, ins, name)
  <2>1. Wrote(eS, sS.seen, ins, name, Execute(St(eS, sS.seen), ins, name, uses))
    <3> HIDE DEF ins
    <3> QED
      BY <1>1, <1>2, <1>4, ExecuteWrite
  <2> QED
    BY <1>7, <2>1 DEF Wrote
<1>10. Put(eL, c.ins.args[1], v, after.env) /\ after.seen = SeenBy(eS, sM.seen, ins, name)
  <2>1. Arrives(eL, c.ins.args[1], eS, sM.seen, ins, name, after)
    BY <1>2, <1>6, WriteSame
  <2> QED
    BY <2>1 DEF Arrives
<1>11. Agree(f, as, b, i, eS, eL)
  BY <1>2, AfterLoads
<1>12. Agree(f, as, b, i + 1, nS.env, nM.env)
  <2> DEFINE e == nS.env
             g == after.env
  <2>1. Written(f, as, b, i, c, m, eS, eL, v, e, g)
    BY <1>1, <1>5, <1>9, <1>10 DEF Written
  <2> HIDE DEF e, g, eL, v
  <2>2. Agree(f, as, b, i + 1, e, Moved(g, c.post))
    BY <1>11, <2>1, AfterWrite
  <2> QED
    BY <1>3, <1>8, <2>2 DEF e, g
<1>13. nS.seen = nM.seen
  BY <1>2, <1>8, <1>9, <1>10
<1> QED
  BY <1>12, <1>13 DEF Same, nS, nM

\* Whatever the instruction, the two functions go on to agree.
LEMMA SameStep ==
    ASSUME NEW f, NEW as, NEW b, NEW i, At(f, as, b, i), NEW c, InsOK(as, Instr(f, b, i), b, i, c, Len(as)),
           NEW d, KeptOf(c, d), NEW sS, NEW sM, Same(f, as, b, i, sS, sM), NEW name
    PROVE  Same(f, as, b, i + 1, Step(sS, Rewritten(Instr(f, b, i)), name, CallArgs(f, b, i)),
                                 Step(sM, d, name, CallArgs(f, b, i)))
<1> DEFINE ins == Instr(f, b, i)
           uses == CallArgs(f, b, i)
<1>1. ASSUME NEW x, c = Rewritten(x) PROVE d = Rewritten(Kept(x))
  <2>1. Rewritten(x) = [pre |-> <<>>, ins |-> x, post |-> <<>>]
    BY DEF Rewritten
  <2> DEFINE k == Kept(x)
  <2>2. d = [Rewritten(x) EXCEPT !.ins = Kept(@)]
    BY <1>1 DEF KeptOf
  <2>3. d = [pre |-> <<>>, ins |-> k, post |-> <<>>]
    BY <2>1, <2>2
  <2> QED
    BY <2>3 DEF Rewritten
<1>2. CASE ins.op \notin Arity2 /\ c = Rewritten(ins)
  <2>1. ins = Call \/ ins = Jmp
    BY <1>2, SupportedInstr DEF At
  <2>2. Kept(Call) = Call /\ Kept(Jmp) = Jmp
    BY DEF Kept, Call, Jmp
  <2>3. d = Rewritten(ins)
    BY <1>1, <1>2, <2>1, <2>2
  <2>4. CASE ins = Call
    BY <2>3, <2>4, SameCall
  <2>5. CASE ins = Jmp
    BY <2>3, <2>5, SameJmp
  <2> QED
    BY <2>1, <2>4, <2>5
<1>3. CASE Self(ins) /\ \E a \in Regs : c = Rewritten(Mov(a, a))
  <2>1. PICK a \in Regs : c = Rewritten(Mov(a, a))
    BY <1>3
  <2>2. Kept(Mov(a, a)) = Jmp
    BY DEF Kept, Mov
  <2>3. d = Rewritten(Jmp)
    BY <1>1, <2>1, <2>2
  <2> QED
    BY <1>3, <2>3, SameSelf
<1>4. CASE Rewrites(as, ins, b, i, c, Len(as))
  <2>1. CASE ins.op = "cmp"
    BY <1>4, <2>1, SameCmp
  <2>2. CASE ins.op \in {"mov", "sub"}
    BY <1>4, <2>2, SameWrite
  <2> QED
    BY <1>4, <2>1, <2>2 DEF Rewrites
<1> QED
  BY <1>2, <1>3, <1>4 DEF InsOK

-----------------------------------------------------------------------------
(* Blocks and paths.                                                        *)

InstrRows(c, b, m, st, s) ==
    s = [i \in 0..Len(Block(func, b)) |->
            IF i = 0 THEN st ELSE Step(s[i - 1], c[b][i - 1], <<m, i>>, CallArgs(func, b, i - 1))]

\* The states s between the instructions of a block.
Inner(c, b, m, st, s) ==
    /\ InBlock(c, b, m, st) = s[Len(Block(func, b))] /\ s[0] = st
    /\ \A i \in 1..Len(Block(func, b)) :
         s[i] = Step(s[i - 1], c[b][i - 1], <<m, i>>, CallArgs(func, b, i - 1))

\* InBlock runs the instructions one after the other.
LEMMA InBlockIs ==
    ASSUME NEW c, NEW b, NEW m, NEW st, Len(Block(func, b)) \in Nat
    PROVE  \E s : Inner(c, b, m, st, s)
<1> DEFINE s == CHOOSE s : InstrRows(c, b, m, st, s)
           last == Len(Block(func, b))
<1>1. InBlock(c, b, m, st) = s[last]
  BY DEF InBlock, InstrRows
<1>2. last \in Nat
  OBVIOUS
<1>3. \E g : InstrRows(c, b, m, st, g)
  <2>1. PICK g : Rows("instr", c, b, m, st, g, last)
    BY <1>2, RowsExist
  <2>2. g = [i \in 0..last |-> IF i = 0 THEN st ELSE Step(g[i - 1], c[b][i - 1], <<m, i>>, CallArgs(func, b, i - 1))]
    BY <2>1 DEF Rows, Row
  <2> QED
    BY <2>2 DEF InstrRows
<1>4. InstrRows(c, b, m, st, s)
  BY <1>3
<1> HIDE DEF s
<1>5. \A i \in 0..last : s[i] = IF i = 0 THEN st ELSE Step(s[i - 1], c[b][i - 1], <<m, i>>, CallArgs(func, b, i - 1))
  BY <1>4 DEF InstrRows
<1>6. 0 \in 0..last /\ \A i \in 1..last : i \in 0..last /\ i # 0
  BY <1>2
<1> HIDE DEF last
<1>7. s[0] = st /\ \A i \in 1..last : s[i] = Step(s[i - 1], c[b][i - 1], <<m, i>>, CallArgs(func, b, i - 1))
  BY <1>5, <1>6
<1> QED
  BY <1>1, <1>7 DEF last, Inner

\* The pass is over, and what it relied on holds.
Finished == IInv /\ FInv /\ Supported(func) /\ phase = "done"

\* Every instruction has been rewritten right.
LEMMA FinishedAt ==
    ASSUME Finished, NEW b \in Blocks(func), NEW i \in Instrs(func, b)
    PROVE  /\ At(func, allocs, b, i)
           /\ \E c : InsOK(allocs, Instr(func, b, i), b, i, c, Len(allocs)) /\ KeptOf(c, code[b][i])
<1>1. AllocsOK(func, allocs) /\ func \in Funcs
  BY AllocsReady DEF Finished, FInv, PlacesOK, IInv, TypeOK
<1>2. i \in Nat
  BY DEF Instrs
<1>3. PICK c : InsOK(allocs, Instr(func, b, i), b, i, c, Len(allocs)) /\ code[b][i] = [c EXCEPT !.ins = Kept(@)]
  BY DEF Finished, FInv, CodeOK
<1> QED
  BY <1>1, <1>2, <1>3 DEF Finished, At, KeptOf

\* A block keeps the two functions in agreement.
LEMMA SameBlock ==
    ASSUME Finished, NEW b \in Blocks(func), NEW m, NEW sS, NEW sM, Same(func, allocs, b, 0, sS, sM)
    PROVE  Same(func, allocs, b, Len(Block(func, b)), InBlock(Original, b, m, sS), InBlock(code, b, m, sM))
<1> DEFINE last == Len(Block(func, b))
<1>1. last \in Nat /\ \A i \in 1..last : i - 1 \in Instrs(func, b) /\ (i - 1) + 1 = i
  <2>1. last \in Nat
    BY FuncsAssumption DEF Finished, IInv, TypeOK, WellFormed
  <2> QED
    BY <2>1 DEF Instrs
<1>2. PICK x : Inner(Original, b, m, sS, x)
  BY <1>1, InBlockIs
<1>3. PICK y : Inner(code, b, m, sM, y)
  BY <1>1, InBlockIs
<1>4. ASSUME NEW i \in 1..last, Same(func, allocs, b, i - 1, x[i - 1], y[i - 1])
      PROVE  Same(func, allocs, b, i, x[i], y[i])
  <2> DEFINE n == i - 1
             u == x[n]
             w == y[n]
             d == code[b][n]
             name == <<m, i>>
  <2>1. n \in Instrs(func, b) /\ n + 1 = i
    BY <1>1
  <2>2. At(func, allocs, b, n)
    BY <2>1, FinishedAt
  <2>3. PICK c : InsOK(allocs, Instr(func, b, n), b, n, c, Len(allocs)) /\ KeptOf(c, d)
    BY <2>1, FinishedAt
  <2>4. Original[b][n] = Rewritten(Instr(func, b, n))
    BY <2>1 DEF Original
  <2>5. x[i] = Step(u, Rewritten(Instr(func, b, n)), name, CallArgs(func, b, n))
    BY <1>2, <2>4 DEF Inner
  <2>6. y[i] = Step(w, d, name, CallArgs(func, b, n))
    BY <1>3 DEF Inner
  <2>7. Same(func, allocs, b, n, u, w)
    BY <1>4
  <2> HIDE DEF n, u, w, d, name
  <2>8. Same(func, allocs, b, n + 1, Step(u, Rewritten(Instr(func, b, n)), name, CallArgs(func, b, n)),
                                     Step(w, d, name, CallArgs(func, b, n)))
    BY <2>2, <2>3, <2>7, SameStep
  <2> QED
    BY <2>1, <2>5, <2>6, <2>8
<1> DEFINE S == {i \in 0..last : ~ Same(func, allocs, b, i, x[i], y[i])}
<1>5. S = {}
  <2> SUFFICES ASSUME S # {} PROVE FALSE
    OBVIOUS
  <2>1. PICK i \in S : \A j \in S : i <= j
    <3>1. S \subseteq Nat
      BY <1>1
    <3> HIDE DEF S
    <3> QED
      BY <3>1, LeastNumber
  <2>2. i # 0
    <3>1. Same(func, allocs, b, 0, x[0], y[0])
      BY <1>2, <1>3 DEF Inner
    <3> QED
      BY <2>1, <3>1
  <2>3. i \in 1..last /\ i - 1 \in 0..last /\ i - 1 < i
    BY <1>1, <2>1, <2>2
  <2>4. Same(func, allocs, b, i - 1, x[i - 1], y[i - 1])
    BY <2>1, <2>3
  <2> QED
    BY <1>4, <2>1, <2>3, <2>4
<1>6. Same(func, allocs, b, last, x[last], y[last])
  <2>1. last \in 0..last
    BY <1>1
  <2> QED
    BY <1>5, <2>1
<1> QED
  BY <1>2, <1>3, <1>6 DEF Inner

\* What is needed at the start of a block is kept by the blocks before it.
LEMMA SameNext ==
    ASSUME NEW f, WellFormed(f), NEW as, NEW b \in Blocks(f), NEW d \in Succs(f, b), NEW sS, NEW sM,
           Same(f, as, b, Len(Block(f, b)), sS, sM)
    PROVE  Same(f, as, d, 0, sS, sM)
<1>1. ASSUME NEW r \in Regs, Live(f, d, 0, r) PROVE Live(f, b, Len(Block(f, b)), r)
  <2>1. r \in LiveOuts(f)[b]
    BY <1>1, NeededNext DEF Live
  <2>2. Len(Block(f, b)) \in Nat
    BY DEF WellFormed
  <2> QED
    BY <2>1, <2>2 DEF Live, NeededAt, Instrs
<1> QED
  BY <1>1 DEF Same, Agree

\* No virtual register is needed where a function starts.
LEMMA SameStart ==
    ASSUME NEW f, WellFormed(f), Supported(f), 0 \in Blocks(f), NEW as
    PROVE  Same(f, as, 0, 0, Start, Start)
<1> DEFINE e == Start.env
<1>1. e = [a \in Places |-> IF a \in PRegs THEN <<-1, a>> ELSE Undefined]
  BY DEF Start, Places
<1>2. DOMAIN e = Places
  BY <1>1
<1> HIDE DEF e
<1>3. ASSUME NEW r \in Regs, NEW l \in Places, Home(as, r, l), Live(f, 0, 0, r) PROVE l = r
  <2> DEFINE b == 0
  <2>1. b \in Blocks(f) /\ NeededAt(f, b, 0, r, LiveOuts(f)[b])
    BY <1>3 DEF Live
  <2>2. LiveIns(f)[b] \subseteq PRegs
    BY DEF Supported
  <2> HIDE DEF b
  <2>3. r \in Uses(f, b) \/ (r \in LiveOuts(f)[b] /\ r \notin Defs(f, b))
    BY <2>1, NeededAtStart
  <2>4. r \in LiveIns(f)[b]
    BY <2>1, <2>3, LiveInsSolve
  <2> QED
    BY <1>3, <2>2, <2>4 DEF Home
<1>4. Agree(f, as, 0, 0, e, e)
  BY <1>2, <1>3 DEF Agree
<1> QED
  BY <1>4 DEF Same, e

PathRows(c, p, s) ==
    s = [m \in 0..Len(p) |-> IF m = 0 THEN Start ELSE InBlock(c, p[m], m, s[m - 1])]

\* The states s between the blocks of a path.
Outer(c, p, s) ==
    /\ Run(c, p) = s[Len(p)] /\ s[0] = Start
    /\ \A m \in 1..Len(p) : s[m] = InBlock(c, p[m], m, s[m - 1])

\* Run runs the blocks of a path one after the other.
LEMMA RunIs ==
    ASSUME NEW c, NEW p, Len(p) \in Nat
    PROVE  \E s : Outer(c, p, s)
<1> DEFINE s == CHOOSE s : PathRows(c, p, s)
           last == Len(p)
<1>1. Run(c, p) = s[last]
  BY DEF Run, PathRows
<1>2. last \in Nat
  OBVIOUS
<1>3. \E g : PathRows(c, p, g)
  <2>1. PICK g : Rows("block", c, p, 0, Start, g, last)
    BY <1>2, RowsExist
  <2>2. g = [m \in 0..last |-> IF m = 0 THEN Start ELSE InBlock(c, p[m], m, g[m - 1])]
    BY <2>1 DEF Rows, Row
  <2> QED
    BY <2>2 DEF PathRows
<1>4. PathRows(c, p, s)
  BY <1>3
<1> HIDE DEF s
<1>5. \A m \in 0..last : s[m] = IF m = 0 THEN Start ELSE InBlock(c, p[m], m, s[m - 1])
  BY <1>4 DEF PathRows
<1>6. 0 \in 0..last /\ \A m \in 1..last : m \in 0..last /\ m # 0
  BY <1>2
<1> HIDE DEF last
<1>7. s[0] = Start /\ \A m \in 1..last : s[m] = InBlock(c, p[m], m, s[m - 1])
  BY <1>5, <1>6
<1> QED
  BY <1>1, <1>7 DEF last, Outer

\* The paths of the function, of any length; Paths are the short ones.
LongPaths ==
    {p \in Seq(Blocks(func)) :
        /\ p # <<>> /\ p[1] = 0
        /\ \A m \in 1..(Len(p) - 1) : p[m + 1] \in Succs(func, p[m])}

\* The paths of Faithful are paths.
LEMMA PathsAreLong == WellFormed(func) => Paths \subseteq LongPaths
<1> SUFFICES ASSUME WellFormed(func), NEW p \in Paths
             PROVE  p \in LongPaths
  OBVIOUS
<1>1. PICK n \in 1..(Len(func.blocks) + 1) : p \in [1..n -> Blocks(func)]
  BY DEF Paths
<1>2. n \in Nat \ {0}
  BY DEF WellFormed
<1>3. p \in Seq(Blocks(func)) /\ p # <<>>
  BY <1>1, <1>2
<1> QED
  BY <1>3 DEF Paths, LongPaths

\* Along a path the two functions see the same values.
LEMMA SamePath ==
    ASSUME Finished, NEW p \in LongPaths
    PROVE  Run(code, p).seen = Run(Original, p).seen
<1> DEFINE last == Len(p)
<1>1. /\ last \in Nat \ {0} /\ \A m \in 1..last : p[m] \in Blocks(func)
      /\ p[1] = 0 /\ \A m \in 1..last : m # 1 => p[m] \in Succs(func, p[m - 1])
  <2>1. p \in Seq(Blocks(func)) /\ p # <<>>
    BY DEF LongPaths
  <2>2. Len(p) \in Nat \ {0} /\ \A m \in 1..Len(p) : p[m] \in Blocks(func)
    BY <2>1
  <2>3. p[1] = 0 /\ \A m \in 1..(Len(p) - 1) : p[m + 1] \in Succs(func, p[m])
    BY DEF LongPaths
  <2>4. ASSUME NEW m \in 1..Len(p), m # 1 PROVE p[m] \in Succs(func, p[m - 1])
    <3>1. m - 1 \in 1..(Len(p) - 1) /\ (m - 1) + 1 = m
      BY <2>2, <2>4
    <3>2. p[(m - 1) + 1] \in Succs(func, p[m - 1])
      BY <2>3, <3>1
    <3> QED
      BY <3>1, <3>2
  <2> QED
    BY <2>2, <2>3, <2>4
<1>2. PICK x : Outer(Original, p, x)
  BY <1>1, RunIs
<1>3. PICK y : Outer(code, p, y)
  BY <1>1, RunIs
<1> DEFINE Alike(m) == Same(func, allocs, p[m], Len(Block(func, p[m])), x[m], y[m])
<1>4. ASSUME NEW m \in 1..last, m # 1 => Alike(m - 1) PROVE Alike(m)
  <2> DEFINE b == p[m]
             u == x[m - 1]
             w == y[m - 1]
  <2>1. b \in Blocks(func) /\ WellFormed(func) /\ Supported(func)
    BY <1>1, FuncsAssumption DEF Finished, IInv, TypeOK
  <2>2. Same(func, allocs, b, 0, u, w)
    <3>1. CASE m = 1
      <4>1. u = Start /\ w = Start /\ b = 0
        BY <1>1, <1>2, <1>3, <3>1 DEF Outer
      <4>2. 0 \in Blocks(func)
        BY <2>1, <4>1
      <4>3. Same(func, allocs, 0, 0, Start, Start)
        BY <2>1, <4>2, SameStart
      <4> QED
        BY <4>1, <4>3
    <3>2. CASE m # 1
      <4> DEFINE a == p[m - 1]
      <4>1. a \in Blocks(func) /\ b \in Succs(func, a)
        BY <1>1, <3>2
      <4>2. Same(func, allocs, a, Len(Block(func, a)), u, w)
        BY <1>4, <3>2
      <4> HIDE DEF a, b, u, w
      <4> QED
        BY <2>1, <4>1, <4>2, SameNext
    <3> QED
      BY <3>1, <3>2
  <2>3. x[m] = InBlock(Original, b, m, u) /\ y[m] = InBlock(code, b, m, w)
    BY <1>2, <1>3 DEF Outer
  <2> HIDE DEF u, w
  <2>4. Same(func, allocs, b, Len(Block(func, b)), InBlock(Original, b, m, u), InBlock(code, b, m, w))
    <3> HIDE DEF b
    <3> QED
      BY <2>1, <2>2, SameBlock
  <2> QED
    BY <2>3, <2>4
<1> DEFINE S == {m \in 1..last : ~ Alike(m)}
<1>5. S = {}
  <2> SUFFICES ASSUME S # {} PROVE FALSE
    OBVIOUS
  <2>1. PICK m \in S : \A j \in S : m <= j
    <3>1. S \subseteq Nat
      BY <1>1
    <3> HIDE DEF S
    <3> QED
      BY <3>1, LeastNumber
  <2> HIDE DEF Alike
  <2>2. m \in 1..last /\ ~ Alike(m) /\ (m # 1 => m - 1 \in 1..last /\ m - 1 < m)
    BY <1>1, <2>1
  <2>3. m # 1 => Alike(m - 1)
    BY <2>1, <2>2
  <2> QED
    BY <1>4, <2>2, <2>3
<1>6. Alike(last)
  <2>1. last \in 1..last
    BY <1>1
  <2> HIDE DEF Alike
  <2> QED
    BY <1>5, <2>1
<1>7. x[last].seen = y[last].seen
  BY <1>6 DEF Same
<1> QED
  BY <1>2, <1>3, <1>7 DEF Outer

\* Faithful for paths of any length; those of Faithful enter no more blocks
\* than the function has and one more, so that TLC can go through them.
FaithfulThroughout ==
    phase = "done" =>
        NoneLeft /\ \A p \in LongPaths : Run(code, p).seen = Run(Original, p).seen

\* The two invariants say what the rewritten code computes.
LEMMA FinishedIsFaithful == IInv /\ FInv /\ Supported(func) => FaithfulThroughout
<1> SUFFICES ASSUME IInv, FInv, Supported(func), phase = "done"
             PROVE  NoneLeft /\ \A p \in LongPaths : Run(code, p).seen = Run(Original, p).seen
  BY DEF FaithfulThroughout
<1>1. NoneLeft
  BY NoneIsLeft
<1>2. Finished
  BY DEF Finished
<1> QED
  BY <1>1, <1>2, SamePath

\* The rewritten code computes what the function computed, along paths of any
\* length, as often as they go round a loop (apply_alloc, insert_load,
\* insert_store, remove_useless_instrs).
THEOREM AlwaysFaithfulThroughout ==
    ASSUME \A f \in Funcs : Supported(f)
    PROVE  Spec /\ []EnoughRegisters => []FaithfulThroughout
<1>1. IInv => Supported(func)
  BY DEF IInv, TypeOK
<1>2. IInv /\ FInv => FaithfulThroughout
  BY <1>1, FinishedIsFaithful
<1> QED
  BY <1>2, FInvariance, PTL

\* In particular along the paths of Faithful, which TLC checks: each
\* instruction reads what it would have read if there were a register for
\* every virtual register, and no virtual register is left.
THEOREM AlwaysFaithful ==
    ASSUME \A f \in Funcs : Supported(f)
    PROVE  Spec /\ []EnoughRegisters => []Faithful
<1>1. IInv => WellFormed(func)
  BY FuncsAssumption DEF IInv, TypeOK
<1>2. IInv /\ FaithfulThroughout => Faithful
  BY <1>1, PathsAreLong DEF FaithfulThroughout, Faithful
<1> QED
  BY <1>2, Invariance, AlwaysFaithfulThroughout, PTL
==============================================================================
