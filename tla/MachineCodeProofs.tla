-------------------------- MODULE MachineCodeProofs --------------------------
(***************************************************************************)
(* Proofs about MachineCode for every function: what the scan of a block   *)
(* does to a register at one instruction, and, from that, what the         *)
(* register allocator takes from the liveness analysis - that every        *)
(* operand is inside a live range of its register.                         *)
(***************************************************************************)
EXTENDS MachineCode, NaturalsInduction, WellFoundedInduction, FiniteSetTheorems, TLAPS

\* A set of numbers has a least one.
LEMMA LeastNumber ==
    ASSUME NEW S, S \subseteq Nat, S # {}
    PROVE  \E n \in S : \A m \in S : n <= m
<1> DEFINE R == {p \in Nat \X Nat : p[1] < p[2]}
<1>1. OpToRel(<, Nat) = R
  BY DEF OpToRel
<1>2. IsWellFoundedOn(R, Nat)
  BY <1>1, NatLessThanWellFounded
<1>3. \A m, n \in Nat : m < n => <<m, n>> \in R
  OBVIOUS
<1> HIDE DEF R
<1>4. PICK n \in S : \A m \in S : ~(<<m, n>> \in R)
  BY <1>2, WFMin, ZenonT(30)
<1>5. \A m \in S : ~(m < n)
  BY <1>3, <1>4
<1> QED
  BY <1>4, <1>5

\* An instruction never reports the definition of a register before its use.
LEMMA UseBeforeDef ==
    ASSUME NEW f, NEW b, NEW i, NEW r,
           NEW n \in DOMAIN RegOps(f, b, i),
           RegOps(f, b, i)[n].usage = "USE", r \in RegOps(f, b, i)[n].regs,
           NEW m \in 1..(n - 1)
    PROVE  ~(RegOps(f, b, i)[m].usage = "DEF" /\ r \in RegOps(f, b, i)[m].regs)
<1> DEFINE this == Instr(f, b, i)
           Arg(j) == {this.args[j]} \intersect Regs
<1> HIDE DEF this
<1>1. CASE this.op = "mov"
  <2>1. RegOps(f, b, i) = IF Arg(1) = Arg(2) THEN <<>> ELSE <<Op("DEF", Arg(1)), Op("USE", Arg(2))>>
    BY <1>1 DEF RegOps, this
  <2>2. Arg(1) # Arg(2) /\ RegOps(f, b, i) = <<Op("DEF", Arg(1)), Op("USE", Arg(2))>>
    <3>1. RegOps(f, b, i) # <<>>
      OBVIOUS
    <3> HIDE DEF Arg
    <3> QED
      BY <2>1, <3>1
  <2>3. n = 2 /\ m = 1 /\ r \in Arg(2)
    BY <2>2 DEF Op
  <2>4. r \notin Arg(1)
    BY <2>2, <2>3
  <2> QED
    BY <2>2, <2>3, <2>4 DEF Op
<1>2. CASE this.op \in {"add", "sub"}
  <2>1. RegOps(f, b, i) = <<Op("USE_DEF", Arg(1)), Op("USE", Arg(2))>>
    BY <1>2 DEF RegOps, this
  <2> QED
    BY <2>1 DEF Op
<1>3. CASE this.op = "cmp"
  <2>1. RegOps(f, b, i) = <<Op("USE", Arg(1)), Op("USE", Arg(2))>>
    BY <1>3 DEF RegOps, this
  <2> QED
    BY <2>1 DEF Op
<1>4. CASE this.op = "call"
  <2>1. RegOps(f, b, i) = <<Op("KILL", Volatile), Op("USE", CallArgs(f, b, i)), Op("DEF", {RetReg})>>
    BY <1>4 DEF RegOps, this
  <2> QED
    BY <2>1 DEF Op
<1>5. CASE this.op \notin {"mov", "add", "sub", "cmp", "call"}
  <2>1. RegOps(f, b, i) = <<>>
    BY <1>5 DEF RegOps, this
  <2> QED
    BY <2>1
<1> QED
  BY <1>1, <1>2, <1>3, <1>4, <1>5

-----------------------------------------------------------------------------
\* The rows of LiveIns: row n is made from row n - 1.
LiveRow(f, n, prev) ==
    [b \in Blocks(f) |->
        IF n = 0 THEN {}
        ELSE Uses(f, b) \union ((UNION {prev[s] : s \in Succs(f, b)}) \ Defs(f, b))]

LiveRows(f, g, last) == g = [n \in 0..last |-> LiveRow(f, n, g[n - 1])]

\* The recursion of LiveIns has a solution,
LEMMA LiveRowsExist ==
    ASSUME NEW f, NEW last \in Nat
    PROVE  \E g : LiveRows(f, g, last)
<1> DEFINE S == {l \in Nat : ~\E g : LiveRows(f, g, l)}
<1>1. \A x, y : LiveRow(f, 0, x) = LiveRow(f, 0, y)
  BY DEF LiveRow
<1>2. \E g : LiveRows(f, g, 0)
  <2> DEFINE g == [n \in 0..0 |-> LiveRow(f, 0, "none")]
  <2>1. \A n \in 0..0 : LiveRow(f, 0, "none") = LiveRow(f, n, g[n - 1])
    <3>1. \A n \in 0..0 : n = 0
      OBVIOUS
    <3> HIDE DEF g
    <3> QED
      BY <1>1, <3>1
  <2> HIDE DEF g
  <2>2. g = [n \in 0..0 |-> LiveRow(f, 0, "none")]
    BY DEF g
  <2>3. g = [n \in 0..0 |-> LiveRow(f, n, g[n - 1])]
    BY <2>1, <2>2
  <2> QED
    BY <2>3 DEF LiveRows
<1>3. ASSUME NEW l \in Nat, NEW h, LiveRows(f, h, l)
      PROVE  \E g : LiveRows(f, g, l + 1)
  <2>1. PICK g : g = [n \in 0..(l + 1) |-> IF n = l + 1 THEN LiveRow(f, l + 1, h[l]) ELSE h[n]]
    OBVIOUS
  <2>2. \A n \in 0..l : g[n] = h[n] /\ h[n] = LiveRow(f, n, h[n - 1])
    BY <1>3, <2>1 DEF LiveRows
  <2>3. ASSUME NEW n \in 0..(l + 1) PROVE g[n] = LiveRow(f, n, g[n - 1])
    <3>1. CASE n = l + 1
      <4>1. g[n] = LiveRow(f, l + 1, h[l]) /\ g[n - 1] = h[l]
        BY <2>1, <2>2, <3>1
      <4> QED
        BY <3>1, <4>1
    <3>2. CASE n = 0
      BY <1>1, <2>2, <3>2
    <3>3. CASE n # 0 /\ n # l + 1
      <4>1. n \in 0..l /\ n - 1 \in 0..l
        BY <3>3
      <4>2. g[n] = LiveRow(f, n, h[n - 1]) /\ g[n - 1] = h[n - 1]
        BY <2>2, <4>1
      <4> QED
        BY <4>2
    <3> QED
      BY <3>1, <3>2, <3>3
  <2>4. g = [n \in 0..(l + 1) |-> g[n]]
    BY <2>1
  <2>5. LiveRows(f, g, l + 1)
    BY <2>3, <2>4 DEF LiveRows
  <2> QED
    BY <2>5
<1>4. S = {}
  <2> SUFFICES ASSUME S # {} PROVE FALSE
    OBVIOUS
  <2>1. PICK l \in S : \A j \in S : l <= j
    BY LeastNumber
  <2>2. l \in Nat \ {0}
    BY <1>2
  <2>3. \E h : LiveRows(f, h, l - 1)
    BY <2>1, <2>2
  <2>4. \E g : LiveRows(f, g, (l - 1) + 1)
    BY <1>3, <2>2, <2>3
  <2> QED
    BY <2>2, <2>4
<1> QED
  BY <1>4

\* whose last row is LiveIns.
LEMMA LiveInsRows ==
    ASSUME NEW f, Len(f.blocks) \in Nat
    PROVE  \E g : /\ LiveIns(f) = g[Len(f.blocks)]
                  /\ \A n \in 0..Len(f.blocks) : g[n] = LiveRow(f, n, g[n - 1])
<1> DEFINE g == CHOOSE g : LiveRows(f, g, Len(f.blocks))
<1>1. LiveIns(f) = g[Len(f.blocks)]
  BY DEF LiveIns, LiveRows, LiveRow
<1>2. LiveRows(f, g, Len(f.blocks))
  BY LiveRowsExist
<1> HIDE DEF g
<1>3. \A n \in 0..Len(f.blocks) : g[n] = LiveRow(f, n, g[n - 1])
  BY <1>2 DEF LiveRows
<1> QED
  BY <1>1, <1>3

-----------------------------------------------------------------------------
(* The scan of a block, one operand and one instruction at a time.         *)

Spans(b) == [block : {b}, start : Int, end : Int]

ScanState(b) ==
    [live : SUBSET Regs, kills : SUBSET [reg : Regs, block : {b}, instr : Int],
     ranges : [Regs -> Seq(Spans(b))]]

Point(b, p) == LiveRange(b, p, p)

\* SetStart moves the start of the last range.
LEMMA SetStartEffect ==
    ASSUME NEW b, NEW q \in Seq(Spans(b)), NEW p \in Int
    PROVE  LET t == SetStart(q, p)
           IN  /\ t \in Seq(Spans(b)) /\ Len(t) = Len(q)
               /\ \A m \in 1..Len(q) : /\ t[m] \in Spans(b) /\ t[m].end = q[m].end
                                       /\ t[m].start = IF m = Len(q) THEN p ELSE q[m].start
<1> DEFINE last == [q[Len(q)] EXCEPT !.start = p]
           t == SetStart(q, p)
<1>1. q \in [1..Len(q) -> Spans(b)] /\ Len(q) \in Nat
  OBVIOUS
<1>2. t = [q EXCEPT ![Len(q)] = last]
  BY DEF SetStart
<1>3. Len(q) \in 1..Len(q) => /\ last \in Spans(b)
                             /\ last.start = p /\ last.end = q[Len(q)].end
  BY <1>1 DEF Spans
<1> HIDE DEF last, t
<1>4. t \in [1..Len(q) -> Spans(b)]
  BY <1>1, <1>2, <1>3
<1>5. t \in Seq(Spans(b)) /\ Len(t) = Len(q)
  BY <1>1, <1>4
<1>6. ASSUME NEW m \in 1..Len(q)
      PROVE  /\ t[m] \in Spans(b) /\ t[m].end = q[m].end
             /\ t[m].start = IF m = Len(q) THEN p ELSE q[m].start
  BY <1>1, <1>2, <1>3, <1>4
<1> QED
  BY <1>5, <1>6 DEF t

\* What the scan does at a read,
LEMMA ScanUseEffect ==
    ASSUME NEW b, NEW i \in Nat, NEW s \in ScanState(b), NEW regs \in SUBSET Regs
    PROVE  LET t == ScanUse(s, b, i, regs)
           IN  /\ t \in ScanState(b)
               /\ t.live = s.live \union regs
               /\ \A r \in Regs : t.ranges[r] = IF r \in regs \ s.live
                    THEN Append(s.ranges[r], Point(b, UsePoint(i))) ELSE s.ranges[r]
<1> DEFINE ranges == [r \in Regs |-> IF r \in regs \ s.live
                         THEN Append(s.ranges[r], Point(b, UsePoint(i))) ELSE s.ranges[r]]
<1>1. Point(b, UsePoint(i)) \in Spans(b)
  BY DEF Point, LiveRange, UsePoint, Spans
<1>2. ranges \in [Regs -> Seq(Spans(b))]
  BY <1>1 DEF ScanState
<1>3. ScanUse(s, b, i, regs) = [s EXCEPT !.live = s.live \union regs, !.ranges = ranges]
  BY DEF ScanUse, Point
<1>4. \A r \in Regs : ranges[r] = IF r \in regs \ s.live
        THEN Append(s.ranges[r], Point(b, UsePoint(i))) ELSE s.ranges[r]
  OBVIOUS
<1> HIDE DEF ranges
<1>5. s.live \union regs \in SUBSET Regs
  BY DEF ScanState
<1> QED
  BY <1>2, <1>3, <1>4, <1>5 DEF ScanState

\* at a write,
LEMMA ScanDefEffect ==
    ASSUME NEW b, NEW i \in Nat, NEW s \in ScanState(b), NEW regs \in SUBSET Regs
    PROVE  LET t == ScanDef(s, b, i, regs)
           IN  /\ t \in ScanState(b)
               /\ t.live = s.live \ regs
               /\ \A r \in Regs : t.ranges[r] =
                    IF r \notin regs THEN s.ranges[r]
                    ELSE IF r \in s.live THEN SetStart(s.ranges[r], DefPoint(i))
                    ELSE Append(s.ranges[r], Point(b, DefPoint(i)))
<1> DEFINE ranges == [r \in Regs |->
                         IF r \notin regs THEN s.ranges[r]
                         ELSE IF r \in s.live THEN SetStart(s.ranges[r], DefPoint(i))
                         ELSE Append(s.ranges[r], Point(b, DefPoint(i)))]
<1>1. Point(b, DefPoint(i)) \in Spans(b)
  BY DEF Point, LiveRange, DefPoint, Spans
<1>2. \A q \in Seq(Spans(b)) : SetStart(q, DefPoint(i)) \in Seq(Spans(b))
  <2>1. DefPoint(i) \in Int
    BY DEF DefPoint
  <2> QED
    BY <2>1, SetStartEffect
<1>3. ranges \in [Regs -> Seq(Spans(b))]
  BY <1>1, <1>2 DEF ScanState
<1>4. ScanDef(s, b, i, regs) = [s EXCEPT !.live = s.live \ regs, !.ranges = ranges]
  BY DEF ScanDef, Point
<1>5. \A r \in Regs : ranges[r] =
        IF r \notin regs THEN s.ranges[r]
        ELSE IF r \in s.live THEN SetStart(s.ranges[r], DefPoint(i))
        ELSE Append(s.ranges[r], Point(b, DefPoint(i)))
  OBVIOUS
<1> HIDE DEF ranges
<1>6. s.live \ regs \in SUBSET Regs
  BY DEF ScanState
<1> QED
  BY <1>3, <1>4, <1>5, <1>6 DEF ScanState

\* at both,
LEMMA ScanUseDefEffect ==
    ASSUME NEW b, NEW i \in Nat, NEW s \in ScanState(b), NEW regs \in SUBSET Regs
    PROVE  LET t == ScanUseDef(s, b, i, regs)
           IN  /\ t \in ScanState(b)
               /\ t.live = s.live \union regs
               /\ \A r \in Regs : t.ranges[r] = IF r \in regs \ s.live
                    THEN Append(s.ranges[r], LiveRange(b, UsePoint(i), DefPoint(i))) ELSE s.ranges[r]
<1> DEFINE ranges == [r \in Regs |-> IF r \in regs \ s.live
                         THEN Append(s.ranges[r], LiveRange(b, UsePoint(i), DefPoint(i))) ELSE s.ranges[r]]
<1>1. LiveRange(b, UsePoint(i), DefPoint(i)) \in Spans(b)
  BY DEF LiveRange, UsePoint, DefPoint, Spans
<1>2. ranges \in [Regs -> Seq(Spans(b))]
  BY <1>1 DEF ScanState
<1>3. ScanUseDef(s, b, i, regs) = [s EXCEPT !.live = s.live \union regs, !.ranges = ranges]
  BY DEF ScanUseDef
<1>4. \A r \in Regs : ranges[r] = IF r \in regs \ s.live
        THEN Append(s.ranges[r], LiveRange(b, UsePoint(i), DefPoint(i))) ELSE s.ranges[r]
  OBVIOUS
<1> HIDE DEF ranges
<1>5. s.live \union regs \in SUBSET Regs
  BY DEF ScanState
<1> QED
  BY <1>2, <1>3, <1>4, <1>5 DEF ScanState

\* and at a call that destroys registers.
LEMMA ScanKillEffect ==
    ASSUME NEW b, NEW i \in Nat, NEW s \in ScanState(b), NEW regs \in SUBSET Regs
    PROVE  LET t == ScanKill(s, b, i, regs)
           IN  t \in ScanState(b) /\ t.live = s.live \ regs /\ t.ranges = s.ranges
<1> DEFINE kills == s.kills \union {[reg |-> r, block |-> b, instr |-> i] : r \in regs}
<1>1. kills \subseteq [reg : Regs, block : {b}, instr : Int]
  BY DEF ScanState
<1>2. ScanKill(s, b, i, regs) = [s EXCEPT !.live = s.live \ regs, !.kills = kills]
  BY DEF ScanKill
<1> HIDE DEF kills
<1> QED
  BY <1>1, <1>2 DEF ScanState

\* The loop over the operands of an instruction, of which there are at most
\* three.
LEMMA ScanInstrSteps ==
    ASSUME NEW f, NEW b, NEW i, NEW s
    PROVE  /\ RegOps(f, b, i) = <<>> => ScanInstr(f, b, i, s) = s
           /\ \A x, y : RegOps(f, b, i) = <<x, y>> =>
                ScanInstr(f, b, i, s) = ScanOp(ScanOp(s, b, i, x), b, i, y)
           /\ \A x, y, z : RegOps(f, b, i) = <<x, y, z>> =>
                ScanInstr(f, b, i, s) = ScanOp(ScanOp(ScanOp(s, b, i, x), b, i, y), b, i, z)
<1> DEFINE ops == RegOps(f, b, i)
           Steps(g) == g = [m \in 0..Len(ops) |-> IF m = 0 THEN s ELSE ScanOp(g[m - 1], b, i, ops[m])]
           after == CHOOSE g : Steps(g)
           s1 == ScanOp(s, b, i, ops[1])
           s2 == ScanOp(s1, b, i, ops[2])
           s3 == ScanOp(s2, b, i, ops[3])
<1>1. ScanInstr(f, b, i, s) = after[Len(ops)]
  BY DEF ScanInstr
<1>2. ASSUME Len(ops) \in 0..3
      PROVE  \E g : Steps(g)
  <2> DEFINE g == [m \in 0..Len(ops) |->
                      IF m = 0 THEN s ELSE IF m = 1 THEN s1 ELSE IF m = 2 THEN s2 ELSE s3]
  <2> HIDE DEF ops
  <2>1. \A m \in 0..Len(ops) : m \in 0..3 /\ (m # 0 => m - 1 \in 0..Len(ops))
    <3> DEFINE n == Len(ops)
    <3> HIDE DEF n
    <3>1. n \in 0..3
      BY <1>2 DEF n, ops
    <3>2. \A m \in 0..n : m \in 0..3 /\ (m # 0 => m - 1 \in 0..n)
      BY <3>1
    <3> QED
      BY <3>2 DEF n
  <2>2. \A m \in 0..Len(ops) : g[m] = IF m = 0 THEN s ELSE ScanOp(g[m - 1], b, i, ops[m])
    <3> SUFFICES ASSUME NEW m \in 0..Len(ops)
                 PROVE  g[m] = IF m = 0 THEN s ELSE ScanOp(g[m - 1], b, i, ops[m])
      OBVIOUS
    <3>1. CASE m = 0
      BY <3>1
    <3>2. CASE m = 1
      <4>1. g[m] = s1 /\ g[m - 1] = s
        BY <2>1, <3>2
      <4> QED
        BY <3>2, <4>1
    <3>3. CASE m = 2
      <4>1. g[m] = s2 /\ g[m - 1] = s1
        BY <2>1, <3>3
      <4> QED
        BY <3>3, <4>1
    <3>4. CASE m = 3
      <4>1. g[m] = s3 /\ g[m - 1] = s2
        BY <2>1, <3>4
      <4> QED
        BY <3>4, <4>1
    <3> QED
      BY <2>1, <3>1, <3>2, <3>3, <3>4
  <2>3. g = [m \in 0..Len(ops) |-> g[m]]
    OBVIOUS
  <2> HIDE DEF g
  <2>4. Steps(g)
    BY <2>2, <2>3
  <2> QED
    BY <2>4
<1>3. ASSUME Len(ops) \in 0..3
      PROVE  \A m \in 0..Len(ops) :
               after[m] = IF m = 0 THEN s ELSE ScanOp(after[m - 1], b, i, ops[m])
  <2>1. Steps(after)
    BY <1>2, <1>3
  <2> HIDE DEF after, ops
  <2> QED
    BY <2>1
<1> HIDE DEF after
<1>4. ASSUME ops = <<>> PROVE ScanInstr(f, b, i, s) = s
  BY <1>1, <1>3, <1>4
<1>5. ASSUME NEW x, NEW y, ops = <<x, y>>
      PROVE  ScanInstr(f, b, i, s) = ScanOp(ScanOp(s, b, i, x), b, i, y)
  <2>1. Len(ops) = 2 /\ ops[1] = x /\ ops[2] = y
    BY <1>5
  <2> HIDE DEF ops
  <2>2. after[0] = s
    BY <1>3, <2>1
  <2>3. after[1] = ScanOp(after[0], b, i, x)
    BY <1>3, <2>1
  <2>4. after[2] = ScanOp(after[1], b, i, y)
    BY <1>3, <2>1
  <2> QED
    BY <1>1, <2>1, <2>2, <2>3, <2>4
<1>6. ASSUME NEW x, NEW y, NEW z, ops = <<x, y, z>>
      PROVE  ScanInstr(f, b, i, s) = ScanOp(ScanOp(ScanOp(s, b, i, x), b, i, y), b, i, z)
  <2>1. Len(ops) = 3 /\ ops[1] = x /\ ops[2] = y /\ ops[3] = z
    BY <1>6
  <2> HIDE DEF ops
  <2>2. after[0] = s
    BY <1>3, <2>1
  <2>3. after[1] = ScanOp(after[0], b, i, x)
    BY <1>3, <2>1
  <2>4. after[2] = ScanOp(after[1], b, i, y)
    BY <1>3, <2>1
  <2>5. after[3] = ScanOp(after[2], b, i, z)
    BY <1>3, <2>1
  <2> QED
    BY <1>1, <2>1, <2>2, <2>3, <2>4, <2>5
<1> QED
  BY <1>4, <1>5, <1>6

\* What the scan of one instruction does to a register that the instruction
\* reads, one that it only writes, and any other.
ReadEffect(f, b, i, r, s, t) ==
    /\ r \in t.live
    /\ t.ranges[r] = IF r \in s.live THEN s.ranges[r]
                     ELSE Append(s.ranges[r],
                              LiveRange(b, UsePoint(i), IF Writes(f, b, i, r) THEN DefPoint(i) ELSE UsePoint(i)))
WriteEffect(f, b, i, r, s, t) ==
    /\ r \notin t.live
    /\ t.ranges[r] = IF r \in s.live /\ Instr(f, b, i).op # "call"
                     THEN SetStart(s.ranges[r], DefPoint(i))
                     ELSE Append(s.ranges[r], Point(b, DefPoint(i)))
OtherEffect(r, s, t) == (r \in t.live <=> r \in s.live) /\ t.ranges[r] = s.ranges[r]

Effect(f, b, i, r, s, t) ==
    /\ Reads(f, b, i, r) => ReadEffect(f, b, i, r, s, t)
    /\ Writes(f, b, i, r) /\ ~ Reads(f, b, i, r) => WriteEffect(f, b, i, r, s, t)
    /\ ~ Writes(f, b, i, r) /\ ~ Reads(f, b, i, r) => OtherEffect(r, s, t)

\* What the scan does at a move,
LEMMA MovEffect ==
    ASSUME NEW f, NEW b, NEW i \in Nat, NEW s \in ScanState(b), Instr(f, b, i).op = "mov"
    PROVE  LET t == ScanInstr(f, b, i, s)
           IN  t \in ScanState(b) /\ \A r \in Regs : Effect(f, b, i, r, s, t)
<1> DEFINE this == Instr(f, b, i)
           x == {this.args[1]} \intersect Regs
           y == {this.args[2]} \intersect Regs
           t == ScanInstr(f, b, i, s)
<1>1. RegOps(f, b, i) = IF x = y THEN <<>> ELSE <<Op("DEF", x), Op("USE", y)>>
  BY DEF RegOps
<1>2. x \in SUBSET Regs /\ y \in SUBSET Regs /\ (x # y => x \intersect y = {})
  OBVIOUS
<1>3. this.op # "call"
  OBVIOUS
<1> HIDE DEF x, y, this
<1>4. CASE x = y
  <2>1. RegOps(f, b, i) = <<>>
    BY <1>1, <1>4
  <2>2. t = s
    BY <2>1, ScanInstrSteps
  <2>3. \A r : ~ Reads(f, b, i, r) /\ ~ Writes(f, b, i, r)
    BY <2>1 DEF Reads, Writes, Has
  <2> QED
    BY <2>2, <2>3 DEF Effect, OtherEffect
<1>5. CASE x # y
  <2>1. RegOps(f, b, i) = <<Op("DEF", x), Op("USE", y)>>
    BY <1>1, <1>5
  <2>2. \A r : (Reads(f, b, i, r) <=> r \in y) /\ (Writes(f, b, i, r) <=> r \in x)
    BY <2>1 DEF Reads, Writes, Has, Op
  <2> DEFINE u == ScanDef(s, b, i, x)
  <2>3. t = ScanUse(u, b, i, y)
    <3>1. t = ScanOp(ScanOp(s, b, i, Op("DEF", x)), b, i, Op("USE", y))
      BY <2>1, ScanInstrSteps
    <3> QED
      BY <3>1 DEF ScanOp, Op
  <2>4. /\ u \in ScanState(b) /\ u.live = s.live \ x
        /\ \A r \in Regs : u.ranges[r] =
             IF r \notin x THEN s.ranges[r]
             ELSE IF r \in s.live THEN SetStart(s.ranges[r], DefPoint(i))
             ELSE Append(s.ranges[r], Point(b, DefPoint(i)))
    BY <1>2, ScanDefEffect
  <2> HIDE DEF u, t
  <2>5. /\ t \in ScanState(b) /\ t.live = u.live \union y
        /\ \A r \in Regs : t.ranges[r] = IF r \in y \ u.live
             THEN Append(u.ranges[r], Point(b, UsePoint(i))) ELSE u.ranges[r]
    BY <1>2, <2>3, <2>4, ScanUseEffect
  <2>6. ASSUME NEW r \in Regs PROVE Effect(f, b, i, r, s, t)
    <3>1. CASE r \in y
      <4>1. r \notin x
        BY <1>2, <1>5, <3>1
      <4> QED
        BY <2>2, <2>4, <2>5, <3>1, <4>1 DEF Effect, ReadEffect, Point
    <3>2. CASE r \in x /\ r \notin y
      BY <1>3, <2>2, <2>4, <2>5, <3>2 DEF Effect, WriteEffect, this
    <3>3. CASE r \notin x /\ r \notin y
      BY <2>2, <2>4, <2>5, <3>3 DEF Effect, OtherEffect
    <3> QED
      BY <3>1, <3>2, <3>3
  <2> QED
    BY <2>5, <2>6 DEF t
<1> QED
  BY <1>4, <1>5

\* at an addition or a subtraction,
LEMMA AddEffect ==
    ASSUME NEW f, NEW b, NEW i \in Nat, NEW s \in ScanState(b), Instr(f, b, i).op \in {"add", "sub"}
    PROVE  LET t == ScanInstr(f, b, i, s)
           IN  t \in ScanState(b) /\ \A r \in Regs : Effect(f, b, i, r, s, t)
<1> DEFINE this == Instr(f, b, i)
           x == {this.args[1]} \intersect Regs
           y == {this.args[2]} \intersect Regs
           t == ScanInstr(f, b, i, s)
           u == ScanUseDef(s, b, i, x)
<1>1. RegOps(f, b, i) = <<Op("USE_DEF", x), Op("USE", y)>>
  BY DEF RegOps
<1>2. x \in SUBSET Regs /\ y \in SUBSET Regs
  OBVIOUS
<1> HIDE DEF x, y, this
<1>3. \A r : (Reads(f, b, i, r) <=> r \in x \/ r \in y) /\ (Writes(f, b, i, r) <=> r \in x)
  BY <1>1 DEF Reads, Writes, Has, Op
<1>4. t = ScanUse(u, b, i, y)
  <2>1. t = ScanOp(ScanOp(s, b, i, Op("USE_DEF", x)), b, i, Op("USE", y))
    BY <1>1, ScanInstrSteps
  <2> QED
    BY <2>1 DEF ScanOp, Op
<1>5. /\ u \in ScanState(b) /\ u.live = s.live \union x
      /\ \A r \in Regs : u.ranges[r] = IF r \in x \ s.live
           THEN Append(s.ranges[r], LiveRange(b, UsePoint(i), DefPoint(i))) ELSE s.ranges[r]
  BY <1>2, ScanUseDefEffect DEF LiveRange
<1> HIDE DEF u, t
<1>6. /\ t \in ScanState(b) /\ t.live = u.live \union y
      /\ \A r \in Regs : t.ranges[r] = IF r \in y \ u.live
           THEN Append(u.ranges[r], Point(b, UsePoint(i))) ELSE u.ranges[r]
  BY <1>2, <1>4, <1>5, ScanUseEffect
<1>7. ASSUME NEW r \in Regs PROVE Effect(f, b, i, r, s, t)
  <2>1. CASE r \in x
    BY <1>3, <1>5, <1>6, <2>1 DEF Effect, ReadEffect
  <2>2. CASE r \in y /\ r \notin x
    BY <1>3, <1>5, <1>6, <2>2 DEF Effect, ReadEffect, Point
  <2>3. CASE r \notin x /\ r \notin y
    BY <1>3, <1>5, <1>6, <2>3 DEF Effect, OtherEffect
  <2> QED
    BY <2>1, <2>2, <2>3
<1> QED
  BY <1>6, <1>7 DEF t

\* at a comparison,
LEMMA CmpEffect ==
    ASSUME NEW f, NEW b, NEW i \in Nat, NEW s \in ScanState(b), Instr(f, b, i).op = "cmp"
    PROVE  LET t == ScanInstr(f, b, i, s)
           IN  t \in ScanState(b) /\ \A r \in Regs : Effect(f, b, i, r, s, t)
<1> DEFINE this == Instr(f, b, i)
           x == {this.args[1]} \intersect Regs
           y == {this.args[2]} \intersect Regs
           t == ScanInstr(f, b, i, s)
           u == ScanUse(s, b, i, x)
<1>1. RegOps(f, b, i) = <<Op("USE", x), Op("USE", y)>>
  BY DEF RegOps
<1>2. x \in SUBSET Regs /\ y \in SUBSET Regs
  OBVIOUS
<1> HIDE DEF x, y, this
<1>3. \A r : (Reads(f, b, i, r) <=> r \in x \/ r \in y) /\ ~ Writes(f, b, i, r)
  BY <1>1 DEF Reads, Writes, Has, Op
<1>4. t = ScanUse(u, b, i, y)
  <2>1. t = ScanOp(ScanOp(s, b, i, Op("USE", x)), b, i, Op("USE", y))
    BY <1>1, ScanInstrSteps
  <2> QED
    BY <2>1 DEF ScanOp, Op
<1>5. /\ u \in ScanState(b) /\ u.live = s.live \union x
      /\ \A r \in Regs : u.ranges[r] = IF r \in x \ s.live
           THEN Append(s.ranges[r], Point(b, UsePoint(i))) ELSE s.ranges[r]
  BY <1>2, ScanUseEffect
<1> HIDE DEF u, t
<1>6. /\ t \in ScanState(b) /\ t.live = u.live \union y
      /\ \A r \in Regs : t.ranges[r] = IF r \in y \ u.live
           THEN Append(u.ranges[r], Point(b, UsePoint(i))) ELSE u.ranges[r]
  BY <1>2, <1>4, <1>5, ScanUseEffect
<1>7. ASSUME NEW r \in Regs PROVE Effect(f, b, i, r, s, t)
  <2>1. CASE r \in x \/ r \in y
    BY <1>3, <1>5, <1>6, <2>1 DEF Effect, ReadEffect, Point
  <2>2. CASE r \notin x /\ r \notin y
    BY <1>3, <1>5, <1>6, <2>2 DEF Effect, OtherEffect
  <2> QED
    BY <2>1, <2>2
<1> QED
  BY <1>6, <1>7 DEF t

\* A call: what it destroys is not live behind it, save for its result.
LEMMA CallEffect ==
    ASSUME NEW f, NEW b, NEW i \in Nat, NEW s \in ScanState(b), Instr(f, b, i).op = "call",
           RetReg \notin CallArgs(f, b, i), Volatile \intersect s.live \subseteq {RetReg}
    PROVE  LET t == ScanInstr(f, b, i, s)
           IN  t \in ScanState(b) /\ \A r \in Regs : Effect(f, b, i, r, s, t)
<1> DEFINE args == CallArgs(f, b, i)
           t == ScanInstr(f, b, i, s)
           u == ScanKill(s, b, i, Volatile)
           w == ScanUse(u, b, i, args)
<1>1. RegOps(f, b, i) = <<Op("KILL", Volatile), Op("USE", args), Op("DEF", {RetReg})>>
  BY DEF RegOps
<1>2. /\ Volatile \in SUBSET Regs /\ {RetReg} \in SUBSET Regs
      /\ args \in SUBSET Regs
      /\ RetReg \in Volatile /\ RetReg \notin args
  <2>1. args \subseteq PRegs
    BY DEF CallArgs
  <2> QED
    BY <2>1, RegAssumption DEF Regs
<1> HIDE DEF args
<1>3. \A r : (Reads(f, b, i, r) <=> r \in args) /\ (Writes(f, b, i, r) <=> r = RetReg)
  BY <1>1 DEF Reads, Writes, Has, Op
<1>4. t = ScanDef(w, b, i, {RetReg})
  <2>1. t = ScanOp(ScanOp(ScanOp(s, b, i, Op("KILL", Volatile)), b, i, Op("USE", args)), b, i, Op("DEF", {RetReg}))
    BY <1>1, ScanInstrSteps
  <2> QED
    BY <2>1 DEF ScanOp, Op
<1>5. u \in ScanState(b) /\ u.live = s.live \ Volatile /\ u.ranges = s.ranges
  BY <1>2, ScanKillEffect
<1> HIDE DEF u
<1>6. /\ w \in ScanState(b) /\ w.live = u.live \union args
      /\ \A r \in Regs : w.ranges[r] = IF r \in args \ u.live
           THEN Append(u.ranges[r], Point(b, UsePoint(i))) ELSE u.ranges[r]
  BY <1>2, <1>5, ScanUseEffect
<1> HIDE DEF w, t
<1>7. /\ t \in ScanState(b) /\ t.live = w.live \ {RetReg}
      /\ \A r \in Regs : t.ranges[r] =
           IF r \notin {RetReg} THEN w.ranges[r]
           ELSE IF r \in w.live THEN SetStart(w.ranges[r], DefPoint(i))
           ELSE Append(w.ranges[r], Point(b, DefPoint(i)))
  BY <1>2, <1>4, <1>6, ScanDefEffect
<1>8. ASSUME NEW r \in Regs PROVE Effect(f, b, i, r, s, t)
  <2>1. CASE r = RetReg
    <3>1. r \notin w.live /\ w.ranges[r] = s.ranges[r]
      BY <1>2, <1>5, <1>6, <2>1
    <3> QED
      BY <1>2, <1>3, <1>7, <2>1, <3>1 DEF Effect, WriteEffect
  <2>2. CASE r # RetReg /\ r \in args
    <3>1. r \in s.live <=> r \in u.live
      BY <1>5, <2>2
    <3> QED
      BY <1>3, <1>5, <1>6, <1>7, <2>2, <3>1 DEF Effect, ReadEffect, Point
  <2>3. CASE r # RetReg /\ r \notin args
    <3>1. r \in s.live <=> r \in u.live
      BY <1>5, <2>3
    <3> QED
      BY <1>3, <1>5, <1>6, <1>7, <2>3, <3>1 DEF Effect, OtherEffect
  <2> QED
    BY <2>1, <2>2, <2>3
<1> QED
  BY <1>7, <1>8 DEF t

\* and at any instruction, when a call destroys nothing that is live but its
\* result.
LEMMA ScanEffect ==
    ASSUME NEW f, NEW b, NEW i \in Nat, NEW s \in ScanState(b),
           Instr(f, b, i).op = "call" =>
             RetReg \notin CallArgs(f, b, i) /\ Volatile \intersect s.live \subseteq {RetReg}
    PROVE  LET t == ScanInstr(f, b, i, s)
           IN  t \in ScanState(b) /\ \A r \in Regs : Effect(f, b, i, r, s, t)
<1>1. CASE Instr(f, b, i).op \notin {"mov", "add", "sub", "cmp", "call"}
  <2>1. RegOps(f, b, i) = <<>>
    BY <1>1 DEF RegOps
  <2>2. ScanInstr(f, b, i, s) = s
    BY <2>1, ScanInstrSteps
  <2>3. \A r : ~ Reads(f, b, i, r) /\ ~ Writes(f, b, i, r)
    BY <2>1 DEF Reads, Writes, Has
  <2> QED
    BY <2>2, <2>3 DEF Effect, OtherEffect
<1> QED
  BY <1>1, MovEffect, AddEffect, CmpEffect, CallEffect

\* The scan of a block, from its end.
ScanStart(f, b, live) ==
    [live |-> live, kills |-> {},
     ranges |-> [r \in Regs |->
         IF r \in live THEN <<LiveRange(b, UsePoint(0), DefPoint(Len(Block(f, b)) - 1))>> ELSE <<>>]]

\* The rows of ScanBlock: row m has looked at the last m instructions.
ScanRow(f, b, live, n, m, prev) ==
    IF m = 0 THEN ScanStart(f, b, live) ELSE ScanInstr(f, b, n - m, prev)

ScanRows(f, g, b, live, n, last) == g = [m \in 0..last |-> ScanRow(f, b, live, n, m, g[m - 1])]

\* The recursion of ScanBlock has a solution.
LEMMA ScanRowsExist ==
    ASSUME NEW f, NEW b, NEW live, NEW n, NEW last \in Nat
    PROVE  \E g : ScanRows(f, g, b, live, n, last)
<1> DEFINE S == {l \in Nat : ~\E g : ScanRows(f, g, b, live, n, l)}
           Row(m, x) == ScanRow(f, b, live, n, m, x)
<1>1. \A x, y : Row(0, x) = Row(0, y)
  BY DEF ScanRow
<1>2. \E g : ScanRows(f, g, b, live, n, 0)
  <2> HIDE DEF Row
  <2> DEFINE g == [m \in 0..0 |-> Row(0, "none")]
  <2>1. \A m \in 0..0 : Row(0, "none") = Row(m, g[m - 1])
    <3>1. \A m \in 0..0 : m = 0
      OBVIOUS
    <3> HIDE DEF g
    <3> QED
      BY <1>1, <3>1
  <2> HIDE DEF g
  <2>2. g = [m \in 0..0 |-> Row(0, "none")]
    BY DEF g
  <2>3. g = [m \in 0..0 |-> Row(m, g[m - 1])]
    BY <2>1, <2>2
  <2> QED
    BY <2>3 DEF ScanRows, Row
<1>3. ASSUME NEW l \in Nat, NEW h, ScanRows(f, h, b, live, n, l)
      PROVE  \E g : ScanRows(f, g, b, live, n, l + 1)
  <2>0. \A m \in 0..l : h[m] = Row(m, h[m - 1])
    BY <1>3 DEF ScanRows
  <2> HIDE DEF Row
  <2>1. PICK g : g = [m \in 0..(l + 1) |-> IF m = l + 1 THEN Row(l + 1, h[l]) ELSE h[m]]
    OBVIOUS
  <2>2. \A m \in 0..l : g[m] = h[m] /\ h[m] = Row(m, h[m - 1])
    BY <2>0, <2>1
  <2>3. ASSUME NEW m \in 0..(l + 1) PROVE g[m] = Row(m, g[m - 1])
    <3>1. CASE m = l + 1
      <4>1. g[m] = Row(l + 1, h[l]) /\ g[m - 1] = h[l]
        BY <2>1, <2>2, <3>1
      <4> QED
        BY <3>1, <4>1
    <3>2. CASE m = 0
      BY <1>1, <2>2, <3>2
    <3>3. CASE m # 0 /\ m # l + 1
      <4>1. m \in 0..l /\ m - 1 \in 0..l
        BY <3>3
      <4>2. g[m] = Row(m, h[m - 1]) /\ g[m - 1] = h[m - 1]
        BY <2>2, <4>1
      <4> QED
        BY <4>2
    <3> QED
      BY <3>1, <3>2, <3>3
  <2>4. g = [m \in 0..(l + 1) |-> g[m]]
    BY <2>1
  <2>5. g = [m \in 0..(l + 1) |-> Row(m, g[m - 1])]
    BY <2>3, <2>4
  <2> QED
    BY <2>5 DEF ScanRows, Row
<1>4. S = {}
  <2> SUFFICES ASSUME S # {} PROVE FALSE
    OBVIOUS
  <2>1. PICK l \in S : \A j \in S : l <= j
    BY LeastNumber
  <2>2. l \in Nat \ {0}
    BY <1>2
  <2>3. \E h : ScanRows(f, h, b, live, n, l - 1)
    BY <2>1, <2>2
  <2>4. \E g : ScanRows(f, g, b, live, n, (l - 1) + 1)
    BY <1>3, <2>2, <2>3
  <2> QED
    BY <2>2, <2>4
<1> QED
  BY <1>4

\* A call only touches physical registers, so that the scan does to a virtual
\* one what the instruction does to it, whatever the call destroys.
LEMMA VirtualEffect ==
    ASSUME NEW f, NEW b, NEW i \in Nat, NEW s \in ScanState(b)
    PROVE  LET t == ScanInstr(f, b, i, s)
           IN  t \in ScanState(b) /\ \A v \in VRegs : Effect(f, b, i, v, s, t)
<1>1. CASE Instr(f, b, i).op # "call"
  <2>1. VRegs \subseteq Regs
    BY DEF Regs
  <2> QED
    BY <1>1, <2>1, ScanEffect
<1>2. CASE Instr(f, b, i).op = "call"
  <2> DEFINE args == CallArgs(f, b, i)
             t == ScanInstr(f, b, i, s)
             u == ScanKill(s, b, i, Volatile)
             w == ScanUse(u, b, i, args)
  <2>1. RegOps(f, b, i) = <<Op("KILL", Volatile), Op("USE", args), Op("DEF", {RetReg})>>
    BY <1>2 DEF RegOps
  <2>2. /\ Volatile \in SUBSET Regs /\ {RetReg} \in SUBSET Regs /\ args \in SUBSET Regs
        /\ \A v \in VRegs : v \in Regs /\ v \notin Volatile /\ v # RetReg /\ v \notin args
    <3>1. args \subseteq PRegs
      BY DEF CallArgs
    <3> QED
      BY <3>1, RegAssumption DEF Regs
  <2> HIDE DEF args
  <2>3. \A v \in VRegs : ~ Reads(f, b, i, v) /\ ~ Writes(f, b, i, v)
    BY <2>1, <2>2 DEF Reads, Writes, Has, Op
  <2>4. t = ScanDef(w, b, i, {RetReg})
    <3>1. t = ScanOp(ScanOp(ScanOp(s, b, i, Op("KILL", Volatile)), b, i, Op("USE", args)), b, i, Op("DEF", {RetReg}))
      BY <2>1, ScanInstrSteps
    <3> QED
      BY <3>1 DEF ScanOp, Op
  <2>5. u \in ScanState(b) /\ u.live = s.live \ Volatile /\ u.ranges = s.ranges
    BY <2>2, ScanKillEffect
  <2> HIDE DEF u
  <2>6. /\ w \in ScanState(b) /\ w.live = u.live \union args
        /\ \A r \in Regs : w.ranges[r] = IF r \in args \ u.live
             THEN Append(u.ranges[r], Point(b, UsePoint(i))) ELSE u.ranges[r]
    BY <2>2, <2>5, ScanUseEffect
  <2> HIDE DEF w, t
  <2>7. /\ t \in ScanState(b) /\ t.live = w.live \ {RetReg}
        /\ \A r \in Regs : t.ranges[r] =
             IF r \notin {RetReg} THEN w.ranges[r]
             ELSE IF r \in w.live THEN SetStart(w.ranges[r], DefPoint(i))
             ELSE Append(w.ranges[r], Point(b, DefPoint(i)))
    BY <2>2, <2>4, <2>6, ScanDefEffect
  <2>8. ASSUME NEW v \in VRegs PROVE Effect(f, b, i, v, s, t)
    <3>1. (v \in t.live <=> v \in s.live) /\ t.ranges[v] = s.ranges[v]
      BY <2>2, <2>5, <2>6, <2>7
    <3> QED
      BY <2>3, <3>1 DEF Effect, OtherEffect
  <2> QED
    BY <2>7, <2>8 DEF t
<1> QED
  BY <1>1, <1>2

\* An instruction that defines a virtual register does not read it, and a
\* call does neither.
LEMMA VirtualOperands ==
    ASSUME NEW f, NEW b, NEW i, NEW v \in VRegs
    PROVE  /\ Has(f, b, i, "DEF", v) => ~ Reads(f, b, i, v)
           /\ Reads(f, b, i, v) \/ Writes(f, b, i, v) => Instr(f, b, i).op # "call"
<1> DEFINE this == Instr(f, b, i)
           x == {this.args[1]} \intersect Regs
           y == {this.args[2]} \intersect Regs
<1>1. CASE this.op = "mov"
  <2>1. RegOps(f, b, i) = IF x = y THEN <<>> ELSE <<Op("DEF", x), Op("USE", y)>>
    BY <1>1 DEF RegOps
  <2>2. x # y => x \intersect y = {}
    OBVIOUS
  <2> HIDE DEF x, y
  <2>3. CASE x = y
    <3>1. RegOps(f, b, i) = <<>>
      BY <2>1, <2>3
    <3> QED
      BY <1>1, <3>1 DEF Has
  <2>4. CASE x # y
    <3>1. RegOps(f, b, i) = <<Op("DEF", x), Op("USE", y)>>
      BY <2>1, <2>4
    <3> QED
      BY <1>1, <2>2, <2>4, <3>1 DEF Has, Reads, Op
  <2> QED
    BY <2>3, <2>4
<1>2. CASE this.op \in {"add", "sub"}
  <2>1. RegOps(f, b, i) = <<Op("USE_DEF", x), Op("USE", y)>>
    BY <1>2 DEF RegOps
  <2> HIDE DEF x, y
  <2> QED
    BY <1>2, <2>1 DEF Has, Op
<1>3. CASE this.op = "cmp"
  <2>1. RegOps(f, b, i) = <<Op("USE", x), Op("USE", y)>>
    BY <1>3 DEF RegOps
  <2> HIDE DEF x, y
  <2> QED
    BY <1>3, <2>1 DEF Has, Op
<1>4. CASE this.op = "call"
  <2> DEFINE args == CallArgs(f, b, i)
  <2>1. RegOps(f, b, i) = <<Op("KILL", Volatile), Op("USE", args), Op("DEF", {RetReg})>>
    BY <1>4 DEF RegOps
  <2>2. v # RetReg /\ v \notin args
    <3>1. args \subseteq PRegs
      BY DEF CallArgs
    <3> QED
      BY <3>1, RegAssumption DEF Regs
  <2> HIDE DEF args
  <2> QED
    BY <2>1, <2>2 DEF Has, Reads, Writes, Op
<1>5. CASE this.op \notin {"mov", "add", "sub", "cmp", "call"}
  <2>1. RegOps(f, b, i) = <<>>
    BY <1>5 DEF RegOps
  <2> QED
    BY <1>5, <2>1 DEF Has, Reads
<1> QED
  BY <1>1, <1>2, <1>3, <1>4, <1>5

\* An operand that is a virtual register is read, written or both.
LEMMA VirtualUsage ==
    ASSUME NEW f, NEW b, NEW i, NEW v \in VRegs, NEW k \in 1..3,
           k <= Len(RegOps(f, b, i)), v \in RegOps(f, b, i)[k].regs
    PROVE  k \in DOMAIN RegOps(f, b, i) /\ RegOps(f, b, i)[k].usage \in {"USE", "DEF", "USE_DEF"}
<1> DEFINE this == Instr(f, b, i)
           x == {this.args[1]} \intersect Regs
           y == {this.args[2]} \intersect Regs
           args == CallArgs(f, b, i)
<1>1. \/ RegOps(f, b, i) = <<>>
      \/ RegOps(f, b, i) = <<Op("DEF", x), Op("USE", y)>>
      \/ RegOps(f, b, i) = <<Op("USE_DEF", x), Op("USE", y)>>
      \/ RegOps(f, b, i) = <<Op("USE", x), Op("USE", y)>>
      \/ RegOps(f, b, i) = <<Op("KILL", Volatile), Op("USE", args), Op("DEF", {RetReg})>>
  BY DEF RegOps
<1>2. v \notin Volatile
  BY RegAssumption
<1> HIDE DEF x, y, args
<1> QED
  BY <1>1, <1>2 DEF Op

-----------------------------------------------------------------------------
(***************************************************************************)
(* Operands and live ranges.  The scan has looked at the instructions from *)
(* i on: every operand of a virtual register in them is inside a range, or *)
(* will be when the range that is still growing has got to its start.      *)
(***************************************************************************)

Operand(f, b, j, v) == Reads(f, b, j, v) \/ Writes(f, b, j, v)
OperandStart(f, b, j, v) == IF Reads(f, b, j, v) THEN UsePoint(j) ELSE DefPoint(j)
OperandEnd(f, b, j, v) == IF Writes(f, b, j, v) THEN DefPoint(j) ELSE UsePoint(j)

\* The operand at j is inside of range m, which may still be growing.
InsideRange(f, b, j, v, s, m) ==
    LET rs == s.ranges[v]
    IN  /\ OperandEnd(f, b, j, v) <= rs[m].end
        /\ rs[m].start <= OperandStart(f, b, j, v) \/ (v \in s.live /\ m = Len(rs))

\* An instruction from i on reads v before another one of these defines it.
ReadBelow(f, b, i, v) ==
    \E j \in Instrs(f, b) : /\ j >= i /\ Reads(f, b, j, v)
                            /\ \A m \in i..(j - 1) : Writes(f, b, m, v) => Reads(f, b, m, v)

Numbered(rs) == \A m \in 1..Len(rs) : rs[m].start \in Nat /\ rs[m].end \in Nat

Growing(f, b, i, v, s) ==
    LET rs == s.ranges[v]
    IN  v \in s.live => /\ rs # <<>> /\ UsePoint(i) <= rs[Len(rs)].end + 1
                        /\ rs[Len(rs)].start = 0 \/ ReadBelow(f, b, i, v)

AllInside(f, b, i, v, s) ==
    \A j \in Instrs(f, b) : j >= i /\ Operand(f, b, j, v) =>
        \E m \in 1..Len(s.ranges[v]) : InsideRange(f, b, j, v, s, m)

Followed(f, b, i, v, s) ==
    Numbered(s.ranges[v]) /\ Growing(f, b, i, v, s) /\ AllInside(f, b, i, v, s)

\* The points of an operand are those of its instruction.
LEMMA OperandPoints ==
    ASSUME NEW f, NEW b, NEW j \in Nat, NEW v
    PROVE  /\ OperandStart(f, b, j, v) \in Nat /\ OperandEnd(f, b, j, v) \in Nat
           /\ 2 * j <= OperandStart(f, b, j, v) /\ OperandEnd(f, b, j, v) <= 2 * j + 1
           /\ Operand(f, b, j, v) => OperandStart(f, b, j, v) <= OperandEnd(f, b, j, v)
BY DEF OperandStart, OperandEnd, Operand, UsePoint, DefPoint

\* A range that is added to those of a register that was not live.
Adds(b, v, s, t, x) ==
    /\ v \in Regs /\ s \in ScanState(b) /\ v \notin s.live /\ t.ranges[v] = Append(s.ranges[v], x)
    /\ x \in Spans(b) /\ x.start \in Nat /\ x.end \in Nat

\* It leaves the others as they were.
LEMMA AppendKeeps ==
    ASSUME NEW f, NEW b, NEW i, NEW v, NEW s, NEW t, NEW x, Adds(b, v, s, t, x), Followed(f, b, i, v, s)
    PROVE  /\ Numbered(t.ranges[v]) /\ AllInside(f, b, i, v, t)
           /\ t.ranges[v] # <<>> /\ Len(t.ranges[v]) \in 1..Len(t.ranges[v])
           /\ t.ranges[v][Len(t.ranges[v])] = x
<1> DEFINE rs == s.ranges[v]
           ts == t.ranges[v]
<1>1. rs \in Seq(Spans(b)) /\ ts = Append(rs, x)
  BY DEF Adds, ScanState
<1>0. v \notin s.live /\ x.start \in Nat /\ x.end \in Nat /\ x \in Spans(b)
  BY DEF Adds
<1> HIDE DEF rs, ts
<1>2. /\ Len(rs) \in Nat /\ Len(ts) = Len(rs) + 1 /\ ts[Len(ts)] = x /\ ts # <<>>
      /\ \A m \in 1..Len(rs) : ts[m] = rs[m]
  BY <1>0, <1>1
<1>3. Numbered(ts)
  <2>1. Numbered(rs)
    BY DEF Followed, rs
  <2>2. \A m \in 1..Len(ts) : m \in 1..Len(rs) \/ m = Len(ts)
    BY <1>2
  <2> QED
    BY <1>0, <1>2, <2>1, <2>2 DEF Numbered
<1>4. ASSUME NEW j \in Instrs(f, b), j >= i, Operand(f, b, j, v)
      PROVE  \E m \in 1..Len(ts) : InsideRange(f, b, j, v, t, m)
  <2>1. PICK m \in 1..Len(rs) : InsideRange(f, b, j, v, s, m)
    BY <1>4 DEF Followed, AllInside, rs
  <2>2. m \in 1..Len(ts) /\ ts[m] = rs[m]
    BY <1>2
  <2>3. InsideRange(f, b, j, v, t, m)
    BY <1>0, <2>1, <2>2 DEF InsideRange, rs, ts
  <2> QED
    BY <2>2, <2>3
<1> QED
  BY <1>2, <1>3, <1>4 DEF AllInside, ts

\* The scan goes on to follow a register past a read,
LEMMA FollowedRead ==
    ASSUME NEW f, NEW b, Len(Block(f, b)) \in Nat, NEW v \in VRegs, NEW i \in Instrs(f, b),
           NEW s \in ScanState(b), Followed(f, b, i + 1, v, s), Reads(f, b, i, v),
           NEW t \in ScanState(b), ReadEffect(f, b, i, v, s, t)
    PROVE  Followed(f, b, i, v, t)
<1>0. i \in Nat /\ \A j \in Instrs(f, b) : j \in Nat
  BY DEF Instrs
<1> DEFINE rs == s.ranges[v]
           ts == t.ranges[v]
           x == LiveRange(b, UsePoint(i), IF Writes(f, b, i, v) THEN DefPoint(i) ELSE UsePoint(i))
<1>1. v \in Regs /\ v \in t.live /\ rs \in Seq(Spans(b)) /\ ts \in Seq(Spans(b))
  BY DEF Regs, ReadEffect, ScanState
<1>2. UsePoint(i + 1) = 2 * i + 2 /\ UsePoint(i) = 2 * i /\ DefPoint(i) = 2 * i + 1
  BY <1>0 DEF UsePoint, DefPoint
<1>3. ReadBelow(f, b, i, v)
  <2>1. i..(i - 1) = {}
    BY <1>0
  <2> QED
    BY <1>0, <2>1 DEF ReadBelow
<1>4. \A j \in Instrs(f, b) : j >= i => j = i \/ j >= i + 1
  BY <1>0
<1>5. OperandEnd(f, b, i, v) \in Nat /\ OperandEnd(f, b, i, v) <= 2 * i + 1
  BY <1>0, OperandPoints
<1>6. CASE v \in s.live
  <2>1. ts = rs /\ rs # <<>> /\ UsePoint(i + 1) <= rs[Len(rs)].end + 1 /\ Numbered(rs)
    BY <1>6 DEF ReadEffect, Followed, Growing
  <2>2. Len(rs) \in 1..Len(rs)
    BY <1>1, <2>1
  <2>3. rs[Len(rs)].end \in Nat /\ 2 * i + 1 <= rs[Len(rs)].end
    BY <1>0, <1>2, <2>1, <2>2 DEF Numbered
  <2>4. Growing(f, b, i, v, t)
    BY <1>0, <1>2, <1>3, <2>1, <2>3 DEF Growing
  <2>5. ASSUME NEW j \in Instrs(f, b), j >= i, Operand(f, b, j, v)
        PROVE  \E m \in 1..Len(ts) : InsideRange(f, b, j, v, t, m)
    <3>1. CASE j = i
      <4>1. InsideRange(f, b, j, v, t, Len(rs))
        BY <1>0, <1>1, <1>5, <2>1, <2>3, <3>1 DEF InsideRange
      <4> QED
        BY <2>1, <2>2, <4>1
    <3>2. CASE j >= i + 1
      <4>1. PICK m \in 1..Len(rs) : InsideRange(f, b, j, v, s, m)
        BY <2>5, <3>2 DEF Followed, AllInside
      <4>2. InsideRange(f, b, j, v, t, m)
        BY <1>1, <2>1, <4>1 DEF InsideRange
      <4> QED
        BY <2>1, <4>2
    <3> QED
      BY <1>4, <2>5, <3>1, <3>2
  <2> QED
    BY <2>1, <2>4, <2>5 DEF Followed, AllInside
<1>7. CASE v \notin s.live
  <2>1. ts = Append(rs, x)
    BY <1>7 DEF ReadEffect
  <2>2. x \in Spans(b) /\ x.start = 2 * i /\ x.end = OperandEnd(f, b, i, v)
    BY <1>0, <1>2 DEF LiveRange, Spans, OperandEnd
  <2> HIDE DEF x
  <2>0. x.start \in Nat /\ x.end \in Nat
    BY <1>0, <1>5, <2>2
  <2>3. /\ Numbered(ts) /\ AllInside(f, b, i + 1, v, t)
        /\ ts # <<>> /\ Len(ts) \in 1..Len(ts) /\ ts[Len(ts)] = x
    <3>1. Adds(b, v, s, t, x)
      BY <1>1, <1>7, <2>0, <2>1, <2>2 DEF Adds
    <3> QED
      BY <3>1, AppendKeeps
  <2>4. Growing(f, b, i, v, t)
    <3>1. 2 * i <= OperandEnd(f, b, i, v)
      BY <1>0, <1>2 DEF OperandEnd
    <3>2. UsePoint(i) <= x.end + 1
      BY <1>0, <1>2, <1>5, <2>2, <3>1
    <3> QED
      BY <1>3, <2>3, <3>2 DEF Growing
  <2>5. ASSUME NEW j \in Instrs(f, b), j >= i, Operand(f, b, j, v)
        PROVE  \E m \in 1..Len(ts) : InsideRange(f, b, j, v, t, m)
    <3>1. CASE j = i
      <4>1. InsideRange(f, b, j, v, t, Len(ts))
        BY <1>1, <1>5, <2>2, <2>3, <3>1 DEF InsideRange
      <4> QED
        BY <2>3, <4>1
    <3>2. CASE j >= i + 1
      BY <2>3, <2>5, <3>2 DEF AllInside
    <3> QED
      BY <1>4, <2>5, <3>1, <3>2
  <2> QED
    BY <2>3, <2>4, <2>5 DEF Followed, AllInside
<1> QED
  BY <1>6, <1>7

\* past a write,
LEMMA FollowedWrite ==
    ASSUME NEW f, NEW b, Len(Block(f, b)) \in Nat, NEW v \in VRegs, NEW i \in Instrs(f, b),
           NEW s \in ScanState(b), Followed(f, b, i + 1, v, s),
           Writes(f, b, i, v), ~ Reads(f, b, i, v),
           NEW t \in ScanState(b), WriteEffect(f, b, i, v, s, t)
    PROVE  Followed(f, b, i, v, t)
<1>0. i \in Nat /\ \A j \in Instrs(f, b) : j \in Nat
  BY DEF Instrs
<1> DEFINE rs == s.ranges[v]
           ts == t.ranges[v]
           x == Point(b, DefPoint(i))
<1>1. v \in Regs /\ v \notin t.live /\ rs \in Seq(Spans(b)) /\ ts \in Seq(Spans(b))
  BY DEF Regs, WriteEffect, ScanState
<1>2. UsePoint(i + 1) = 2 * i + 2 /\ DefPoint(i) = 2 * i + 1
  BY <1>0 DEF UsePoint, DefPoint
<1>3. OperandStart(f, b, i, v) = 2 * i + 1 /\ OperandEnd(f, b, i, v) = 2 * i + 1
  BY <1>2 DEF OperandStart, OperandEnd
<1>4. \A j \in Instrs(f, b) : j >= i => j = i \/ j >= i + 1
  BY <1>0
<1>5. Growing(f, b, i, v, t)
  BY <1>1 DEF Growing
<1>6. CASE v \in s.live
  <2>1. ts = SetStart(rs, DefPoint(i)) /\ rs # <<>> /\ UsePoint(i + 1) <= rs[Len(rs)].end + 1 /\ Numbered(rs)
    BY <1>6, VirtualOperands DEF WriteEffect, Followed, Growing
  <2> HIDE DEF rs, ts
  <2>2. Len(rs) \in 1..Len(rs) /\ DefPoint(i) \in Int
    BY <1>0, <1>1, <1>2, <2>1
  <2>3. /\ Len(ts) = Len(rs)
        /\ \A m \in 1..Len(rs) : /\ ts[m].end = rs[m].end
                                 /\ ts[m].start = IF m = Len(rs) THEN 2 * i + 1 ELSE rs[m].start
    BY <1>1, <1>2, <2>1, <2>2, SetStartEffect
  <2>4. Numbered(ts)
    BY <1>0, <2>1, <2>3, SMTT(60) DEF Numbered
  <2>5. rs[Len(rs)].end \in Nat /\ 2 * i + 1 <= rs[Len(rs)].end
    BY <1>0, <1>2, <2>1, <2>2 DEF Numbered
  <2>6. ASSUME NEW j \in Instrs(f, b), j >= i, Operand(f, b, j, v)
        PROVE  \E m \in 1..Len(ts) : InsideRange(f, b, j, v, t, m)
    <3>1. CASE j = i
      <4>1. InsideRange(f, b, j, v, t, Len(ts))
        BY <1>0, <1>3, <2>2, <2>3, <2>5, <3>1 DEF InsideRange, ts
      <4> QED
        BY <2>2, <2>3, <4>1
    <3>2. CASE j >= i + 1
      <4>1. PICK m \in 1..Len(rs) : InsideRange(f, b, j, v, s, m)
        BY <2>6, <3>2 DEF Followed, AllInside, rs
      <4>2. 2 * i + 1 <= OperandStart(f, b, j, v) /\ OperandStart(f, b, j, v) \in Nat
        <5>1. OperandStart(f, b, j, v) \in Nat /\ 2 * j <= OperandStart(f, b, j, v)
          BY <1>0, OperandPoints
        <5> QED
          BY <1>0, <3>2, <5>1
      <4>3. InsideRange(f, b, j, v, t, m)
        BY <2>3, <4>1, <4>2 DEF InsideRange, rs, ts
      <4> QED
        BY <2>3, <4>3
    <3> QED
      BY <1>4, <2>6, <3>1, <3>2
  <2> QED
    BY <1>5, <2>4, <2>6 DEF Followed, AllInside, ts
<1>7. CASE v \notin s.live
  <2>1. ts = Append(rs, x)
    BY <1>7 DEF WriteEffect
  <2>2. x \in Spans(b) /\ x.start = 2 * i + 1 /\ x.end = 2 * i + 1
    BY <1>0, <1>2 DEF Point, LiveRange, Spans
  <2> HIDE DEF x
  <2>3. /\ Numbered(ts) /\ AllInside(f, b, i + 1, v, t)
        /\ ts # <<>> /\ Len(ts) \in 1..Len(ts) /\ ts[Len(ts)] = x
    <3>1. Adds(b, v, s, t, x)
      BY <1>0, <1>1, <1>7, <2>1, <2>2 DEF Adds
    <3> QED
      BY <3>1, AppendKeeps
  <2>4. ASSUME NEW j \in Instrs(f, b), j >= i, Operand(f, b, j, v)
        PROVE  \E m \in 1..Len(ts) : InsideRange(f, b, j, v, t, m)
    <3>1. CASE j = i
      <4>1. InsideRange(f, b, j, v, t, Len(ts))
        BY <1>0, <1>3, <2>2, <2>3, <3>1 DEF InsideRange
      <4> QED
        BY <2>3, <4>1
    <3>2. CASE j >= i + 1
      BY <2>3, <2>4, <3>2 DEF AllInside
    <3> QED
      BY <1>4, <2>4, <3>1, <3>2
  <2> QED
    BY <1>5, <2>3, <2>4 DEF Followed, AllInside
<1> QED
  BY <1>6, <1>7

\* past an instruction without it,
LEMMA FollowedOther ==
    ASSUME NEW f, NEW b, Len(Block(f, b)) \in Nat, NEW v \in VRegs, NEW i \in Instrs(f, b),
           NEW s \in ScanState(b), Followed(f, b, i + 1, v, s), ~ Operand(f, b, i, v),
           NEW t \in ScanState(b), OtherEffect(v, s, t)
    PROVE  Followed(f, b, i, v, t)
<1>0. i \in Nat /\ \A j \in Instrs(f, b) : j \in Nat
  BY DEF Instrs
<1> DEFINE rs == s.ranges[v]
<1>1. v \in Regs /\ (v \in t.live <=> v \in s.live) /\ t.ranges[v] = rs /\ rs \in Seq(Spans(b))
  BY DEF Regs, OtherEffect, ScanState
<1>2. UsePoint(i + 1) = 2 * i + 2 /\ UsePoint(i) = 2 * i
  BY <1>0 DEF UsePoint
<1>3. Numbered(rs) /\ Growing(f, b, i + 1, v, s) /\ AllInside(f, b, i + 1, v, s)
  BY DEF Followed
<1>4. ReadBelow(f, b, i + 1, v) => ReadBelow(f, b, i, v)
  <2> SUFFICES ASSUME ReadBelow(f, b, i + 1, v) PROVE ReadBelow(f, b, i, v)
    OBVIOUS
  <2>1. PICK j \in Instrs(f, b) : /\ j >= i + 1 /\ Reads(f, b, j, v)
                                  /\ \A m \in (i + 1)..(j - 1) : Writes(f, b, m, v) => Reads(f, b, m, v)
    BY DEF ReadBelow
  <2>2. \A m \in i..(j - 1) : m = i \/ m \in (i + 1)..(j - 1)
    BY <1>0
  <2>3. \A m \in i..(j - 1) : Writes(f, b, m, v) => Reads(f, b, m, v)
    BY <2>1, <2>2 DEF Operand
  <2>4. j >= i
    BY <1>0, <2>1
  <2> QED
    BY <2>1, <2>3, <2>4 DEF ReadBelow
<1>5. Growing(f, b, i, v, t)
  <2> SUFFICES ASSUME v \in t.live
               PROVE  /\ rs # <<>> /\ UsePoint(i) <= rs[Len(rs)].end + 1
                      /\ rs[Len(rs)].start = 0 \/ ReadBelow(f, b, i, v)
    BY <1>1 DEF Growing
  <2>1. /\ rs # <<>> /\ 2 * i + 2 <= rs[Len(rs)].end + 1
        /\ rs[Len(rs)].start = 0 \/ ReadBelow(f, b, i + 1, v)
    BY <1>1, <1>2, <1>3 DEF Growing
  <2>2. Len(rs) \in 1..Len(rs)
    BY <1>1, <2>1
  <2>3. rs[Len(rs)].end \in Nat
    BY <1>3, <2>2 DEF Numbered
  <2> QED
    BY <1>0, <1>2, <1>4, <2>1, <2>3, SMTT(60)
<1>6. AllInside(f, b, i, v, t)
  <2>1. ASSUME NEW j \in Instrs(f, b), j >= i, Operand(f, b, j, v)
        PROVE  \E m \in 1..Len(rs) : InsideRange(f, b, j, v, t, m)
    <3>1. j >= i + 1
      BY <1>0, <2>1
    <3>2. PICK m \in 1..Len(rs) : InsideRange(f, b, j, v, s, m)
      BY <1>3, <2>1, <3>1 DEF AllInside
    <3>3. InsideRange(f, b, j, v, t, m)
      BY <1>1, <3>2 DEF InsideRange
    <3> QED
      BY <3>3
  <2> QED
    BY <1>1, <2>1 DEF AllInside
<1> QED
  BY <1>1, <1>3, <1>5, <1>6 DEF Followed

\* past every instruction
LEMMA FollowedStep ==
    ASSUME NEW f, NEW b, Len(Block(f, b)) \in Nat, NEW i \in Instrs(f, b), NEW s \in ScanState(b),
           \A v \in VRegs : Followed(f, b, i + 1, v, s)
    PROVE  LET t == ScanInstr(f, b, i, s)
           IN  t \in ScanState(b) /\ \A v \in VRegs : Followed(f, b, i, v, t)
<1> DEFINE t == ScanInstr(f, b, i, s)
<1>1. t \in ScanState(b) /\ \A v \in VRegs : Effect(f, b, i, v, s, t)
  <2>1. i \in Nat
    BY DEF Instrs
  <2> QED
    BY <2>1, VirtualEffect
<1> HIDE DEF t
<1>2. ASSUME NEW v \in VRegs PROVE Followed(f, b, i, v, t)
  <2>1. Effect(f, b, i, v, s, t) /\ Followed(f, b, i + 1, v, s)
    BY <1>1
  <2>2. CASE Reads(f, b, i, v)
    <3>1. ReadEffect(f, b, i, v, s, t)
      BY <2>1, <2>2 DEF Effect
    <3> QED
      BY <1>1, <2>1, <2>2, <3>1, FollowedRead
  <2>3. CASE ~ Reads(f, b, i, v) /\ Writes(f, b, i, v)
    <3>1. WriteEffect(f, b, i, v, s, t)
      BY <2>1, <2>3 DEF Effect
    <3> QED
      BY <1>1, <2>1, <2>3, <3>1, FollowedWrite
  <2>4. CASE ~ Reads(f, b, i, v) /\ ~ Writes(f, b, i, v)
    <3>1. OtherEffect(v, s, t) /\ ~ Operand(f, b, i, v)
      BY <2>1, <2>4 DEF Effect, Operand
    <3> QED
      BY <1>1, <2>1, <3>1, FollowedOther
  <2> QED
    BY <2>2, <2>3, <2>4
<1> QED
  BY <1>1, <1>2 DEF t

-----------------------------------------------------------------------------
(* Whole blocks.                                                           *)

\* One step of the data flow equations yields registers from registers, and
\* always those that the block reads first.
LEMMA RowOf ==
    ASSUME NEW f, NEW n, NEW prev, NEW c \in Blocks(f)
    PROVE  /\ n = 0 => LiveRow(f, n, prev)[c] = {}
           /\ n # 0 => Uses(f, c) \subseteq LiveRow(f, n, prev)[c]
           /\ n # 0 /\ (\A d \in Succs(f, c) : prev[d] \subseteq Regs) => LiveRow(f, n, prev)[c] \subseteq Regs
BY DEF LiveRow, Uses

\* What is live at the start of a block are registers, among them those that
\* the block reads first.
LEMMA LiveInsHold ==
    ASSUME NEW f, WellFormed(f), NEW b \in Blocks(f)
    PROVE  LiveIns(f)[b] \subseteq Regs /\ Uses(f, b) \subseteq LiveIns(f)[b]
<1> DEFINE last == Len(f.blocks)
<1>0. last \in Nat \ {0} /\ \A c \in Blocks(f) : Succs(f, c) \subseteq Blocks(f)
  <2>1. last \in Nat
    BY DEF WellFormed
  <2>2. last # 0
    BY <2>1 DEF Blocks
  <2> QED
    BY <2>1, <2>2 DEF WellFormed
<1>1. PICK g : LiveIns(f) = g[last] /\ \A n \in 0..last : g[n] = LiveRow(f, n, g[n - 1])
  BY <1>0, LiveInsRows
<1> HIDE DEF last
<1> DEFINE S == {n \in 0..last : ~ \A c \in Blocks(f) : g[n][c] \subseteq Regs}
<1>2. S = {}
  <2> SUFFICES ASSUME S # {} PROVE FALSE
    OBVIOUS
  <2>1. PICK n \in S : \A m \in S : n <= m
    <3>1. S \subseteq Nat
      BY <1>0
    <3> HIDE DEF S
    <3> QED
      BY <3>1, LeastNumber
  <2>2. g[n] = LiveRow(f, n, g[n - 1])
    BY <1>1, <2>1
  <2>3. n # 0 => \A c \in Blocks(f) : g[n - 1][c] \subseteq Regs
    <3>1. n # 0 => n - 1 \in 0..last /\ ~(n <= n - 1)
      BY <1>0, <2>1
    <3> QED
      BY <2>1, <3>1
  <2>4. ASSUME NEW c \in Blocks(f) PROVE g[n][c] \subseteq Regs
    <3>1. n # 0 => \A d \in Succs(f, c) : g[n - 1][d] \subseteq Regs
      BY <1>0, <2>3
    <3> QED
      BY <2>2, <3>1, RowOf
  <2> QED
    BY <2>1, <2>4
<1>3. LiveIns(f)[b] \subseteq Regs
  <2>1. last \in 0..last
    BY <1>0
  <2> QED
    BY <1>1, <1>2, <2>1
<1>4. Uses(f, b) \subseteq LiveIns(f)[b]
  <2>1. last \in 0..last /\ last # 0
    BY <1>0
  <2>2. g[last] = LiveRow(f, last, g[last - 1])
    BY <1>1, <2>1
  <2> QED
    BY <1>1, <2>1, <2>2, RowOf
<1> QED
  BY <1>3, <1>4

\* The scan starts with one range over the whole block for every register
\* that is live at its end.
LEMMA FollowedAtEnd ==
    ASSUME NEW f, NEW b, Len(Block(f, b)) \in Nat \ {0}, NEW live \in SUBSET Regs
    PROVE  /\ ScanStart(f, b, live) \in ScanState(b)
           /\ \A v \in VRegs : Followed(f, b, Len(Block(f, b)), v, ScanStart(f, b, live))
<1> DEFINE n == Len(Block(f, b))
           s == ScanStart(f, b, live)
           x == LiveRange(b, UsePoint(0), DefPoint(n - 1))
<1>0. n \in Nat \ {0} /\ Instrs(f, b) = 0..(n - 1) /\ VRegs \subseteq Regs
  BY DEF Instrs, Regs
<1>1. s.live = live /\ \A r \in Regs : s.ranges[r] = IF r \in live THEN <<x>> ELSE <<>>
  BY DEF ScanStart
<1>2. x \in Spans(b) /\ x.start = 0 /\ x.end = 2 * n - 1
  BY <1>0 DEF LiveRange, UsePoint, DefPoint, Spans
<1>3. s \in ScanState(b)
  <2> DEFINE ranges == [r \in Regs |-> IF r \in live THEN <<x>> ELSE <<>>]
  <2>1. ranges \in [Regs -> Seq(Spans(b))]
    <3> HIDE DEF x
    <3> QED
      BY <1>2
  <2>2. s = [live |-> live, kills |-> {}, ranges |-> ranges]
    BY DEF ScanStart
  <2> HIDE DEF ranges
  <2> QED
    BY <2>1, <2>2 DEF ScanState
<1> HIDE DEF n, s, x
<1>4. ASSUME NEW v \in VRegs PROVE Followed(f, b, n, v, s)
  <2>1. s.ranges[v] = IF v \in live THEN <<x>> ELSE <<>>
    BY <1>0, <1>1
  <2>2. Len(<<x>>) = 1 /\ <<x>>[1] = x /\ <<x>> # <<>> /\ Len(<<>>) = 0
    OBVIOUS
  <2>3. Numbered(s.ranges[v])
    <3>1. x.start \in Nat /\ x.end \in Nat
      BY <1>0, <1>2
    <3> QED
      BY <2>1, <2>2, <3>1 DEF Numbered
  <2>4. Growing(f, b, n, v, s)
    <3>1. UsePoint(n) <= x.end + 1
      BY <1>0, <1>2 DEF UsePoint
    <3> QED
      BY <1>1, <1>2, <2>1, <2>2, <3>1 DEF Growing
  <2>5. AllInside(f, b, n, v, s)
    <3>1. \A j \in Instrs(f, b) : ~(j >= n)
      BY <1>0
    <3> QED
      BY <3>1 DEF AllInside
  <2> QED
    BY <2>3, <2>4, <2>5 DEF Followed
<1> QED
  BY <1>3, <1>4 DEF n, s

\* and through a block.
LEMMA BlockFollowed ==
    ASSUME NEW f, NEW b, Len(Block(f, b)) \in Nat \ {0}, NEW live \in SUBSET Regs
    PROVE  /\ ScanBlock(f, b, live) \in ScanState(b)
           /\ \A v \in VRegs : Followed(f, b, 0, v, ScanBlock(f, b, live))
<1> DEFINE n == Len(Block(f, b))
           g == CHOOSE g : ScanRows(f, g, b, live, n, n)
           Good(i, s) == s \in ScanState(b) /\ \A v \in VRegs : Followed(f, b, i, v, s)
<1>1. ScanBlock(f, b, live) = g[n]
  BY DEF ScanBlock, ScanRows, ScanRow, ScanStart
<1>2. n \in Nat /\ Instrs(f, b) = 0..(n - 1)
  BY DEF Instrs
<1>3. Good(n, ScanStart(f, b, live))
  BY FollowedAtEnd
<1>a. \A i \in Instrs(f, b) : \A s : Good(i + 1, s) => Good(i, ScanInstr(f, b, i, s))
  BY <1>2, FollowedStep
<1> HIDE DEF n, Good
<1>4. ScanRows(f, g, b, live, n, n)
  BY <1>2, ScanRowsExist
<1> HIDE DEF g
<1>5. \A m \in 0..n : g[m] = IF m = 0 THEN ScanStart(f, b, live) ELSE ScanInstr(f, b, n - m, g[m - 1])
  BY <1>4 DEF ScanRows, ScanRow
<1> DEFINE S == {m \in 0..n : ~ Good(n - m, g[m])}
<1>6. S = {}
  <2> SUFFICES ASSUME S # {} PROVE FALSE
    OBVIOUS
  <2>1. PICK m \in S : \A l \in S : m <= l
    <3>1. S \subseteq Nat
      BY <1>2
    <3> HIDE DEF S
    <3> QED
      BY <3>1, LeastNumber
  <2>2. m # 0
    BY <1>2, <1>3, <1>5, <2>1
  <2>3. m \in 0..n /\ m - 1 \in 0..n /\ m - 1 < m /\ n - m \in Instrs(f, b) /\ n - (m - 1) = (n - m) + 1
    BY <1>2, <2>1, <2>2
  <2>4. Good(n - (m - 1), g[m - 1])
    BY <2>1, <2>3
  <2>5. Good((n - m) + 1, g[m - 1])
    BY <2>3, <2>4
  <2>6. Good(n - m, ScanInstr(f, b, n - m, g[m - 1]))
    BY <1>a, <2>3, <2>5
  <2>7. Good(n - m, g[m])
    BY <1>5, <2>2, <2>3, <2>6
  <2> QED
    BY <2>1, <2>7
<1>7. Good(n - n, g[n]) /\ n - n = 0
  BY <1>2, <1>6
<1> QED
  BY <1>1, <1>7 DEF Good

\* A register that is read before it is written is among the uses of the
\* block: the first read is not that of a two-address instruction, which
\* would have a definition before it.
LEMMA ReadBelowIsUse ==
    ASSUME NEW f, WellFormed(f), NEW b \in Blocks(f), NEW v \in VRegs, ReadBelow(f, b, 0, v)
    PROVE  v \in Uses(f, b)
<1>0. v \in Regs /\ \A i \in Instrs(f, b) : i \in Nat
  BY DEF Regs, Instrs
<1> DEFINE S == {j \in Instrs(f, b) : Reads(f, b, j, v)}
<1>1. PICK j \in S : \A m \in S : j <= m
  <2>1. S \subseteq Nat /\ S # {}
    BY <1>0 DEF ReadBelow
  <2> HIDE DEF S
  <2> QED
    BY <2>1, LeastNumber
<1>2. j \in Instrs(f, b) /\ Reads(f, b, j, v) /\ j \in Nat
  BY <1>0, <1>1
<1>3. PICK d \in Instrs(f, b) : Reads(f, b, d, v) /\ \A m \in 0..(d - 1) : Writes(f, b, m, v) => Reads(f, b, m, v)
  BY DEF ReadBelow
<1>4. \A m \in 0..(j - 1) : m \in Instrs(f, b) /\ m \in 0..(d - 1) /\ ~(j <= m)
  <2>1. j <= d /\ d \in Nat
    BY <1>0, <1>1, <1>3
  <2>2. Len(Block(f, b)) \in Nat
    BY DEF WellFormed
  <2>3. j \in 0..(Len(Block(f, b)) - 1)
    BY <1>2 DEF Instrs
  <2> QED
    BY <1>2, <2>1, <2>2, <2>3 DEF Instrs
<1>5. \A m \in 0..(j - 1) : ~ Has(f, b, m, "DEF", v)
  <2> SUFFICES ASSUME NEW m \in 0..(j - 1), Has(f, b, m, "DEF", v) PROVE FALSE
    OBVIOUS
  <2>1. Reads(f, b, m, v)
    BY <1>3, <1>4 DEF Writes
  <2> QED
    BY <1>1, <1>4, <2>1
<1>6. ~ Has(f, b, j, "USE_DEF", v)
  <2>1. Has(f, b, j, "USE_DEF", v) => \E m \in 0..(j - 1) : Has(f, b, m, "DEF", v)
    BY <1>0, <1>2 DEF WellFormed, TwoAddress
  <2> QED
    BY <1>5, <2>1
<1>7. PICK k \in DOMAIN RegOps(f, b, j) :
        RegOps(f, b, j)[k].usage = "USE" /\ v \in RegOps(f, b, j)[k].regs
  BY <1>2, <1>6 DEF Reads, Has
<1>8. \A m \in 1..(k - 1) : ~(RegOps(f, b, j)[m].usage = "DEF" /\ v \in RegOps(f, b, j)[m].regs)
  BY <1>7, UseBeforeDef
<1>9. UsedFirst(f, b, j, v)
  BY <1>5, <1>7, <1>8 DEF UsedFirst
<1> QED
  BY <1>0, <1>2, <1>9 DEF Uses

\* For every function, an operand of a virtual register lies in one of the
\* live ranges that the analysis finds for the register, from the point at
\* which it is read to the one at which it is written
\* (compute_precise_live_ranges, liveness.cpp).
THEOREM OperandsInRanges ==
    ASSUME NEW f, WellFormed(f), NEW b \in Blocks(f), NEW i \in Instrs(f, b),
           NEW v \in VRegs, Operand(f, b, i, v)
    PROVE  LET rs == PreciseRanges(f, b, LiveIns(f)[b], LiveOuts(f)[b]).ranges[v]
           IN  \E m \in 1..Len(rs) :
                 /\ rs[m] \in Spans(b) /\ rs[m].start \in Nat /\ rs[m].end \in Nat
                 /\ rs[m].start <= OperandStart(f, b, i, v) /\ OperandEnd(f, b, i, v) <= rs[m].end
<1> DEFINE ins == LiveIns(f)[b]
           s == ScanBlock(f, b, LiveOuts(f)[b])
           rs == s.ranges[v]
           ps == PreciseRanges(f, b, ins, LiveOuts(f)[b]).ranges[v]
<1>1. Len(Block(f, b)) \in Nat \ {0} /\ Block(f, b) # <<>> /\ i \in Nat /\ i >= 0 /\ v \in Regs
  BY DEF WellFormed, Instrs, Regs
<1>2. LiveOuts(f)[b] \in SUBSET Regs
  <2>1. \A c \in Succs(f, b) : LiveIns(f)[c] \subseteq Regs
    BY LiveInsHold DEF WellFormed
  <2> QED
    BY <2>1 DEF LiveOuts
<1>3. s \in ScanState(b) /\ Followed(f, b, 0, v, s)
  BY <1>1, <1>2, BlockFollowed
<1>4. ps = IF v \in ins THEN SetStart(rs, UsePoint(0)) ELSE rs
  BY <1>1 DEF PreciseRanges
<1>5. rs \in Seq(Spans(b)) /\ Numbered(rs) /\ Growing(f, b, 0, v, s)
  BY <1>1, <1>3 DEF ScanState, Followed
<1>6. OperandStart(f, b, i, v) \in Nat /\ OperandEnd(f, b, i, v) \in Nat
  BY <1>1, OperandPoints
<1>7. PICK m \in 1..Len(rs) : InsideRange(f, b, i, v, s, m)
  BY <1>1, <1>3 DEF Followed, AllInside
<1>8. /\ OperandEnd(f, b, i, v) <= rs[m].end
      /\ rs[m].start <= OperandStart(f, b, i, v) \/ (v \in s.live /\ m = Len(rs))
  BY <1>7 DEF InsideRange
<1> HIDE DEF s, ps
<1>9. rs[m] \in Spans(b) /\ rs[m].start \in Nat /\ rs[m].end \in Nat
  BY <1>5 DEF Numbered
<1>10. CASE v \in ins
  <2>1. ps = SetStart(rs, 0)
    BY <1>4, <1>10 DEF UsePoint
  <2> HIDE DEF rs
  <2>2. /\ Len(ps) = Len(rs) /\ ps[m] \in Spans(b) /\ ps[m].end = rs[m].end
        /\ ps[m].start = IF m = Len(rs) THEN 0 ELSE rs[m].start
    BY <1>5, <2>1, SetStartEffect
  <2> QED
    BY <1>6, <1>8, <1>9, <2>2, SMTT(60) DEF ps
<1>11. CASE v \notin ins
  <2>1. ps = rs
    BY <1>4, <1>11
  <2>2. rs[m].start <= OperandStart(f, b, i, v)
    <3> SUFFICES ASSUME v \in s.live, m = Len(rs)
                 PROVE  rs[m].start <= OperandStart(f, b, i, v)
      BY <1>8
    <3>1. ~ ReadBelow(f, b, 0, v)
      BY <1>11, ReadBelowIsUse, LiveInsHold
    <3>2. rs[m].start = 0
      BY <1>5, <3>1 DEF Growing
    <3> QED
      BY <1>6, <3>2
  <2> QED
    BY <1>8, <1>9, <2>1, <2>2 DEF ps
<1> QED
  BY <1>10, <1>11

-----------------------------------------------------------------------------
(* The equations of the analysis, and what the instructions need.          *)

\* A block writes a register if and only if it defines it: what an instruction
\* reads and writes was defined by an earlier one.
LEMMA WritesAreDefs ==
    ASSUME NEW f, WellFormed(f), NEW b \in Blocks(f), NEW r \in Regs
    PROVE  (\E i \in Instrs(f, b) : Writes(f, b, i, r)) <=> r \in Defs(f, b)
<1>1. ASSUME NEW i \in Instrs(f, b), Writes(f, b, i, r)
      PROVE  r \in Defs(f, b)
  <2>1. CASE Has(f, b, i, "USE_DEF", r)
    <3>1. PICK j \in 0..(i - 1) : Has(f, b, j, "DEF", r)
      BY <2>1 DEF WellFormed, TwoAddress
    <3>2. j \in Instrs(f, b)
      BY <3>1 DEF Instrs
    <3> QED
      BY <3>1, <3>2 DEF Defs
  <2>2. CASE Has(f, b, i, "DEF", r)
    BY <2>2 DEF Defs
  <2> QED
    BY <1>1, <2>1, <2>2 DEF Writes
<1> QED
  BY <1>1 DEF Defs, Writes

\* A block reads a register before it writes it if and only if it uses it.
LEMMA ReadsAreUses ==
    ASSUME NEW f, WellFormed(f), NEW b \in Blocks(f), NEW r \in Regs
    PROVE  ReadFirst(f, b, r) <=> r \in Uses(f, b)
<1>1. \A i \in Instrs(f, b) :
        Has(f, b, i, "USE_DEF", r) => \E j \in 0..(i - 1) : Has(f, b, j, "DEF", r)
  BY DEF WellFormed, TwoAddress
<1>2. \A i \in Instrs(f, b) : \A j \in 0..(i - 1) : j \in Instrs(f, b)
  BY DEF Instrs
<1>3. ASSUME NEW i \in Instrs(f, b), UsedFirst(f, b, i, r)
      PROVE  ReadFirst(f, b, r)
  <2>1. Reads(f, b, i, r)
    BY <1>3 DEF UsedFirst, Reads, Has
  <2>2. \A j \in 0..(i - 1) : ~ Has(f, b, j, "DEF", r)
    BY <1>3 DEF UsedFirst
  <2>3. ASSUME NEW j \in 0..(i - 1), Has(f, b, j, "USE_DEF", r)
        PROVE  FALSE
    <3>1. PICK m \in 0..(j - 1) : Has(f, b, m, "DEF", r)
      BY <1>1, <1>2, <2>3
    <3>2. m \in 0..(i - 1)
      BY <3>1, <2>3 DEF Instrs
    <3> QED
      BY <2>2, <3>1, <3>2
  <2> QED
    BY <2>1, <2>2, <2>3 DEF ReadFirst, Writes
<1>4. ASSUME NEW i \in Instrs(f, b), Reads(f, b, i, r), \A j \in 0..(i - 1) : ~ Writes(f, b, j, r)
      PROVE  UsedFirst(f, b, i, r)
  <2>1. \A j \in 0..(i - 1) : ~ Has(f, b, j, "DEF", r)
    BY <1>4 DEF Writes
  <2>2. Has(f, b, i, "USE", r)
    BY <1>1, <1>4, <2>1 DEF Reads
  <2>3. PICK n \in DOMAIN RegOps(f, b, i) :
          RegOps(f, b, i)[n].usage = "USE" /\ r \in RegOps(f, b, i)[n].regs
    BY <2>2 DEF Has
  <2>4. \A m \in 1..(n - 1) :
          ~(RegOps(f, b, i)[m].usage = "DEF" /\ r \in RegOps(f, b, i)[m].regs)
    BY <2>3, UseBeforeDef
  <2> QED
    BY <2>1, <2>3, <2>4 DEF UsedFirst
<1> QED
  BY <1>3, <1>4 DEF ReadFirst, Uses

-----------------------------------------------------------------------------
(***************************************************************************)
(* The precise live ranges of a block.  The scan is followed for one       *)
(* register at a time: it is live before instruction i exactly if it is    *)
(* needed there, and its ranges, the last one taken to reach up to i while *)
(* it is live, cover the points from i on at which it is needed.           *)
(***************************************************************************)

\* The points that ranges cover, and those they cover when the last one
\* reaches up to point q.
Cover(rs) == UNION {rs[j].start..rs[j].end : j \in 1..Len(rs)}
Open(rs, q) == (UNION {rs[j].start..rs[j].end : j \in 1..(Len(rs) - 1)}) \union (q..rs[Len(rs)].end)

\* One more range covers its points too.
LEMMA CoverAppend ==
    ASSUME NEW b, NEW rs \in Seq(Spans(b)), NEW x \in Spans(b), NEW q \in Int
    PROVE  LET more == Append(rs, x)
           IN  /\ Cover(more) = Cover(rs) \union (x.start..x.end)
               /\ Open(more, q) = Cover(rs) \union (q..x.end)
               /\ more # <<>> /\ more[Len(more)] = x
<1> DEFINE more == Append(rs, x)
           n == Len(rs)
<1>1. n \in Nat /\ Len(more) = n + 1 /\ more[n + 1] = x /\ \A j \in 1..n : more[j] = rs[j]
  OBVIOUS
<1>2. more # <<>>
  BY <1>1
<1> HIDE DEF more
<1>3. UNION {more[j].start..more[j].end : j \in 1..n} = Cover(rs)
  BY <1>1 DEF Cover
<1> HIDE DEF n
<1>4. Cover(more) = (UNION {more[j].start..more[j].end : j \in 1..n}) \union (x.start..x.end)
  <2>1. \A j : j \in 1..(n + 1) <=> j \in 1..n \/ j = n + 1
    BY <1>1
  <2>2. n + 1 \in 1..(n + 1)
    BY <1>1
  <2> QED
    BY <1>1, <2>1, <2>2 DEF Cover
<1>5. Open(more, q) = (UNION {more[j].start..more[j].end : j \in 1..n}) \union (q..x.end)
  <2>1. (n + 1) - 1 = n
    BY <1>1
  <2> QED
    BY <1>1, <2>1 DEF Open
<1> QED
  BY <1>1, <1>2, <1>3, <1>4, <1>5 DEF more

\* The last range is a range.
LEMMA LastSpan ==
    ASSUME NEW b, NEW rs \in Seq(Spans(b)), rs # <<>>
    PROVE  Len(rs) \in Nat \ {0} /\ rs \in [1..Len(rs) -> Spans(b)] /\ rs[Len(rs)] \in Spans(b)
<1>1. Len(rs) \in Nat /\ rs \in [1..Len(rs) -> Spans(b)]
  OBVIOUS
<1>2. Len(rs) # 0
  <2> SUFFICES ASSUME Len(rs) = 0 PROVE FALSE
    OBVIOUS
  <2>1. rs = <<>>
    OBVIOUS
  <2> QED
    BY <2>1
<1> QED
  BY <1>1, <1>2

\* Growing the last range upwards covers what lies between.
LEMMA CoverSetStart ==
    ASSUME NEW b, NEW rs \in Seq(Spans(b)), rs # <<>>, NEW q \in Int
    PROVE  Cover(SetStart(rs, q)) = Open(rs, q) /\ Cover(rs) = Open(rs, rs[Len(rs)].start)
<1> DEFINE n == Len(rs)
           set == SetStart(rs, q)
<1>1. n \in Nat \ {0} /\ rs \in [1..n -> Spans(b)]
  BY LastSpan
<1> HIDE DEF n
<1>2. set = [rs EXCEPT ![n] = [rs[n] EXCEPT !.start = q]]
  BY DEF SetStart, n
<1> HIDE DEF set
<1>3. rs[n] \in Spans(b)
  BY <1>1
<1>4. set[n].start = q /\ set[n].end = rs[n].end
  BY <1>1, <1>2, <1>3 DEF Spans
<1>5. \A j \in 1..(n - 1) : set[j] = rs[j]
  BY <1>1, <1>2
<1>6. set \in Seq(Spans(b)) /\ Len(set) = n
  <2>1. [rs[n] EXCEPT !.start = q] \in Spans(b)
    BY <1>3 DEF Spans
  <2>2. set \in [1..n -> Spans(b)]
    BY <1>1, <1>2, <2>1
  <2> QED
    BY <1>1, <2>2
<1>7. /\ \A j : j \in 1..n <=> j \in 1..(n - 1) \/ j = n
      /\ n \in 1..n
  BY <1>1
<1>8. Cover(set) = (UNION {set[j].start..set[j].end : j \in 1..(n - 1)}) \union (set[n].start..set[n].end)
  BY <1>6, <1>7 DEF Cover
<1>9. UNION {set[j].start..set[j].end : j \in 1..(n - 1)} = UNION {rs[j].start..rs[j].end : j \in 1..(n - 1)}
  BY <1>5
<1>10. Cover(rs) = (UNION {rs[j].start..rs[j].end : j \in 1..(n - 1)}) \union (rs[n].start..rs[n].end)
  BY <1>7 DEF Cover, n
<1> QED
  BY <1>4, <1>8, <1>9, <1>10 DEF Open, n, set

\* The range that is open covers one instruction more.
LEMMA OpenGrows ==
    ASSUME NEW b, NEW rs \in Seq(Spans(b)), rs # <<>>, NEW q \in Int, q <= rs[Len(rs)].end + 1
    PROVE  Open(rs, q - 2) = Open(rs, q) \union {q - 2, q - 1} /\ Open(rs, q - 1) = Open(rs, q) \union {q - 1}
<1>1. rs[Len(rs)].end \in Int
  BY LastSpan DEF Spans
<1> DEFINE last == rs[Len(rs)].end
<1>2. last \in Int /\ q <= last + 1
  BY <1>1
<1> HIDE DEF last
<1>3. (q - 2)..last = (q..last) \union {q - 2, q - 1} /\ (q - 1)..last = (q..last) \union {q - 1}
  BY <1>2
<1> QED
  BY <1>3 DEF Open, last

\* What is needed at an instruction and behind it.
LEMMA NeededSteps ==
    ASSUME NEW f, NEW b, NEW live, NEW r, NEW i \in Instrs(f, b), Len(Block(f, b)) \in Nat
    PROVE  /\ NeededAt(f, b, i, r, live) <=> Reads(f, b, i, r) \/ (~ Writes(f, b, i, r) /\ NeededAt(f, b, i + 1, r, live))
           /\ UsePoint(i) \in Needed(f, b, r, live) <=> NeededAt(f, b, i, r, live)
           /\ DefPoint(i) \in Needed(f, b, r, live) <=> Writes(f, b, i, r) \/ NeededAt(f, b, i + 1, r, live)
<1> DEFINE n == Len(Block(f, b))
<1>0. Instrs(f, b) = 0..(n - 1) /\ LastPoint(f, b) = 2 * (n - 1) + 1
  BY DEF Instrs, LastPoint, DefPoint
<1>1. n \in Nat
  OBVIOUS
<1> HIDE DEF n
<1>2. i \in 0..(n - 1)
  BY <1>0
<1>3. NeededAt(f, b, i, r, live) <=> Reads(f, b, i, r) \/ (~ Writes(f, b, i, r) /\ NeededAt(f, b, i + 1, r, live))
  <2>1. ASSUME NeededAt(f, b, i, r, live), ~ Reads(f, b, i, r)
        PROVE  ~ Writes(f, b, i, r) /\ NeededAt(f, b, i + 1, r, live)
    <3>1. CASE r \in live /\ \A m \in Instrs(f, b) : m >= i => ~ Writes(f, b, m, r)
      BY <1>0, <1>1, <1>2, <3>1 DEF NeededAt
    <3>2. CASE \E j \in Instrs(f, b) :
                 j >= i /\ Reads(f, b, j, r) /\ \A m \in i..(j - 1) : ~ Writes(f, b, m, r)
      <4>1. PICK j \in Instrs(f, b) :
              j >= i /\ Reads(f, b, j, r) /\ \A m \in i..(j - 1) : ~ Writes(f, b, m, r)
        BY <3>2
      <4>2. j # i
        BY <2>1, <4>1
      <4>3. j >= i + 1 /\ i \in i..(j - 1) /\ (i + 1)..(j - 1) \subseteq i..(j - 1)
        BY <1>0, <1>1, <1>2, <4>1, <4>2
      <4> QED
        BY <4>1, <4>3 DEF NeededAt
    <3> QED
      BY <2>1, <3>1, <3>2 DEF NeededAt
  <2>2. ASSUME Reads(f, b, i, r) PROVE NeededAt(f, b, i, r, live)
    <3>1. i >= i /\ i..(i - 1) = {}
      BY <1>2
    <3> QED
      BY <2>2, <3>1 DEF NeededAt
  <2>3. ASSUME ~ Writes(f, b, i, r), NeededAt(f, b, i + 1, r, live)
        PROVE  NeededAt(f, b, i, r, live)
    <3>1. CASE r \in live /\ \A m \in Instrs(f, b) : m >= i + 1 => ~ Writes(f, b, m, r)
      <4>1. \A m \in Instrs(f, b) : m >= i => m >= i + 1 \/ m = i
        BY <1>0, <1>1, <1>2
      <4> QED
        BY <2>3, <3>1, <4>1 DEF NeededAt
    <3>2. CASE \E j \in Instrs(f, b) :
                 j >= i + 1 /\ Reads(f, b, j, r) /\ \A m \in (i + 1)..(j - 1) : ~ Writes(f, b, m, r)
      <4>1. PICK j \in Instrs(f, b) :
              j >= i + 1 /\ Reads(f, b, j, r) /\ \A m \in (i + 1)..(j - 1) : ~ Writes(f, b, m, r)
        BY <3>2
      <4>2. j >= i /\ \A m \in i..(j - 1) : m = i \/ m \in (i + 1)..(j - 1)
        BY <1>0, <1>1, <1>2, <4>1
      <4> QED
        BY <2>3, <4>1, <4>2 DEF NeededAt
    <3> QED
      BY <2>3, <3>1, <3>2 DEF NeededAt
  <2> QED
    BY <2>1, <2>2, <2>3
<1>4. UsePoint(i) \in Needed(f, b, r, live) <=> NeededAt(f, b, i, r, live)
  <2>1. 2 * i \in 0..LastPoint(f, b)
    BY <1>0, <1>1, <1>2
  <2>2. \A j \in Instrs(f, b) : /\ (2 * i = 2 * j <=> j = i) /\ 2 * i # 2 * j + 1
                                   /\ (2 * j + 1 > 2 * i <=> j >= i) /\ (2 * j >= 2 * i <=> j >= i)
    BY <1>0, <1>1, <1>2
  <2>3. UsePoint(i) \in Needed(f, b, r, live) <=>
          \/ Reads(f, b, i, r)
          \/ r \in live /\ \A m \in Instrs(f, b) : m >= i => ~ Writes(f, b, m, r)
          \/ \E j \in Instrs(f, b) :
               j >= i /\ Reads(f, b, j, r) /\ \A m \in 0..(j - 1) : m >= i => ~ Writes(f, b, m, r)
    <3>1. \A j \in Instrs(f, b) : \A m \in 0..(j - 1) : m \in Instrs(f, b)
      BY <1>0, <1>1
    <3> QED
      BY <2>1, <2>2, <3>1 DEF Needed, UsePoint, DefPoint
  <2>4. \A j \in Instrs(f, b) : \A m : m \in i..(j - 1) <=> m \in 0..(j - 1) /\ m >= i
    BY <1>0, <1>1, <1>2
  <2> QED
    BY <1>3, <2>3, <2>4 DEF NeededAt
<1>5. DefPoint(i) \in Needed(f, b, r, live) <=> Writes(f, b, i, r) \/ NeededAt(f, b, i + 1, r, live)
  <2>1. 2 * i + 1 \in 0..LastPoint(f, b)
    BY <1>0, <1>1, <1>2
  <2>2. \A j \in Instrs(f, b) : /\ (2 * i + 1 = 2 * j + 1 <=> j = i) /\ 2 * i + 1 # 2 * j
                                   /\ (2 * j + 1 > 2 * i + 1 <=> j >= i + 1)
                                   /\ (2 * j >= 2 * i + 1 <=> j >= i + 1)
    BY <1>0, <1>1, <1>2
  <2>3. DefPoint(i) \in Needed(f, b, r, live) <=>
          \/ Writes(f, b, i, r)
          \/ r \in live /\ \A m \in Instrs(f, b) : m >= i + 1 => ~ Writes(f, b, m, r)
          \/ \E j \in Instrs(f, b) :
               j >= i + 1 /\ Reads(f, b, j, r) /\ \A m \in 0..(j - 1) : m >= i + 1 => ~ Writes(f, b, m, r)
    <3>1. \A j \in Instrs(f, b) : \A m \in 0..(j - 1) : m \in Instrs(f, b)
      BY <1>0, <1>1
    <3> QED
      BY <2>1, <2>2, <3>1 DEF Needed, UsePoint, DefPoint
  <2>4. \A j \in Instrs(f, b) : \A m : m \in (i + 1)..(j - 1) <=> m \in 0..(j - 1) /\ m >= i + 1
    BY <1>0, <1>1, <1>2
  <2> QED
    BY <2>3, <2>4 DEF NeededAt
<1> QED
  BY <1>3, <1>4, <1>5

\* The points from instruction i on at which r is needed.
From(f, b, r, i, live) == {p \in Needed(f, b, r, live) : p >= UsePoint(i)}

\* What is needed from an instruction on, from what is needed behind it.
LEMMA FromSteps ==
    ASSUME NEW f, NEW b, NEW live, NEW r, NEW i \in Instrs(f, b), Len(Block(f, b)) \in Nat
    PROVE  From(f, b, r, i, live) = From(f, b, r, i + 1, live)
               \union (IF NeededAt(f, b, i, r, live) THEN {UsePoint(i)} ELSE {})
               \union (IF Writes(f, b, i, r) \/ NeededAt(f, b, i + 1, r, live) THEN {DefPoint(i)} ELSE {})
<1>1. i \in Nat /\ Needed(f, b, r, live) \subseteq Int
  BY DEF Instrs, Needed
<1>2. \A p \in Int : p >= 2 * i <=> p >= 2 * (i + 1) \/ p = 2 * i \/ p = 2 * i + 1
  BY <1>1
<1>3. 2 * i + 1 >= 2 * i
  BY <1>1
<1>4. /\ 2 * i \in Needed(f, b, r, live) <=> NeededAt(f, b, i, r, live)
      /\ 2 * i + 1 \in Needed(f, b, r, live) <=> Writes(f, b, i, r) \/ NeededAt(f, b, i + 1, r, live)
  BY NeededSteps DEF UsePoint, DefPoint
<1> HIDE DEF Needed, NeededAt
<1> QED
  BY <1>1, <1>2, <1>3, <1>4, SMTT(60) DEF From, UsePoint, DefPoint

\* A register no point of instruction i needs has the same needed points before
\* and after it.
LEMMA FromSame ==
    ASSUME NEW f, NEW b, NEW live, NEW r, NEW i \in Instrs(f, b), Len(Block(f, b)) \in Nat,
           ~ NeededAt(f, b, i, r, live), ~ NeededAt(f, b, i + 1, r, live), ~ Writes(f, b, i, r)
    PROVE  From(f, b, r, i, live) = From(f, b, r, i + 1, live)
<1>1. i \in Nat /\ Needed(f, b, r, live) \subseteq Int
  BY DEF Instrs, Needed
<1>2. 2 * i \notin Needed(f, b, r, live) /\ 2 * i + 1 \notin Needed(f, b, r, live)
  BY <1>1, NeededSteps DEF UsePoint, DefPoint
<1>3. \A p \in Int : p >= 2 * i <=> p >= 2 * (i + 1) \/ p = 2 * i \/ p = 2 * i + 1
  BY <1>1
<1> QED
  BY <1>1, <1>2, <1>3 DEF From, UsePoint

\* The scan before it looks at instruction i - 1.
ScannedReg(f, b, i, s, r, live) ==
    /\ r \in s.live <=> NeededAt(f, b, i, r, live)
    /\ r \in s.live =>
         /\ s.ranges[r] # <<>>
         /\ UsePoint(i) <= s.ranges[r][Len(s.ranges[r])].end + 1
         /\ Open(s.ranges[r], UsePoint(i)) = From(f, b, r, i, live)
    /\ r \notin s.live => Cover(s.ranges[r]) = From(f, b, r, i, live)
    /\ (i \in Instrs(f, b) /\ Reads(f, b, i, r) /\ ~ NeededAt(f, b, i + 1, r, live)) =>
         s.ranges[r][Len(s.ranges[r])].start = UsePoint(i)

Scanned(f, b, i, s, live) == s \in ScanState(b) /\ \A r \in Regs : ScannedReg(f, b, i, s, r, live)

\* The ranges stay exact at a read,
LEMMA ReadStep ==
    ASSUME NEW f, NEW b, NEW live, NEW r \in Regs, NEW i \in Instrs(f, b), Len(Block(f, b)) \in Nat,
           NEW s \in ScanState(b), ScannedReg(f, b, i + 1, s, r, live), Reads(f, b, i, r),
           NEW t \in ScanState(b), ReadEffect(f, b, i, r, s, t)
    PROVE  ScannedReg(f, b, i, t, r, live)
<1>0. i \in Nat
  BY DEF Instrs
<1> DEFINE rs == s.ranges[r]
           ts == t.ranges[r]
           x == LiveRange(b, UsePoint(i), IF Writes(f, b, i, r) THEN DefPoint(i) ELSE UsePoint(i))
<1>1. NeededAt(f, b, i, r, live) /\ r \in t.live
  BY NeededSteps DEF ReadEffect
<1>2. rs \in Seq(Spans(b)) /\ ts \in Seq(Spans(b))
  BY DEF ScanState
<1>3. UsePoint(i + 1) = 2 * i + 2 /\ UsePoint(i) = 2 * i /\ DefPoint(i) = 2 * i + 1
  BY <1>0 DEF UsePoint, DefPoint
<1>4. CASE r \in s.live
  <2>1. ts = rs /\ rs # <<>> /\ NeededAt(f, b, i + 1, r, live)
        /\ UsePoint(i + 1) <= rs[Len(rs)].end + 1 /\ Open(rs, UsePoint(i + 1)) = From(f, b, r, i + 1, live)
    BY <1>4 DEF ReadEffect, ScannedReg
  <2>2. From(f, b, r, i, live) = From(f, b, r, i + 1, live) \union {2 * i, 2 * i + 1}
    BY <1>1, <1>3, <2>1, FromSteps
  <2> HIDE DEF rs, ts
  <2>3. rs[Len(rs)].end \in Int
    BY <1>2, <2>1, LastSpan DEF Spans
  <2>4. 2 * i + 2 \in Int /\ (2 * i + 2) - 2 = 2 * i /\ (2 * i + 2) - 1 = 2 * i + 1
    BY <1>0
  <2>5. Open(rs, 2 * i) = Open(rs, 2 * i + 2) \union {2 * i, 2 * i + 1}
    <3>1. 2 * i + 2 <= rs[Len(rs)].end + 1
      BY <1>3, <2>1
    <3>2. Open(rs, (2 * i + 2) - 2) = Open(rs, 2 * i + 2) \union {(2 * i + 2) - 2, (2 * i + 2) - 1}
      BY <1>2, <2>1, <2>4, <3>1, OpenGrows
    <3> QED
      BY <2>4, <3>2
  <2>6. UsePoint(i) <= rs[Len(rs)].end + 1
    BY <1>0, <1>3, <2>1, <2>3
  <2>7. Open(ts, UsePoint(i)) = From(f, b, r, i, live)
    BY <1>3, <2>1, <2>2, <2>5
  <2> QED
    BY <1>1, <2>1, <2>6, <2>7 DEF ScannedReg, rs, ts
<1>5. CASE r \notin s.live
  <2>1. ts = Append(rs, x) /\ ~ NeededAt(f, b, i + 1, r, live) /\ Cover(rs) = From(f, b, r, i + 1, live)
    BY <1>5 DEF ReadEffect, ScannedReg
  <2>2. From(f, b, r, i, live) = From(f, b, r, i + 1, live) \union {2 * i}
                            \union (IF Writes(f, b, i, r) THEN {2 * i + 1} ELSE {})
    BY <1>1, <1>3, <2>1, FromSteps
  <2>3. x \in Spans(b) /\ x.start = 2 * i /\ x.end = IF Writes(f, b, i, r) THEN 2 * i + 1 ELSE 2 * i
    BY <1>0, <1>3 DEF LiveRange, Spans
  <2> HIDE DEF rs, ts, x
  <2>4. /\ Open(ts, 2 * i) = Cover(rs) \union ((2 * i)..x.end)
        /\ ts # <<>> /\ ts[Len(ts)] = x
    BY <1>0, <1>2, <2>1, <2>3, CoverAppend
  <2>5. (2 * i)..x.end = {2 * i} \union (IF Writes(f, b, i, r) THEN {2 * i + 1} ELSE {})
    BY <1>0, <2>3
  <2>6. Open(ts, UsePoint(i)) = From(f, b, r, i, live)
    BY <1>3, <2>1, <2>2, <2>4, <2>5
  <2>7. UsePoint(i) <= ts[Len(ts)].end + 1 /\ ts[Len(ts)].start = UsePoint(i)
    BY <1>0, <1>3, <2>3, <2>4
  <2> QED
    BY <1>1, <2>4, <2>6, <2>7 DEF ScannedReg, ts
<1> QED
  BY <1>4, <1>5

\* Only the result is written by a call.
LEMMA CallWrites ==
    ASSUME NEW f, NEW b, NEW i, Instr(f, b, i).op = "call", NEW r, Writes(f, b, i, r)
    PROVE  r = RetReg
<1>1. RegOps(f, b, i) = <<Op("KILL", Volatile), Op("USE", CallArgs(f, b, i)), Op("DEF", {RetReg})>>
  BY DEF RegOps
<1> QED
  BY <1>1 DEF Writes, Has, Op

\* at a write,
LEMMA WriteStep ==
    ASSUME NEW f, NEW b, NEW live, NEW r \in Regs, NEW i \in Instrs(f, b), Len(Block(f, b)) \in Nat, PlainCalls(f, b, live),
           NEW s \in ScanState(b), ScannedReg(f, b, i + 1, s, r, live), Writes(f, b, i, r), ~ Reads(f, b, i, r),
           NEW t \in ScanState(b), WriteEffect(f, b, i, r, s, t)
    PROVE  ScannedReg(f, b, i, t, r, live)
<1>0. i \in Nat
  BY DEF Instrs
<1> DEFINE rs == s.ranges[r]
           ts == t.ranges[r]
           x == Point(b, DefPoint(i))
<1>1. ~ NeededAt(f, b, i, r, live) /\ r \notin t.live
  BY NeededSteps DEF WriteEffect
<1>2. rs \in Seq(Spans(b)) /\ ts \in Seq(Spans(b))
  BY DEF ScanState
<1>3. UsePoint(i + 1) = 2 * i + 2 /\ UsePoint(i) = 2 * i /\ DefPoint(i) = 2 * i + 1
  BY <1>0 DEF UsePoint, DefPoint
<1>4. From(f, b, r, i, live) = From(f, b, r, i + 1, live) \union {2 * i + 1}
  BY <1>1, <1>3, FromSteps
<1>5. CASE r \in s.live /\ Instr(f, b, i).op # "call"
  <2>1. ts = SetStart(rs, 2 * i + 1) /\ rs # <<>>
        /\ UsePoint(i + 1) <= rs[Len(rs)].end + 1 /\ Open(rs, UsePoint(i + 1)) = From(f, b, r, i + 1, live)
    BY <1>3, <1>5 DEF WriteEffect, ScannedReg
  <2> HIDE DEF rs, ts
  <2>2. 2 * i + 2 \in Int /\ (2 * i + 2) - 1 = 2 * i + 1 /\ 2 * i + 1 \in Int
    BY <1>0
  <2>3. Open(rs, 2 * i + 1) = Open(rs, 2 * i + 2) \union {2 * i + 1}
    <3>1. 2 * i + 2 <= rs[Len(rs)].end + 1
      BY <1>3, <2>1
    <3>2. Open(rs, (2 * i + 2) - 1) = Open(rs, 2 * i + 2) \union {(2 * i + 2) - 1}
      BY <1>2, <2>1, <2>2, <3>1, OpenGrows
    <3> QED
      BY <2>2, <3>2
  <2>4. Cover(ts) = Open(rs, 2 * i + 1)
    BY <1>2, <2>1, <2>2, CoverSetStart
  <2>5. Cover(ts) = From(f, b, r, i, live)
    BY <1>3, <1>4, <2>1, <2>3, <2>4
  <2> QED
    BY <1>1, <2>5 DEF ScannedReg, ts
<1>6. CASE ~(r \in s.live /\ Instr(f, b, i).op # "call")
  <2>1. ts = Append(rs, x)
    BY <1>6 DEF WriteEffect
  <2>2. Cover(rs) = From(f, b, r, i + 1, live)
    <3>1. CASE r \notin s.live
      BY <3>1 DEF ScannedReg
    <3>2. CASE r \in s.live
      <4>1. Instr(f, b, i).op = "call" /\ r = RetReg /\ NeededAt(f, b, i + 1, r, live)
        BY <1>6, <3>2, CallWrites DEF ScannedReg
      <4>2. r \in Volatile
        BY <4>1, RegAssumption
      <4>3. i + 1 \in Instrs(f, b) /\ Has(f, b, i + 1, "USE", r) /\ ~ NeededAt(f, b, i + 2, r, live)
        BY <4>1, <4>2 DEF PlainCalls
      <4>4. Reads(f, b, i + 1, r) /\ ~ NeededAt(f, b, (i + 1) + 1, r, live)
        <5>1. (i + 1) + 1 = i + 2
          BY <1>0
        <5> QED
          BY <4>3, <5>1 DEF Reads
      <4>5. rs[Len(rs)].start = UsePoint(i + 1) /\ rs # <<>> /\ Open(rs, UsePoint(i + 1)) = From(f, b, r, i + 1, live)
        BY <3>2, <4>3, <4>4 DEF ScannedReg
      <4> HIDE DEF rs
      <4>6. Cover(rs) = Open(rs, rs[Len(rs)].start)
        BY <1>0, <1>2, <4>5, CoverSetStart
      <4> QED
        BY <4>5, <4>6
    <3> QED
      BY <3>1, <3>2
  <2>3. x \in Spans(b) /\ x.start = 2 * i + 1 /\ x.end = 2 * i + 1
    BY <1>0, <1>3 DEF Point, LiveRange, Spans
  <2> HIDE DEF rs, ts, x
  <2>4. Cover(ts) = Cover(rs) \union (x.start..x.end) /\ Open(ts, 0) = Cover(rs) \union (0..x.end)
    BY <1>0, <1>2, <2>1, <2>3, CoverAppend
  <2>5. x.start..x.end = {2 * i + 1}
    BY <1>0, <2>3
  <2>6. Cover(ts) = From(f, b, r, i, live)
    BY <1>4, <2>2, <2>4, <2>5
  <2> QED
    BY <1>1, <2>6 DEF ScannedReg, ts
<1> QED
  BY <1>5, <1>6

\* at an instruction without the register,
LEMMA OtherStep ==
    ASSUME NEW f, NEW b, NEW live, NEW r \in Regs, NEW i \in Instrs(f, b), Len(Block(f, b)) \in Nat,
           NEW s \in ScanState(b), ScannedReg(f, b, i + 1, s, r, live), ~ Writes(f, b, i, r), ~ Reads(f, b, i, r),
           NEW t \in ScanState(b), OtherEffect(r, s, t)
    PROVE  ScannedReg(f, b, i, t, r, live)
<1>0. i \in Nat
  BY DEF Instrs
<1> DEFINE rs == s.ranges[r]
<1>1. NeededAt(f, b, i, r, live) <=> NeededAt(f, b, i + 1, r, live)
  BY NeededSteps
<1>2. t.ranges[r] = rs /\ (r \in t.live <=> r \in s.live) /\ (r \in s.live <=> NeededAt(f, b, i + 1, r, live))
  BY DEF OtherEffect, ScannedReg
<1>3. UsePoint(i + 1) = 2 * i + 2 /\ UsePoint(i) = 2 * i /\ DefPoint(i) = 2 * i + 1
  BY <1>0 DEF UsePoint, DefPoint
<1>4. rs \in Seq(Spans(b))
  BY DEF ScanState
<1>5. CASE r \in s.live
  <2>1. /\ rs # <<>> /\ UsePoint(i + 1) <= rs[Len(rs)].end + 1
        /\ Open(rs, UsePoint(i + 1)) = From(f, b, r, i + 1, live)
    BY <1>5 DEF ScannedReg
  <2>2. From(f, b, r, i, live) = From(f, b, r, i + 1, live) \union {2 * i, 2 * i + 1}
    BY <1>1, <1>2, <1>3, <1>5, FromSteps
  <2> HIDE DEF rs
  <2>3. rs[Len(rs)].end \in Int
    BY <1>4, <2>1, LastSpan DEF Spans
  <2>4. 2 * i + 2 \in Int /\ (2 * i + 2) - 2 = 2 * i /\ (2 * i + 2) - 1 = 2 * i + 1
    BY <1>0
  <2>5. Open(rs, 2 * i) = Open(rs, 2 * i + 2) \union {2 * i, 2 * i + 1}
    <3>1. 2 * i + 2 <= rs[Len(rs)].end + 1
      BY <1>3, <2>1
    <3>2. Open(rs, (2 * i + 2) - 2) = Open(rs, 2 * i + 2) \union {(2 * i + 2) - 2, (2 * i + 2) - 1}
      BY <1>4, <2>1, <2>4, <3>1, OpenGrows
    <3> QED
      BY <2>4, <3>2
  <2>6. UsePoint(i) <= rs[Len(rs)].end + 1
    BY <1>0, <1>3, <2>1, <2>3
  <2>7. Open(rs, UsePoint(i)) = From(f, b, r, i, live)
    BY <1>3, <2>1, <2>2, <2>5
  <2> QED
    BY <1>1, <1>2, <1>5, <2>1, <2>6, <2>7 DEF ScannedReg
<1>6. CASE r \notin s.live
  <2>1. From(f, b, r, i, live) = From(f, b, r, i + 1, live)
    <3>1. ~ NeededAt(f, b, i, r, live) /\ ~ NeededAt(f, b, i + 1, r, live) /\ ~ Writes(f, b, i, r)
      BY <1>1, <1>2, <1>6
    <3> QED
      BY <3>1, FromSame
  <2>2. Cover(rs) = From(f, b, r, i + 1, live)
    BY <1>6 DEF ScannedReg
  <2> QED
    BY <1>1, <1>2, <1>6, <2>1, <2>2 DEF ScannedReg
<1> QED
  BY <1>5, <1>6

\* and at every instruction.
LEMMA ScanStep ==
    ASSUME NEW f, NEW b, NEW live, NEW i \in Instrs(f, b), Len(Block(f, b)) \in Nat, PlainCalls(f, b, live),
           NEW s, Scanned(f, b, i + 1, s, live)
    PROVE  Scanned(f, b, i, ScanInstr(f, b, i, s), live)
<1> DEFINE t == ScanInstr(f, b, i, s)
<1>1. s \in ScanState(b) /\ i \in Nat
  BY DEF Scanned, Instrs
<1>2. Instr(f, b, i).op = "call" =>
        RetReg \notin CallArgs(f, b, i) /\ Volatile \intersect s.live \subseteq {RetReg}
  <2> SUFFICES ASSUME Instr(f, b, i).op = "call"
               PROVE  RetReg \notin CallArgs(f, b, i) /\ Volatile \intersect s.live \subseteq {RetReg}
    OBVIOUS
  <2>1. RetReg \notin CallArgs(f, b, i)
    BY DEF PlainCalls
  <2>2. ASSUME NEW r \in Volatile, r \in s.live PROVE r = RetReg
    <3>1. r \in Regs
      BY RegAssumption DEF Regs
    <3>2. NeededAt(f, b, i + 1, r, live)
      BY <2>2, <3>1 DEF Scanned, ScannedReg
    <3> QED
      BY <3>2 DEF PlainCalls
  <2> QED
    BY <2>1, <2>2
<1>3. t \in ScanState(b) /\ \A r \in Regs : Effect(f, b, i, r, s, t)
  BY <1>1, <1>2, ScanEffect
<1> HIDE DEF t
<1>4. ASSUME NEW r \in Regs PROVE ScannedReg(f, b, i, t, r, live)
  <2>1. ScannedReg(f, b, i + 1, s, r, live) /\ Effect(f, b, i, r, s, t)
    BY <1>3 DEF Scanned
  <2>2. CASE Reads(f, b, i, r)
    <3>1. ReadEffect(f, b, i, r, s, t)
      BY <2>1, <2>2 DEF Effect
    <3> QED
      BY <1>1, <1>3, <2>1, <2>2, <3>1, ReadStep
  <2>3. CASE ~ Reads(f, b, i, r) /\ Writes(f, b, i, r)
    <3>1. WriteEffect(f, b, i, r, s, t)
      BY <2>1, <2>3 DEF Effect
    <3> QED
      BY <1>1, <1>3, <2>1, <2>3, <3>1, WriteStep
  <2>4. CASE ~ Reads(f, b, i, r) /\ ~ Writes(f, b, i, r)
    <3>1. OtherEffect(r, s, t)
      BY <2>1, <2>4 DEF Effect
    <3> QED
      BY <1>1, <1>3, <2>1, <2>4, <3>1, OtherStep
  <2> QED
    BY <2>2, <2>3, <2>4
<1> QED
  BY <1>3, <1>4 DEF Scanned, t

\* The scan starts with what is live at the end.
LEMMA ScannedAtEnd ==
    ASSUME NEW f, NEW b, Len(Block(f, b)) \in Nat, NEW live \in SUBSET Regs
    PROVE  Scanned(f, b, Len(Block(f, b)), ScanStart(f, b, live), live)
<1> DEFINE n == Len(Block(f, b))
           s == ScanStart(f, b, live)
           x == LiveRange(b, UsePoint(0), DefPoint(n - 1))
<1>0. Instrs(f, b) = 0..(n - 1) /\ LastPoint(f, b) = 2 * (n - 1) + 1 /\ n \in Nat
  BY DEF Instrs, LastPoint, DefPoint
<1>1. s.live = live /\ \A r \in Regs : s.ranges[r] = IF r \in live THEN <<x>> ELSE <<>>
  BY DEF ScanStart
<1>2. x \in Spans(b) /\ x.end = 2 * n - 1
  BY <1>0 DEF LiveRange, UsePoint, DefPoint, Spans
<1>3. s \in ScanState(b)
  <2> DEFINE ranges == [r \in Regs |-> IF r \in live THEN <<x>> ELSE <<>>]
  <2>1. ranges \in [Regs -> Seq(Spans(b))]
    <3> HIDE DEF x
    <3> QED
      BY <1>2
  <2>2. s = [live |-> live, kills |-> {}, ranges |-> ranges]
    BY DEF ScanStart
  <2> HIDE DEF ranges
  <2> QED
    BY <2>1, <2>2 DEF ScanState
<1> HIDE DEF n, s, x
<1>4. ASSUME NEW r \in Regs PROVE ScannedReg(f, b, n, s, r, live)
  <2>1. NeededAt(f, b, n, r, live) <=> r \in live
    <3>1. \A m \in Instrs(f, b) : ~(m >= n)
      BY <1>0
    <3> QED
      BY <3>1 DEF NeededAt
  <2>2. From(f, b, r, n, live) = {}
    <3>1. \A p \in 0..LastPoint(f, b) : ~(p >= 2 * n)
      BY <1>0
    <3> QED
      BY <3>1 DEF From, Needed, UsePoint
  <2>3. n \notin Instrs(f, b)
    BY <1>0
  <2>4. r \in s.live <=> NeededAt(f, b, n, r, live)
    BY <1>1, <2>1
  <2>5. ASSUME r \in s.live
        PROVE  /\ s.ranges[r] # <<>>
               /\ UsePoint(n) <= s.ranges[r][Len(s.ranges[r])].end + 1
               /\ Open(s.ranges[r], UsePoint(n)) = From(f, b, r, n, live)
    <3>1. s.ranges[r] = <<x>>
      BY <1>1, <2>5
    <3>2. Len(<<x>>) = 1 /\ <<x>>[1] = x /\ <<x>> # <<>>
      OBVIOUS
    <3>3. UsePoint(n) <= x.end + 1
      BY <1>0, <1>2 DEF UsePoint
    <3>4. UsePoint(n)..x.end = {}
      BY <1>0, <1>2 DEF UsePoint
    <3>5. 1..(1 - 1) = {}
      OBVIOUS
    <3>6. Open(<<x>>, UsePoint(n)) = {}
      BY <3>2, <3>4, <3>5 DEF Open
    <3> QED
      BY <2>2, <3>1, <3>2, <3>3, <3>6
  <2>6. ASSUME r \notin s.live PROVE Cover(s.ranges[r]) = From(f, b, r, n, live)
    <3>1. s.ranges[r] = <<>>
      BY <1>1, <2>6
    <3>2. 1..Len(<<>>) = {}
      OBVIOUS
    <3>3. Cover(<<>>) = {}
      BY <3>2 DEF Cover
    <3> QED
      BY <2>2, <3>1, <3>3
  <2> QED
    BY <2>3, <2>4, <2>5, <2>6 DEF ScannedReg
<1> QED
  BY <1>3, <1>4 DEF Scanned, n, s

\* The scan of a whole block.
LEMMA BlockScanned ==
    ASSUME NEW f, NEW b, Len(Block(f, b)) \in Nat, NEW live \in SUBSET Regs, PlainCalls(f, b, live)
    PROVE  Scanned(f, b, 0, ScanBlock(f, b, live), live)
<1> DEFINE n == Len(Block(f, b))
           g == CHOOSE g : ScanRows(f, g, b, live, n, n)
<1>1. ScanBlock(f, b, live) = g[n]
  BY DEF ScanBlock, ScanRows, ScanRow, ScanStart
<1>2. n \in Nat /\ Instrs(f, b) = 0..(n - 1)
  BY DEF Instrs
<1>3. Scanned(f, b, n, ScanStart(f, b, live), live)
  BY ScannedAtEnd
<1> HIDE DEF n
<1>4. ScanRows(f, g, b, live, n, n)
  BY <1>2, ScanRowsExist
<1> HIDE DEF g
<1>5. \A m \in 0..n : g[m] = IF m = 0 THEN ScanStart(f, b, live) ELSE ScanInstr(f, b, n - m, g[m - 1])
  BY <1>4 DEF ScanRows, ScanRow
<1> DEFINE S == {m \in 0..n : ~ Scanned(f, b, n - m, g[m], live)}
<1>6. S = {}
  <2> SUFFICES ASSUME S # {} PROVE FALSE
    OBVIOUS
  <2>1. PICK m \in S : \A l \in S : m <= l
    <3>1. S \subseteq Nat
      BY <1>2
    <3> HIDE DEF S
    <3> QED
      BY <3>1, LeastNumber
  <2>2. m # 0
    BY <1>2, <1>3, <1>5, <2>1
  <2>3. m \in 0..n /\ m - 1 \in 0..n /\ m - 1 < m /\ n - m \in Instrs(f, b) /\ n - (m - 1) = (n - m) + 1
    BY <1>2, <2>1, <2>2
  <2>4. Scanned(f, b, n - (m - 1), g[m - 1], live)
    BY <2>1, <2>3
  <2>5. Scanned(f, b, (n - m) + 1, g[m - 1], live)
    BY <2>3, <2>4
  <2>6. Scanned(f, b, n - m, ScanInstr(f, b, n - m, g[m - 1]), live)
    BY <2>3, <2>5, ScanStep
  <2>7. Scanned(f, b, n - m, g[m], live)
    BY <1>5, <2>2, <2>3, <2>6
  <2> QED
    BY <2>1, <2>7
<1>7. Scanned(f, b, n - n, g[n], live)
  BY <1>2, <1>6
<1>8. n - n = 0
  BY <1>2
<1> QED
  BY <1>1, <1>7, <1>8

\* Where the registers at the start and the end of a block are those that
\* the data flow equations relate, the first ones are needed there.
LEMMA NeededAtStart ==
    ASSUME NEW f, WellFormed(f), NEW b \in Blocks(f), NEW live, NEW r \in Regs
    PROVE  NeededAt(f, b, 0, r, live) <=> r \in Uses(f, b) \/ (r \in live /\ r \notin Defs(f, b))
<1>1. ReadFirst(f, b, r) <=> \E j \in Instrs(f, b) :
        j >= 0 /\ Reads(f, b, j, r) /\ \A m \in 0..(j - 1) : ~ Writes(f, b, m, r)
  BY DEF ReadFirst, Instrs
<1>2. (\A m \in Instrs(f, b) : m >= 0 => ~ Writes(f, b, m, r)) <=> r \notin Defs(f, b)
  <2>1. \A m \in Instrs(f, b) : m >= 0
    BY DEF Instrs
  <2> QED
    BY <2>1, WritesAreDefs
<1> QED
  BY <1>1, <1>2, ReadsAreUses DEF NeededAt

\* Where the registers at the start and the end of a block are right, so are
\* the ranges in it.
THEOREM RangesOfBlock ==
    ASSUME NEW f, WellFormed(f), NEW b \in Blocks(f), Block(f, b) # <<>>,
           NEW live \in SUBSET Regs, PlainCalls(f, b, live), NEW ins,
           \A r \in Regs : r \in ins <=> NeededAt(f, b, 0, r, live),
           NEW r \in Regs
    PROVE  LET rs == PreciseRanges(f, b, ins, live).ranges[r]
           IN  rs \in Seq(Spans(b)) /\ Cover(rs) = Needed(f, b, r, live)
<1>1. Len(Block(f, b)) \in Nat
  BY DEF WellFormed
<1> DEFINE s == ScanBlock(f, b, live)
           rs == IF r \in ins THEN SetStart(s.ranges[r], UsePoint(0)) ELSE s.ranges[r]
<1>2. Scanned(f, b, 0, s, live)
  BY <1>1, BlockScanned
<1>3. PreciseRanges(f, b, ins, live).ranges[r] = rs
  BY DEF PreciseRanges
<1> HIDE DEF s
<1>4. From(f, b, r, 0, live) = Needed(f, b, r, live)
  BY DEF From, Needed, UsePoint
<1>5. s.ranges[r] \in Seq(Spans(b)) /\ ScannedReg(f, b, 0, s, r, live)
  BY <1>2 DEF Scanned, ScanState
<1>6. r \in ins <=> r \in s.live
  BY <1>5 DEF ScannedReg
<1>7. CASE r \in s.live
  <2>1. s.ranges[r] # <<>> /\ Open(s.ranges[r], UsePoint(0)) = From(f, b, r, 0, live)
    BY <1>5, <1>7 DEF ScannedReg
  <2>2. UsePoint(0) \in Int
    BY DEF UsePoint
  <2>3. Cover(SetStart(s.ranges[r], UsePoint(0))) = Open(s.ranges[r], UsePoint(0))
    BY <1>5, <2>1, <2>2, CoverSetStart
  <2>4. SetStart(s.ranges[r], UsePoint(0)) \in Seq(Spans(b))
    BY <1>5, <2>2, SetStartEffect
  <2> QED
    BY <1>3, <1>4, <1>6, <1>7, <2>1, <2>3, <2>4
<1>8. CASE r \notin s.live
  <2>1. Cover(s.ranges[r]) = From(f, b, r, 0, live)
    BY <1>5, <1>8 DEF ScannedReg
  <2> QED
    BY <1>3, <1>4, <1>5, <1>6, <1>8, <2>1
<1> QED
  BY <1>7, <1>8

-----------------------------------------------------------------------------
(* The bounded iteration of LiveIns ends in a solution of the equations.    *)

\* Sets that grow by a monotone step stop growing after as many steps as
\* there are elements.
Growth(B, last, F, X) ==
    /\ IsFiniteSet(B) /\ last \in Nat /\ last = Cardinality(B)
    /\ F \in [SUBSET B -> SUBSET B] /\ \A Y, Z \in SUBSET B : Y \subseteq Z => F[Y] \subseteq F[Z]
    /\ X \in [0..last -> SUBSET B] /\ X[0] = {}
    /\ \A n \in 1..last : X[n] = F[X[n - 1]]

\* As many steps as there are blocks reach the fixpoint.
LEMMA GrowingSets ==
    ASSUME NEW B, NEW last, NEW F, NEW X, Growth(B, last, F, X)
    PROVE  F[X[last]] = X[last]
<1> USE DEF Growth
<1>1. ASSUME NEW n \in 0..last PROVE X[n] \subseteq F[X[n]]
  <2> DEFINE S == {m \in 0..last : ~(X[m] \subseteq F[X[m]])}
  <2>1. S = {}
    <3> SUFFICES ASSUME S # {} PROVE FALSE
      OBVIOUS
    <3>1. PICK m \in S : \A l \in S : m <= l
      <4>1. S \subseteq Nat
        OBVIOUS
      <4> HIDE DEF S
      <4> QED
        BY <4>1, LeastNumber
    <3>2. m # 0
      BY <3>1
    <3>3. m - 1 \in 0..last /\ ~(m <= m - 1) /\ m \in 1..last
      BY <3>1, <3>2
    <3>4. X[m - 1] \subseteq F[X[m - 1]]
      BY <3>1, <3>3
    <3>5. X[m - 1] \subseteq X[m] /\ X[m] = F[X[m - 1]] /\ X[m - 1] \in SUBSET B /\ X[m] \in SUBSET B
      BY <3>3, <3>4
    <3>6. F[X[m - 1]] \subseteq F[X[m]]
      BY <3>5
    <3> QED
      BY <3>1, <3>5, <3>6
  <2> QED
    BY <2>1
<1>2. \A n \in 0..last : F[X[n]] = X[n] \/ Cardinality(X[n]) >= n
  <2> DEFINE S == {m \in 0..last : ~(F[X[m]] = X[m] \/ Cardinality(X[m]) >= m)}
  <2>1. S = {}
    <3> SUFFICES ASSUME S # {} PROVE FALSE
      OBVIOUS
    <3>1. PICK m \in S : \A l \in S : m <= l
      <4>1. S \subseteq Nat
        OBVIOUS
      <4> HIDE DEF S
      <4> QED
        BY <4>1, LeastNumber
    <3>2. m # 0
      BY <3>1, FS_EmptySet
    <3>3. m - 1 \in 0..last /\ ~(m <= m - 1) /\ m \in 1..last
      BY <3>1, <3>2
    <3>4. F[X[m - 1]] = X[m - 1] \/ Cardinality(X[m - 1]) >= m - 1
      BY <3>1, <3>3
    <3>5. X[m] = F[X[m - 1]] /\ X[m - 1] \subseteq F[X[m - 1]] /\ X[m] \in SUBSET B
      BY <1>1, <3>3
    <3>6. X[m] # X[m - 1]
      BY <3>1, <3>5
    <3>7. Cardinality(X[m - 1]) >= m - 1
      BY <3>4, <3>5, <3>6
    <3>8. /\ IsFiniteSet(X[m]) /\ Cardinality(X[m - 1]) <= Cardinality(X[m])
          /\ Cardinality(X[m - 1]) # Cardinality(X[m])
      <4>1. IsFiniteSet(X[m])
        BY <3>5, FS_Subset
      <4>2. X[m - 1] \in SUBSET X[m]
        BY <3>5
      <4> QED
        BY <3>6, <4>1, <4>2, FS_Subset
    <3>9. Cardinality(X[m]) \in Nat /\ Cardinality(X[m - 1]) \in Nat
      <4>1. IsFiniteSet(X[m - 1])
        BY <3>5, <3>8, FS_Subset
      <4> QED
        BY <3>8, <4>1, FS_CardinalityType
    <3>10. Cardinality(X[m]) >= m
      BY <3>3, <3>7, <3>8, <3>9
    <3> QED
      BY <3>1, <3>10
  <2> QED
    BY <2>1
<1>3. last \in 0..last /\ X[last] \in SUBSET B
  OBVIOUS
<1>4. CASE Cardinality(X[last]) >= last
  <2>1. IsFiniteSet(X[last]) /\ Cardinality(X[last]) <= last /\ (Cardinality(X[last]) = last => X[last] = B)
    BY <1>3, FS_Subset
  <2>2. Cardinality(X[last]) \in Nat
    BY <2>1, FS_CardinalityType
  <2>3. X[last] = B
    BY <1>4, <2>1, <2>2
  <2>4. B \subseteq F[X[last]] /\ F[X[last]] \in SUBSET B
    BY <1>1, <1>3, <2>3
  <2> QED
    BY <2>3, <2>4
<1> QED
  BY <1>2, <1>3, <1>4

\* A row of LiveIns by its members.
LEMMA RowHas ==
    ASSUME NEW f, NEW n, n # 0, NEW prev, NEW c \in Blocks(f), NEW r
    PROVE  r \in LiveRow(f, n, prev)[c] <=>
               r \in Uses(f, c) \/ (r \notin Defs(f, c) /\ \E d \in Succs(f, c) : r \in prev[d])
BY DEF LiveRow

\* What is live at the start of a block is what the block reads first, and
\* what is live at its end and not defined in it.
THEOREM LiveInsSolve ==
    ASSUME NEW f, WellFormed(f), NEW b \in Blocks(f), NEW r \in Regs
    PROVE  r \in LiveIns(f)[b] <=> r \in Uses(f, b) \/ (r \in LiveOuts(f)[b] /\ r \notin Defs(f, b))
<1> DEFINE last == Len(f.blocks)
<1>0. last \in Nat /\ \A c \in Blocks(f) : Succs(f, c) \subseteq Blocks(f)
  BY DEF WellFormed
<1>1. PICK g : LiveIns(f) = g[last] /\ \A n \in 0..last : g[n] = LiveRow(f, n, g[n - 1])
  BY <1>0, LiveInsRows
<1>2. IsFiniteSet(Blocks(f)) /\ Cardinality(Blocks(f)) = last
  <2>0. 0 \in Int /\ last - 1 \in Int /\ (IF 0 > last - 1 THEN 0 ELSE (last - 1) - 0 + 1) = last
    BY <1>0
  <2>1. IsFiniteSet(0..(last - 1)) /\ Cardinality(0..(last - 1)) = last
    BY <2>0, FS_Interval, ZenonT(30)
  <2> QED
    BY <2>1 DEF Blocks
<1> HIDE DEF last
<1> DEFINE From0(Y) == {c \in Blocks(f) : r \in Uses(f, c) \/ (r \notin Defs(f, c) /\ Succs(f, c) \intersect Y # {})}
           F == [Y \in SUBSET Blocks(f) |-> From0(Y)]
           X == [n \in 0..last |-> {c \in Blocks(f) : r \in g[n][c]}]
<1>3. F \in [SUBSET Blocks(f) -> SUBSET Blocks(f)]
      /\ \A Y, Z \in SUBSET Blocks(f) : Y \subseteq Z => F[Y] \subseteq F[Z]
  OBVIOUS
<1>4. X \in [0..last -> SUBSET Blocks(f)]
  OBVIOUS
<1>5. X[0] = {}
  <2>1. g[0] = LiveRow(f, 0, g[0 - 1])
    BY <1>0, <1>1
  <2>2. \A c \in Blocks(f) : g[0][c] = {}
    BY <2>1, RowOf
  <2> QED
    BY <1>0, <2>2
<1>6. ASSUME NEW n \in 1..last PROVE X[n] = F[X[n - 1]]
  <2>1. n \in 0..last /\ n - 1 \in 0..last /\ n # 0
    BY <1>0
  <2>2. \A c \in Blocks(f) : r \in g[n][c] <=>
          r \in Uses(f, c) \/ (r \notin Defs(f, c) /\ \E d \in Succs(f, c) : r \in g[n - 1][d])
    <3>1. g[n] = LiveRow(f, n, g[n - 1])
      BY <1>1, <2>1
    <3>2. \A c \in Blocks(f) : r \in LiveRow(f, n, g[n - 1])[c] <=>
            r \in Uses(f, c) \/ (r \notin Defs(f, c) /\ \E d \in Succs(f, c) : r \in g[n - 1][d])
      BY <2>1, RowHas
    <3> QED
      BY <3>1, <3>2
  <2>3. \A c \in Blocks(f) : (\E d \in Succs(f, c) : r \in g[n - 1][d]) <=> Succs(f, c) \intersect X[n - 1] # {}
    BY <1>0, <2>1
  <2>4. X[n] = {c \in Blocks(f) : r \in g[n][c]} /\ X[n - 1] \in SUBSET Blocks(f)
    BY <2>1
  <2>5. F[X[n - 1]] = From0(X[n - 1])
    BY <2>4
  <2> HIDE DEF X, F
  <2> QED
    BY <2>2, <2>3, <2>4, <2>5
<1> HIDE DEF F, X
<1>7. F[X[last]] = X[last]
  <2>1. \A n \in 1..last : X[n] = F[X[n - 1]]
    BY <1>6
  <2>2. Growth(Blocks(f), last, F, X)
    BY <1>0, <1>2, <1>3, <1>4, <1>5, <2>1 DEF Growth
  <2> QED
    BY <2>2, GrowingSets
<1>8. X[last] = {c \in Blocks(f) : r \in LiveIns(f)[c]}
  BY <1>0, <1>1 DEF X
<1>9. b \in F[X[last]] <=> r \in Uses(f, b) \/ (r \notin Defs(f, b) /\ Succs(f, b) \intersect X[last] # {})
  BY <1>8 DEF F
<1>10. r \in LiveOuts(f)[b] <=> Succs(f, b) \intersect X[last] # {}
  BY <1>0, <1>8 DEF LiveOuts
<1> QED
  BY <1>7, <1>8, <1>9, <1>10

-----------------------------------------------------------------------------
(* The points at which a call destroys registers are all recorded.          *)

\* A KILL records its registers, and nothing that is recorded is lost:
LEMMA OpKills ==
    ASSUME NEW b, NEW i \in Nat, NEW s \in ScanState(b), NEW usage, NEW regs \in SUBSET Regs
    PROVE  LET t == ScanOp(s, b, i, Op(usage, regs))
           IN  /\ usage \in {"USE", "DEF", "USE_DEF"} => t \in ScanState(b) /\ t.kills = s.kills
               /\ usage = "KILL" => /\ t \in ScanState(b) /\ s.kills \subseteq t.kills
                                    /\ \A r \in regs : [reg |-> r, block |-> b, instr |-> i] \in t.kills
<1> DEFINE t == ScanOp(s, b, i, Op(usage, regs))
<1>1. ASSUME usage = "USE" PROVE t \in ScanState(b) /\ t.kills = s.kills
  <2>1. t = ScanUse(s, b, i, regs)
    BY <1>1 DEF ScanOp, Op
  <2>2. ScanUse(s, b, i, regs).kills = s.kills
    BY DEF ScanUse, ScanState
  <2> QED
    BY <2>1, <2>2, ScanUseEffect
<1>2. ASSUME usage = "DEF" PROVE t \in ScanState(b) /\ t.kills = s.kills
  <2>1. t = ScanDef(s, b, i, regs)
    BY <1>2 DEF ScanOp, Op
  <2>2. ScanDef(s, b, i, regs).kills = s.kills
    BY DEF ScanDef, ScanState
  <2> QED
    BY <2>1, <2>2, ScanDefEffect
<1>3. ASSUME usage = "USE_DEF" PROVE t \in ScanState(b) /\ t.kills = s.kills
  <2>1. t = ScanUseDef(s, b, i, regs)
    BY <1>3 DEF ScanOp, Op
  <2>2. ScanUseDef(s, b, i, regs).kills = s.kills
    BY DEF ScanUseDef, ScanState
  <2> QED
    BY <2>1, <2>2, ScanUseDefEffect
<1>4. ASSUME usage = "KILL"
      PROVE  /\ t \in ScanState(b) /\ s.kills \subseteq t.kills
             /\ \A r \in regs : [reg |-> r, block |-> b, instr |-> i] \in t.kills
  <2>1. t = ScanKill(s, b, i, regs)
    BY <1>4 DEF ScanOp, Op
  <2>2. t.kills = s.kills \union {[reg |-> r, block |-> b, instr |-> i] : r \in regs}
    BY <2>1 DEF ScanKill, ScanState
  <2> QED
    BY <2>1, <2>2, ScanKillEffect
<1> QED
  BY <1>1, <1>2, <1>3, <1>4 DEF t

\* The kills of instruction i are in the state of the scan.
KillsOf(f, b, i, s) ==
    Instr(f, b, i).op = "call" => \A r \in Volatile : [reg |-> r, block |-> b, instr |-> i] \in s.kills

\* at an instruction
LEMMA InstrKills ==
    ASSUME NEW f, NEW b, NEW i \in Nat, NEW s \in ScanState(b)
    PROVE  LET t == ScanInstr(f, b, i, s)
           IN  t \in ScanState(b) /\ s.kills \subseteq t.kills /\ KillsOf(f, b, i, t)
<1> DEFINE this == Instr(f, b, i)
           x == {this.args[1]} \intersect Regs
           y == {this.args[2]} \intersect Regs
           args == CallArgs(f, b, i)
           t == ScanInstr(f, b, i, s)
<1>0. x \in SUBSET Regs /\ y \in SUBSET Regs /\ args \in SUBSET Regs /\ Volatile \in SUBSET Regs /\ {RetReg} \in SUBSET Regs
  BY RegAssumption DEF CallArgs, Regs
<1>1. CASE RegOps(f, b, i) = <<>> /\ this.op # "call"
  BY <1>1, ScanInstrSteps DEF KillsOf
<1>2. ASSUME NEW u \in {"USE", "DEF", "USE_DEF"}, NEW w \in {"USE", "DEF", "USE_DEF"},
             RegOps(f, b, i) = <<Op(u, x), Op(w, y)>>, this.op # "call"
      PROVE  t \in ScanState(b) /\ s.kills \subseteq t.kills /\ KillsOf(f, b, i, t)
  <2> DEFINE s1 == ScanOp(s, b, i, Op(u, x))
  <2>1. t = ScanOp(s1, b, i, Op(w, y))
    BY <1>2, ScanInstrSteps
  <2> HIDE DEF x, y
  <2>2. s1 \in ScanState(b) /\ s1.kills = s.kills
    BY <1>0, <1>2, OpKills
  <2> HIDE DEF s1, t
  <2>3. t \in ScanState(b) /\ t.kills = s1.kills
    <3>1. ScanOp(s1, b, i, Op(w, y)) \in ScanState(b) /\ ScanOp(s1, b, i, Op(w, y)).kills = s1.kills
      <4>1. y \in SUBSET Regs /\ s1 \in ScanState(b)
        BY <1>0, <2>2
      <4> QED
        BY <4>1, OpKills
    <3> QED
      BY <2>1, <3>1
  <2> QED
    BY <1>2, <2>2, <2>3 DEF KillsOf
<1>3. ASSUME this.op = "call"
      PROVE  t \in ScanState(b) /\ s.kills \subseteq t.kills /\ KillsOf(f, b, i, t)
  <2> DEFINE s1 == ScanOp(s, b, i, Op("KILL", Volatile))
             s2 == ScanOp(s1, b, i, Op("USE", args))
  <2>1. RegOps(f, b, i) = <<Op("KILL", Volatile), Op("USE", args), Op("DEF", {RetReg})>>
    BY <1>3 DEF RegOps
  <2>2. t = ScanOp(s2, b, i, Op("DEF", {RetReg}))
    BY <2>1, ScanInstrSteps
  <2> HIDE DEF args
  <2>3. s1 \in ScanState(b) /\ s.kills \subseteq s1.kills
        /\ \A r \in Volatile : [reg |-> r, block |-> b, instr |-> i] \in s1.kills
    BY <1>0, OpKills
  <2> HIDE DEF s1
  <2>4. s2 \in ScanState(b) /\ s2.kills = s1.kills
    BY <1>0, <2>3, OpKills
  <2> HIDE DEF s2, t
  <2>5. t \in ScanState(b) /\ t.kills = s2.kills
    <3>1. ScanOp(s2, b, i, Op("DEF", {RetReg})) \in ScanState(b) /\ ScanOp(s2, b, i, Op("DEF", {RetReg})).kills = s2.kills
      BY <1>0, <2>4, OpKills
    <3> QED
      BY <2>2, <3>1
  <2> QED
    BY <2>3, <2>4, <2>5 DEF KillsOf
<1>4. \/ RegOps(f, b, i) = <<>> /\ this.op # "call"
      \/ \E u, w \in {"USE", "DEF", "USE_DEF"} : RegOps(f, b, i) = <<Op(u, x), Op(w, y)>> /\ this.op # "call"
      \/ this.op = "call"
  BY DEF RegOps
<1> QED
  BY <1>1, <1>2, <1>3, <1>4

\* and in a block.
LEMMA BlockKills ==
    ASSUME NEW f, NEW b, Len(Block(f, b)) \in Nat, NEW live \in SUBSET Regs, NEW i \in Instrs(f, b)
    PROVE  KillsOf(f, b, i, ScanBlock(f, b, live))
<1> DEFINE n == Len(Block(f, b))
           g == CHOOSE g : ScanRows(f, g, b, live, n, n)
           Good(l, s) == s \in ScanState(b) /\ \A j \in Instrs(f, b) : j >= l => KillsOf(f, b, j, s)
<1>1. ScanBlock(f, b, live) = g[n]
  BY DEF ScanBlock, ScanRows, ScanRow, ScanStart
<1>2. n \in Nat /\ Instrs(f, b) = 0..(n - 1)
  BY DEF Instrs
<1>3. Good(n, ScanStart(f, b, live))
  <2>1. ScanStart(f, b, live) \in ScanState(b)
    <3>1. n \in Nat \ {0}
      BY <1>2
    <3> QED
      BY <3>1, FollowedAtEnd
  <2>2. \A j \in Instrs(f, b) : ~(j >= n)
    BY <1>2
  <2> QED
    BY <2>1, <2>2
<1>a. ASSUME NEW l \in Instrs(f, b), NEW s, Good(l + 1, s) PROVE Good(l, ScanInstr(f, b, l, s))
  <2> DEFINE t == ScanInstr(f, b, l, s)
  <2>1. s \in ScanState(b) /\ l \in Nat
    BY <1>2, <1>a
  <2>2. t \in ScanState(b) /\ s.kills \subseteq t.kills /\ KillsOf(f, b, l, t)
    BY <2>1, InstrKills
  <2>3. \A j \in Instrs(f, b) : j >= l => j = l \/ j >= l + 1
    BY <1>2
  <2> HIDE DEF t
  <2>4. \A j \in Instrs(f, b) : j >= l => KillsOf(f, b, j, t)
    BY <1>a, <2>2, <2>3 DEF KillsOf
  <2> QED
    BY <2>2, <2>4 DEF t
<1> HIDE DEF n, Good
<1>4. ScanRows(f, g, b, live, n, n)
  BY <1>2, ScanRowsExist
<1> HIDE DEF g
<1>5. \A m \in 0..n : g[m] = IF m = 0 THEN ScanStart(f, b, live) ELSE ScanInstr(f, b, n - m, g[m - 1])
  BY <1>4 DEF ScanRows, ScanRow
<1> DEFINE S == {m \in 0..n : ~ Good(n - m, g[m])}
<1>6. S = {}
  <2> SUFFICES ASSUME S # {} PROVE FALSE
    OBVIOUS
  <2>1. PICK m \in S : \A l \in S : m <= l
    <3>1. S \subseteq Nat
      BY <1>2
    <3> HIDE DEF S
    <3> QED
      BY <3>1, LeastNumber
  <2>2. m # 0
    BY <1>2, <1>3, <1>5, <2>1
  <2>3. m \in 0..n /\ m - 1 \in 0..n /\ m - 1 < m /\ n - m \in Instrs(f, b) /\ n - (m - 1) = (n - m) + 1
    BY <1>2, <2>1, <2>2
  <2>4. Good(n - (m - 1), g[m - 1])
    BY <2>1, <2>3
  <2>5. Good((n - m) + 1, g[m - 1])
    BY <2>3, <2>4
  <2>6. Good(n - m, ScanInstr(f, b, n - m, g[m - 1]))
    BY <1>a, <2>3, <2>5
  <2>7. Good(n - m, g[m])
    BY <1>5, <2>2, <2>3, <2>6
  <2> QED
    BY <2>1, <2>7
<1>7. Good(0, g[n])
  <2>1. n - n = 0 /\ n \in 0..n
    BY <1>2
  <2> QED
    BY <1>6, <2>1
<1>8. i >= 0
  BY <1>2
<1> QED
  BY <1>1, <1>7, <1>8 DEF Good

-----------------------------------------------------------------------------
(* What the register allocator relies on.                                   *)

\* What is live at an end are registers.
LEMMA LiveOutsType ==
    ASSUME NEW f, WellFormed(f), NEW b \in Blocks(f)
    PROVE  LiveOuts(f)[b] \in SUBSET Regs
<1>1. \A c \in Succs(f, b) : LiveIns(f)[c] \subseteq Regs
  BY LiveInsHold DEF WellFormed
<1> QED
  BY <1>1 DEF LiveOuts

\* A register is covered wherever its value is needed.
LEMMA NeededInRange ==
    ASSUME NEW f, WellFormed(f), NEW b \in Blocks(f), PlainCalls(f, b, LiveOuts(f)[b]), NEW r \in Regs,
           NEW p \in Needed(f, b, r, LiveOuts(f)[b])
    PROVE  LET rs == PreciseRanges(f, b, LiveIns(f)[b], LiveOuts(f)[b]).ranges[r]
           IN  \E j \in 1..Len(rs) :
                 /\ rs[j] \in [block : {b}, start : Nat, end : Nat] /\ rs[j].start <= rs[j].end
                 /\ rs[j].start <= p /\ p <= rs[j].end
<1> DEFINE live == LiveOuts(f)[b]
           rs == PreciseRanges(f, b, LiveIns(f)[b], live).ranges[r]
<1>1. live \in SUBSET Regs
  BY LiveOutsType
<1>2. Block(f, b) # <<>> /\ LastPoint(f, b) \in Int /\ p \in 0..LastPoint(f, b)
  <2>1. Len(Block(f, b)) \in Nat
    BY DEF WellFormed
  <2>2. p \in 0..LastPoint(f, b) /\ LastPoint(f, b) = 2 * (Len(Block(f, b)) - 1) + 1
    BY DEF Needed, LastPoint, DefPoint
  <2>3. Len(Block(f, b)) # 0
    BY <2>1, <2>2
  <2>4. Len(<<>>) = 0
    OBVIOUS
  <2> QED
    BY <2>1, <2>2, <2>3, <2>4
<1>3. \A q \in Regs : q \in LiveIns(f)[b] <=> NeededAt(f, b, 0, q, live)
  BY LiveInsSolve, NeededAtStart
<1>4. rs \in Seq(Spans(b)) /\ Cover(rs) = Needed(f, b, r, live)
  BY <1>1, <1>2, <1>3, RangesOfBlock
<1> HIDE DEF rs
<1>5. PICK j \in 1..Len(rs) : p \in rs[j].start..rs[j].end
  BY <1>4 DEF Cover
<1>6. rs[j] \in Spans(b)
  BY <1>4
<1>7. rs[j].start \in Int /\ rs[j].end \in Int /\ rs[j].start <= p /\ p <= rs[j].end
  BY <1>2, <1>5, <1>6 DEF Spans
<1>8. rs[j].start \in rs[j].start..rs[j].end
  BY <1>2, <1>7
<1>9. rs[j].start \in Needed(f, b, r, live)
  BY <1>4, <1>8 DEF Cover
<1>10. rs[j].start \in Nat /\ rs[j].end \in Nat
  <2>1. rs[j].start \in 0..LastPoint(f, b)
    BY <1>9 DEF Needed
  <2> QED
    BY <1>2, <1>7, <2>1
<1>11. rs[j] \in [block : {b}, start : Nat, end : Nat]
  BY <1>6, <1>10 DEF Spans
<1> QED
  BY <1>2, <1>7, <1>10, <1>11 DEF rs

\* What is needed at the start of a block is live at the end of the blocks
\* before it.
LEMMA NeededNext ==
    ASSUME NEW f, WellFormed(f), NEW b \in Blocks(f), NEW c \in Succs(f, b), NEW r \in Regs,
           NeededAt(f, c, 0, r, LiveOuts(f)[c])
    PROVE  r \in LiveOuts(f)[b]
<1>1. c \in Blocks(f)
  BY DEF WellFormed
<1>2. r \in LiveIns(f)[c]
  BY <1>1, LiveInsSolve, NeededAtStart
<1> QED
  BY <1>2 DEF LiveOuts

\* The kills of a call are in the result of the analysis.
LEMMA CallKills ==
    ASSUME NEW f, WellFormed(f), NEW b \in Blocks(f), NEW i \in Instrs(f, b), Instr(f, b, i).op = "call",
           NEW r \in Volatile
    PROVE  [reg |-> r, block |-> b, instr |-> i]
               \in PreciseRanges(f, b, LiveIns(f)[b], LiveOuts(f)[b]).kills
<1>1. Len(Block(f, b)) \in Nat /\ Block(f, b) # <<>>
  BY DEF WellFormed, Instrs
<1>2. KillsOf(f, b, i, ScanBlock(f, b, LiveOuts(f)[b]))
  BY <1>1, LiveOutsType, BlockKills
<1>3. [reg |-> r, block |-> b, instr |-> i] \in ScanBlock(f, b, LiveOuts(f)[b]).kills
  BY <1>2 DEF KillsOf
<1> QED
  BY <1>1, <1>3 DEF PreciseRanges
==============================================================================
