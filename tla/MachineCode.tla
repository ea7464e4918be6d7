----------------------------- MODULE MachineCode -----------------------------
(***************************************************************************)
(* Functions of machine code as the register allocator sees them           *)
(* (src/src/banjo/codegen/reg_alloc_func.hpp) and the register operands    *)
(* that the x86-64 backend reports for an instruction                      *)
(* (src/src/banjo/target/x86_64/x86_64_reg_analyzer.cpp).                  *)
(*                                                                         *)
(* A function is a record of blocks, each a sequence of instructions, and  *)
(* of the successors of every block.  One opcode stands for each group of  *)
(* opcodes the backend treats alike: mov copies a register or a constant,  *)
(* add and sub read and write their first operand (add is among the        *)
(* opcodes that take a memory operand after spilling, sub is not), cmp     *)
(* only reads, call uses and destroys fixed registers, jmp ends a block.   *)
(***************************************************************************)
EXTENDS Integers, Sequences, FiniteSets, SequencesExt

CONSTANTS
    VRegs,      \* virtual registers
    PRegs,      \* physical registers, of one register class
    Volatile,   \* those that a call destroys
    RetReg,     \* the one that holds the result of a call
    Imm         \* a constant operand

Regs == VRegs \union PRegs

ASSUME RegAssumption ==
    /\ VRegs \intersect PRegs = {}
    /\ Volatile \subseteq PRegs
    /\ RetReg \in Volatile
    /\ Imm \notin Regs

Mov(d, s) == [op |-> "mov", args |-> <<d, s>>]
Add(d, s) == [op |-> "add", args |-> <<d, s>>]
Sub(d, s) == [op |-> "sub", args |-> <<d, s>>]
Cmp(x, y) == [op |-> "cmp", args |-> <<x, y>>]
Call      == [op |-> "call", args |-> <<>>]
Jmp       == [op |-> "jmp", args |-> <<>>]

Arity2 == {"mov", "add", "sub", "cmp"}
HasDest(ins) == ins.op \in {"mov", "add", "sub"}
Instructions == [op : Arity2, args : [1..2 -> Regs \union {Imm}]] \union {Call, Jmp}

\* Blocks and instructions are numbered from 0, as in the code.
Blocks(f) == 0..(Len(f.blocks) - 1)
Block(f, b) == f.blocks[b + 1]
Succs(f, b) == f.succs[b + 1]
Instrs(f, b) == 0..(Len(Block(f, b)) - 1)
Instr(f, b, i) == Block(f, b)[i + 1]

\* The physical registers that are written between the last call and this
\* one: its arguments.
CallArgs(f, b, i) ==
    {Instr(f, b, j).args[1] : j \in {k \in 0..(i - 1) :
        /\ HasDest(Instr(f, b, k))
        /\ Instr(f, b, k).args[1] \in PRegs
        /\ \A m \in k..(i - 1) : Instr(f, b, m).op # "call"}}

Op(usage, regs) == [usage |-> usage, regs |-> regs]

\* X8664RegAnalyzer::get_operands, in the order in which it reports them.
\* A move of a register to itself has no operands.
RegOps(f, b, i) ==
    LET ins == Instr(f, b, i)
        Arg(n) == {ins.args[n]} \intersect Regs
    IN  CASE ins.op = "mov" -> IF Arg(1) = Arg(2) THEN <<>>
                               ELSE <<Op("DEF", Arg(1)), Op("USE", Arg(2))>>
          [] ins.op \in {"add", "sub"} -> <<Op("USE_DEF", Arg(1)), Op("USE", Arg(2))>>
          [] ins.op = "cmp" -> <<Op("USE", Arg(1)), Op("USE", Arg(2))>>
          [] ins.op = "call" -> <<Op("KILL", Volatile), Op("USE", CallArgs(f, b, i)),
                                  Op("DEF", {RetReg})>>
          [] OTHER -> <<>>

\* Does instruction i of block b have a register operand r of that usage?
Has(f, b, i, usage, r) ==
    \E k \in DOMAIN RegOps(f, b, i) :
        RegOps(f, b, i)[k].usage = usage /\ r \in RegOps(f, b, i)[k].regs
Reads(f, b, i, r)  == Has(f, b, i, "USE", r) \/ Has(f, b, i, "USE_DEF", r)
Writes(f, b, i, r) == Has(f, b, i, "DEF", r) \/ Has(f, b, i, "USE_DEF", r)

\* The lowerer writes the register of a two-address instruction earlier in
\* the same block: collect_uses_and_defs relies on it when it does not count
\* such an operand as a use.
TwoAddress(f) ==
    \A b \in Blocks(f) : \A i \in Instrs(f, b), r \in Regs :
        Has(f, b, i, "USE_DEF", r) => \E j \in 0..(i - 1) : Has(f, b, j, "DEF", r)

\* What the passes take for granted about a function.
WellFormed(f) ==
    /\ Len(f.blocks) \in Nat
    /\ \A b \in Blocks(f) : Len(Block(f, b)) \in Nat /\ Succs(f, b) \subseteq Blocks(f)
    /\ TwoAddress(f)

-----------------------------------------------------------------------------
(* Live ranges.  The point of instruction i at which it reads its operands *)
(* is 2i, the one at which it writes them 2i + 1 (RegAllocPoint::value).   *)

UsePoint(i) == 2 * i
DefPoint(i) == 2 * i + 1
InstrAt(point) == point \div 2

LiveRange(b, first, last) == [block |-> b, start |-> first, end |-> last]

\* Is instruction i between the first and the last one of the range?
Touches(range, i) == range.start <= DefPoint(i) /\ UsePoint(i) <= range.end

\* LiveRange::intersects and LiveRange::contains
Intersects(x, y) ==
    x.block = y.block /\ x.start <= y.end /\ y.start <= x.end
Encloses(x, y) ==
    x.block = y.block /\ x.start <= y.start /\ x.end >= y.end

-----------------------------------------------------------------------------
(***************************************************************************)
(* The parts of the liveness analysis that look at one block at a time     *)
(* (src/src/banjo/codegen/liveness.cpp): which registers a block reads     *)
(* before it writes them, and the precise live ranges of its registers     *)
(* once it is known what is live at its start and its end.                 *)
(***************************************************************************)

\* collect_uses_and_defs: operands are visited in the order in which the
\* backend reports them, and only plain uses and definitions count.
Defs(f, b) == {r \in Regs : \E i \in Instrs(f, b) : Has(f, b, i, "DEF", r)}

UsedAnywhere(f, b, i, r) ==   \* mutant: earlier definitions do not matter
    Has(f, b, i, "USE", r)
UsedFirst(f, b, i, r) ==
    /\ \A j \in 0..(i - 1) : ~ Has(f, b, j, "DEF", r)
    /\ LET ops == RegOps(f, b, i)
       IN  \E k \in DOMAIN ops :
             /\ ops[k].usage = "USE" /\ r \in ops[k].regs
             /\ \A m \in 1..(k - 1) : ~ (ops[m].usage = "DEF" /\ r \in ops[m].regs)

Uses(f, b) == {r \in Regs : \E i \in Instrs(f, b) : UsedFirst(f, b, i, r)}

\* What is live at the start and the end of every block: the least solution
\* of the data flow equations, which one step per block reaches.  Liveness
\* shows that compute_ins_and_outs finds it.
LiveIns(f) ==
    LET live[n \in 0..Len(f.blocks)] ==
            [b \in Blocks(f) |->
                IF n = 0 THEN {}
                ELSE Uses(f, b) \union ((UNION {live[n - 1][s] : s \in Succs(f, b)}) \ Defs(f, b))]
    IN  live[Len(f.blocks)]
LiveOuts(f) == [b \in Blocks(f) |-> UNION {LiveIns(f)[s] : s \in Succs(f, b)}]

-----------------------------------------------------------------------------
(* compute_precise_live_ranges: a scan from the last instruction to the    *)
(* first.  The scan keeps the set of live registers, the ranges found so   *)
(* far (the last of a register is the one that is still growing upwards)   *)
(* and the points at which a call destroys registers.                      *)

SetStart(ranges, point) ==
    [ranges EXCEPT ![Len(ranges)] = [@ EXCEPT !.start = point]]

\* A read starts a range that ends here, unless the register is live.
ScanUse(s, b, i, regs) ==
    [s EXCEPT !.live = @ \union regs,
              !.ranges = [r \in Regs |->
                  IF r \in regs \ s.live
                  THEN Append(@[r], LiveRange(b, UsePoint(i), UsePoint(i))) ELSE @[r]]]

\* A write ends the range that is growing; one that nobody reads is a range
\* of one point.
ScanDef(s, b, i, regs) ==
    [s EXCEPT !.live = @ \ regs,
              !.ranges = [r \in Regs |->
                  IF r \notin regs THEN @[r]
                  ELSE IF r \in s.live THEN SetStart(@[r], DefPoint(i))
                  ELSE Append(@[r], LiveRange(b, DefPoint(i), DefPoint(i)))]]

ScanUseDef(s, b, i, regs) ==
    [s EXCEPT !.live = @ \union regs,
              !.ranges = [r \in Regs |->
                  IF r \in regs \ s.live
                  THEN Append(@[r], LiveRange(b, UsePoint(i), DefPoint(i))) ELSE @[r]]]

ScanKill(s, b, i, regs) ==
    [s EXCEPT !.live = @ \ regs,
              !.kills = @ \union {[reg |-> r, block |-> b, instr |-> i] : r \in regs}]

ScanOp(s, b, i, op) ==
    CASE op.usage = "USE"     -> ScanUse(s, b, i, op.regs)
      [] op.usage = "DEF"     -> ScanDef(s, b, i, op.regs)
      [] op.usage = "USE_DEF" -> ScanUseDef(s, b, i, op.regs)
      [] op.usage = "KILL"    -> ScanKill(s, b, i, op.regs)

ScanInstr(f, b, i, s) ==
    LET ops == RegOps(f, b, i)
        after[m \in 0..Len(ops)] == IF m = 0 THEN s ELSE ScanOp(after[m - 1], b, i, ops[m])
    IN  after[Len(ops)]

\* The state of the scan before instruction i is looked at is its result on
\* the instructions after i.
ScanBlock(f, b, outs) ==
    LET n == Len(Block(f, b))
        start == [live |-> outs, kills |-> {},
                  ranges |-> [r \in Regs |->
                      IF r \in outs THEN <<LiveRange(b, UsePoint(0), DefPoint(n - 1))>> ELSE <<>>]]
        scan[k \in 0..n] == IF k = 0 THEN start ELSE ScanInstr(f, b, n - k, scan[k - 1])
    IN  scan[n]

\* The ranges of one block; nothing is recorded for a block without
\* instructions.  What is live on entry reaches up to the first one.
PreciseRanges(f, b, ins, outs) ==
    IF Block(f, b) = <<>> THEN [ranges |-> [r \in Regs |-> <<>>], kills |-> {}]
    ELSE LET s == ScanBlock(f, b, outs)
         IN  [kills |-> s.kills,
              ranges |-> [r \in Regs |->
                  IF r \in ins THEN SetStart(s.ranges[r], UsePoint(0)) ELSE s.ranges[r]]]

-----------------------------------------------------------------------------
(* Where a register holds a value that is still needed, by what the         *)
(* instructions read and write: the reference for the analysis.  live is    *)
(* the set of registers that are live at the end of the block.              *)

\* A block reads a register before it writes it.
ReadFirst(f, b, r) ==
    \E i \in Instrs(f, b) :
        Reads(f, b, i, r) /\ \A j \in 0..(i - 1) : ~ Writes(f, b, j, r)

LastPoint(f, b) == DefPoint(Len(Block(f, b)) - 1)

\* Points of block b at which r holds a value that is read later, or at
\* which an instruction reads or writes it.
Needed(f, b, r, live) ==
    {p \in 0..LastPoint(f, b) :
        \/ \E i \in Instrs(f, b) :
             \/ p = UsePoint(i) /\ Reads(f, b, i, r)
             \/ p = DefPoint(i) /\ Writes(f, b, i, r)
        \/ /\ r \in live
           /\ \A i \in Instrs(f, b) : DefPoint(i) > p => ~ Writes(f, b, i, r)
        \/ \E j \in Instrs(f, b) :
             /\ UsePoint(j) >= p /\ Reads(f, b, j, r)
             /\ \A i \in 0..(j - 1) : DefPoint(i) > p => ~ Writes(f, b, i, r)}

\* Does r hold a value at the start of instruction i that is still needed?
NeededAt(f, b, i, r, live) ==
    \/ r \in live /\ \A m \in Instrs(f, b) : m >= i => ~ Writes(f, b, m, r)
    \/ \E j \in Instrs(f, b) :
         j >= i /\ Reads(f, b, j, r) /\ \A m \in i..(j - 1) : ~ Writes(f, b, m, r)

\* What the scan takes for granted about the calls of a block: the result is
\* not in a register of the arguments, the instruction behind the call moves
\* it away (append_ret_val_move, sys_v_calling_conv.cpp:61-63), and nothing
\* else that the call destroys is needed behind it.
PlainCalls(f, b, live) ==
    \A i \in Instrs(f, b) : Instr(f, b, i).op = "call" =>
        /\ RetReg \notin CallArgs(f, b, i)
        /\ \A r \in Volatile : NeededAt(f, b, i + 1, r, live) =>
             /\ r = RetReg
             /\ i + 1 \in Instrs(f, b) /\ Has(f, b, i + 1, "USE", r)
             /\ ~ NeededAt(f, b, i + 2, r, live)
=============================================================================
