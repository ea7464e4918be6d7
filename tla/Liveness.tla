------------------------------ MODULE Liveness -------------------------------
(***************************************************************************)
(* LivenessAnalysis::compute (src/src/banjo/codegen/liveness.cpp): which   *)
(* registers are live at the start (ins) and at the end (outs) of every    *)
(* block.  Blocks are first put into post order by a depth-first search    *)
(* from block 0; then sweeps over the reversed order apply the data flow   *)
(* equations to one block at a time, until a sweep changes nothing.        *)
(***************************************************************************)
EXTENDS MachineCode

CONSTANT Funcs      \* the functions to analyse

ASSUME FuncsAssumption == \A f \in Funcs : WellFormed(f) /\ Len(f.blocks) # 0

VARIABLES
    func,       \* the function
    phase,      \* "order", "sweep" or "done"
    visited,    \* blocks_visited
    stack,      \* the blocks the search is inside of, the innermost first
    order,      \* block_indices_post_order
    k,          \* the block of the order the sweep looks at next, 0 at its end
    changes,    \* whether the sweep changed something
    ins, outs   \* BlockLiveness::ins and ::outs of every block

vars == <<func, phase, visited, stack, order, k, changes, ins, outs>>

TypeOK ==
    /\ func \in Funcs
    /\ phase \in {"order", "sweep", "done"}
    /\ visited \subseteq Blocks(func)
    /\ stack \in Seq(Blocks(func))
    /\ order \in Seq(Blocks(func))
    /\ k \in 0..Len(order)
    /\ changes \in BOOLEAN
    /\ ins \in [Blocks(func) -> SUBSET Regs]
    /\ outs \in [Blocks(func) -> SUBSET Regs]

Init ==
    /\ func \in Funcs
    /\ phase = "order"
    /\ visited = {0}
    /\ stack = <<0>>
    /\ order = <<>>
    /\ k = 0
    /\ changes = TRUE
    /\ ins = [b \in Blocks(func) |-> {}]
    /\ outs = [b \in Blocks(func) |-> {}]

\* collect_blocks_post_order enters a successor that it has not seen, ...
Enter ==
    /\ phase = "order" /\ stack # <<>>
    /\ \E s \in Succs(func, Head(stack)) \ visited :
         /\ visited' = visited \union {s}
         /\ stack' = <<s>> \o stack
    /\ UNCHANGED <<func, phase, order, k, changes, ins, outs>>

\* ... and lists a block when it has seen all of them.
Leave ==
    /\ phase = "order" /\ stack # <<>>
    /\ Succs(func, Head(stack)) \subseteq visited
    /\ order' = Append(order, Head(stack))
    /\ stack' = Tail(stack)
    /\ UNCHANGED <<func, phase, visited, k, changes, ins, outs>>

\* The head of the loop of compute_ins_and_outs: another sweep, or the end.
SweepPast ==   \* mutant: starts one past the last block
    /\ stack = <<>> /\ k = 0 /\ changes
    /\ phase' = "sweep" /\ k' = Len(order) + 1 /\ changes' = FALSE
    /\ UNCHANGED <<func, visited, stack, order, ins, outs>>
SweepKeep ==   \* mutant: changes is not reset
    /\ phase \in {"order", "sweep"} /\ stack = <<>> /\ k = 0
    /\ phase' = "sweep" /\ k' = Len(order)
    /\ UNCHANGED <<func, visited, stack, order, changes, ins, outs>>
Sweep ==
    /\ \/ phase = "order" /\ stack = <<>>
       \/ phase = "sweep" /\ k = 0
    /\ \/ changes /\ phase' = "sweep" /\ k' = Len(order) /\ changes' = FALSE
       \/ ~ changes /\ phase' = "done" /\ UNCHANGED <<k, changes>>
    /\ UNCHANGED <<func, visited, stack, order, ins, outs>>

\* The equations for one block, applied to what has been found so far.
NewOuts(b) == outs[b] \union UNION {ins[s] : s \in Succs(func, b)}
NewInsAll(b) == ins[b] \union Uses(func, b) \union NewOuts(b)   \* mutant: writes do not matter
NewIns(b) == ins[b] \union Uses(func, b) \union (NewOuts(b) \ Defs(func, b))

\* The sets only grow, so that the code finds a change by comparing sizes.
ChangedLast(b) ==   \* mutant: only the last block of a sweep counts
    NewIns(b) # ins[b] \/ NewOuts(b) # outs[b]
Changed(b) == changes \/ NewIns(b) # ins[b] \/ NewOuts(b) # outs[b]

Visit ==
    /\ phase = "sweep" /\ k # 0
    /\ outs' = [outs EXCEPT ![order[k]] = NewOuts(order[k])]
    /\ ins' = [ins EXCEPT ![order[k]] = NewIns(order[k])]
    /\ changes' = Changed(order[k])
    /\ k' = k - 1
    /\ UNCHANGED <<func, phase, visited, stack, order>>

Next == Enter \/ Leave \/ Sweep \/ Visit

\* The analysis is a sequential computation that runs until it returns.
Spec == Init /\ [][Next]_vars /\ WF_vars(Next)

-----------------------------------------------------------------------------
Listed == {order[j] : j \in 1..Len(order)}

Equations(b) ==
    /\ outs[b] = UNION {ins[s] : s \in Succs(func, b)}
    /\ ins[b] = Uses(func, b) \union (outs[b] \ Defs(func, b))

\* When the sweeps stop, the data flow equations hold in every block that
\* was listed: a sweep without a change really is a fixed point, although
\* each block was looked at before its successors changed
\* (compute_ins_and_outs, liveness.cpp:52-84).
Fixpoint == phase = "done" => \A b \in Listed : Equations(b)

\* A solution of the equations for register r: a set of blocks at whose
\* start r is live.
Solution(r, S) ==
    \A b \in Blocks(func) :
        b \in S \/ (r \notin Uses(func, b) /\ (r \in Defs(func, b) \/ S \intersect Succs(func, b) = {}))

\* At no time is a register called live where some solution of the equations
\* does not have it live: the analysis only grows towards the least one, so
\* it never makes a range longer than needed (compute_ins_and_outs,
\* liveness.cpp:63-79).
Least ==
    \A r \in Regs : \A S \in SUBSET Blocks(func) :
        \/ \A b \in Blocks(func) :
             /\ r \in ins[b] => b \in S
             /\ r \in outs[b] => S \intersect Succs(func, b) # {}
        \/ ~ Solution(r, S)

\* A register is live at the start of a block if some path from there reads
\* it before writing it.
Paths == UNION {[1..n -> Blocks(func)] : n \in 1..Len(func.blocks)}

LiveIn(b, r) ==
    \E p \in Paths :
        LET n == Len(p)
        IN  /\ p[1] = b
            /\ ReadFirst(func, p[n], r)
            /\ \A m \in 1..(n - 1) :
                 /\ p[m + 1] \in Succs(func, p[m])
                 /\ \A i \in Instrs(func, p[m]) : ~ Writes(func, p[m], i, r)

\* The result is exactly what control flow allows: a register is live at the
\* start of a reachable block if and only if some path from there reads it
\* before writing it, although operands that are read and written do not
\* count as uses (collect_uses_and_defs, liveness.cpp:32-43).
LiveInsExact ==
    phase = "done" =>
        \A b \in Listed :
            ins[b] = {r \in Regs : LiveIn(b, r)} /\ ins[b] = LiveIns(func)[b]

LiveAtEnd(b) == {r \in Regs : \E s \in Succs(func, b) : LiveIn(s, r)}

Covered(b, r) ==
    LET ranges == PreciseRanges(func, b, ins[b], outs[b]).ranges[r]
    IN  UNION {ranges[j].start..ranges[j].end : j \in 1..Len(ranges)}

\* The live ranges of a register cover every point at which its value is
\* still needed, and no other: none too short, so that no other value is put
\* into the same physical register, and none too long
\* (compute_precise_live_ranges, liveness.cpp:106-169).
RangesRight(b) == Block(func, b) # <<>> => \A r \in Regs : Covered(b, r) = Needed(func, b, r, LiveAtEnd(b))
RangesExact ==
    phase = "done" => \A b \in Listed : PlainCalls(func, b, LiveAtEnd(b)) => RangesRight(b)

\* Without plain calls that is not so: a register that is argument and result
\* at once gets a range that ends before it starts (liveness.cpp:129-139).
RangesExactAnyCall == phase = "done" => \A b \in Listed : RangesRight(b)

\* What the analysis hands to the register allocator, the registers live at
\* the blocks and the ranges within them, is exactly what control flow allows
\* (liveness.cpp).
Exact == LiveInsExact /\ RangesExact

\* The sweeps come to an end (the loop of liveness.cpp:52).
Terminates == <>(phase = "done")
==============================================================================
