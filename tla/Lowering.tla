------------------------------- MODULE Lowering -------------------------------
(***************************************************************************)
(* The lowering of a function of the SSA to the instructions of a machine  *)
(* (codegen/ssa_lowerer.cpp): the blocks in order and each of them from    *)
(* its last instruction to its first, so that a value whose only use was   *)
(* folded into another instruction is not computed again.  What is emitted *)
(* for an instruction is put in front of what is there.                    *)
(***************************************************************************)
EXTENDS SsaLowerer

CONSTANTS Cases,        \* pairs of a function of the SSA and a machine
          Inputs        \* values for the parameters

X8664 == INSTANCE X8664SsaLowerer
AArch64 == INSTANCE AArch64SsaLowerer
Wasm == INSTANCE WasmSsaLowerer

VARIABLES func,         \* the function
          lowering,     \* the state of the lowerer
          at,           \* the instruction of the block to be lowered next
          body,         \* what the block consists of so far
          blocks        \* the blocks of the machine function
vars == <<func, lowering, at, body, blocks>>

Started(f, m) == [m |-> m, func |-> f, block |-> 1, uses |-> UseCounts(f), slots |-> StackRegs(f), code |-> <<>>,
                  op |-> <<>>, addr |-> <<>>, next |-> 0]
\* lower_func
Init ==
    \E c \in Cases :
        /\ func = c[1]
        /\ lowering = Started(c[1], c[2])
        /\ at = Len(c[1].blocks[1].instrs)
        /\ body = <<>>
        /\ blocks = <<>>

Lower(L, i) == CASE L.m.arch = X86 -> X8664!LowerX86(L, i) [] L.m.arch = ARM -> AArch64!LowerAArch64(L, i)
                 [] L.m.arch = WASM -> Wasm!LowerWasm(L, i)
Prologue(L) == CASE L.m.arch = X86 -> X8664!EmitBlockPrologue(L) [] L.m.arch = ARM -> AArch64!EmitBlockPrologue(L)
                 [] L.m.arch = WASM -> Wasm!EmitBlockPrologue(L)
Ending(L) == IF L.m.arch = WASM THEN <<Wasm!EndBlock>> ELSE <<>>

CurrentInstr == func.blocks[lowering.block].instrs[at]
UnusedEvenCalls(i) == i.dest # "" /\ GetNumUses(lowering, i.dest) = 0
Unused(i) == i.op # "CALL" /\ i.dest # "" /\ GetNumUses(lowering, i.dest) = 0
\* generate_basic_block
SkipInstr ==
    /\ lowering.block <= NumBlocks(func)
    /\ at > 0
    /\ Unused(CurrentInstr)
    /\ at' = at - 1
    /\ UNCHANGED <<func, lowering, body, blocks>>
LowerInstr ==
    /\ lowering.block <= NumBlocks(func)
    /\ at > 0
    /\ ~Unused(CurrentInstr)
    /\ \E L \in {Lower([lowering EXCEPT !.code = <<>>], CurrentInstr)} :
          /\ lowering' = L
          /\ body' = L.code \o body
    /\ at' = at - 1
    /\ UNCHANGED <<func, blocks>>
EndBlock ==
    /\ lowering.block <= NumBlocks(func)
    /\ at = 0
    /\ blocks' = Append(blocks, Prologue([lowering EXCEPT !.code = <<>>]).code \o body \o Ending(lowering))
    /\ body' = <<>>
    /\ lowering' = [lowering EXCEPT !.block = @ + 1]
    /\ at' = IF lowering.block < NumBlocks(func) THEN Len(func.blocks[lowering.block + 1].instrs) ELSE 0
    /\ UNCHANGED func
Done == blocks # <<>> /\ lowering.block > NumBlocks(func)

Next == SkipInstr \/ LowerInstr \/ EndBlock
Spec == Init /\ [][Next]_vars

-----------------------------------------------------------------------------
Optimized == [b \in DOMAIN blocks |-> [k \in DOMAIN blocks[b] |-> X8664!Peephole(blocks[b][k])]]
\* The functions that are called and their parameters.
CallParams == [f |-> <<IF lowering.m.arch = WASM THEN Prim("U32") ELSE Prim("U64")>>, h |-> <<Prim("U32"), Prim("F64")>>, memcpy |-> <<Prim("ADDR"), Prim("ADDR"), Prim("U64")>>,
               sqrt |-> <<Prim("F64")>>]
Run(inputs) == CASE lowering.m.arch = X86 -> X8664!X86Run(Optimized, func, CallParams, inputs)
                 [] lowering.m.arch = ARM -> AArch64!A64Run(blocks, func, CallParams, inputs)
                 [] lowering.m.arch = WASM -> Wasm!WasmRun(blocks, func, lowering, CallParams, inputs)

\* On every input for which the function of the SSA is defined, its code has
\* the same effects and result.
Agree(run, ssa, size) ==
    ssa.defined => /\ ~run.stuck
                   /\ run.mem = ssa.mem
                   /\ run.calls = ssa.calls
                   /\ size > 0 => Cut(run.result, size) = Cut(ssa.result, size)
CodeKeepsMeaning ==
    Done => \A inputs \in Inputs :
        Agree(Run(inputs), SsaRun(func, inputs, lowering.m.ptr), SizeOf(func.result, lowering.m.ptr))
=============================================================================
