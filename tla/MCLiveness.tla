----------------------------- MODULE MCLiveness ------------------------------
(***************************************************************************)
(* Instances of Liveness for TLC: an entry block that writes every virtual *)
(* register it needs, and two more blocks with any of a few bodies and any *)
(* control flow between them, so that loops, branches, blocks that no path *)
(* reaches and functions without a return occur.                           *)
(***************************************************************************)
EXTENDS Liveness

CONSTANTS v1, v2, rax, rdi

\* The entry block receives its parameter in a physical register.
Entries == {<<Mov(v1, rdi), Mov(v2, v1), Jmp>>, <<Mov(v1, Imm), Mov(v2, Imm), Jmp>>}

Bodies == {
    <<>>,
    <<Mov(v1, Imm), Jmp>>,
    <<Cmp(v1, v2), Jmp>>,
    <<Mov(v2, v1), Sub(v2, v1), Jmp>>,
    <<Mov(v1, v2), Mov(v2, v1), Cmp(v1, v1), Jmp>>,
    <<Mov(rdi, v1), Call, Mov(v1, rax), Jmp>>}

ControlFlows(entries, bodies) ==
    {[blocks |-> <<e, x, y>>, succs |-> <<s, t, u>>] :
        e \in entries, x \in bodies, y \in bodies,
        s \in {{1}, {1, 2}}, t \in SUBSET {1, 2}, u \in SUBSET {1, 2}}

MCFuncs == ControlFlows(Entries, Bodies)

\* An argument in the register of the result.
ArgumentIsResult ==
    ControlFlows(Entries, {<<Mov(rax, v1), Mov(v2, Imm), Cmp(v2, v2), Call, Mov(v1, rax), Jmp>>})
==============================================================================
