----------------------------- MODULE MCRegAlloc ------------------------------
(***************************************************************************)
(* Instances of RegAlloc for TLC: fewer physical registers than values     *)
(* that are live at the same time, so that bundles are evicted and         *)
(* spilled, with moves to coalesce, calls that use and destroy registers,  *)
(* a register of another class, and a loop.                                *)
(***************************************************************************)
EXTENDS RegAlloc

CONSTANTS v1, v2, v3, x1, rax, rbx, rdi, xmm, gp, sse

MCClassOf == [v \in VRegs |-> IF v = x1 THEN sse ELSE gp]
MCCandidates == [c \in {gp, sse} |-> IF c = sse THEN <<xmm>> ELSE <<rax, rbx>>]

Prefix == <<Mov(v1, Imm), Mov(v2, Imm), Mov(v3, Imm)>>
Suffix == <<Cmp(v1, v2), Cmp(v3, Imm), Jmp>>

Middle == {<<Mov(v1, v2)>>, <<Mov(v2, v3)>>, <<Mov(v3, v1)>>, <<Sub(v1, v2)>>, <<Sub(v3, v1)>>,
           <<Sub(v2, Imm)>>, <<Mov(rdi, v1), Call, Mov(v2, rax)>>, <<Mov(x1, v1), Mov(v3, x1)>>}

Straight == {[blocks |-> <<Prefix \o m \o n \o Suffix>>, succs |-> <<{}>>] : m \in Middle, n \in Middle}

\* A loop that carries two values and reads a third, and a branch around it.
Body == {<<Mov(v1, v2), Sub(v1, v3), Mov(v2, v1), Jmp>>,
         <<Mov(v1, v3), Mov(rdi, v2), Call, Mov(v2, rax), Cmp(v1, v2), Jmp>>,
         <<Mov(v1, v2), Mov(v2, v3), Mov(v3, v1), Jmp>>}
Loops == {[blocks |-> <<Prefix \o <<Jmp>>, body, Suffix>>, succs |-> <<{1, 2}, {1, 2}, {}>>] :
             body \in Body}

\* Functions short enough for any order of bundles with equal weights.
Short == {[blocks |-> <<Prefix \o m \o Suffix>>, succs |-> <<{}>>] : m \in Middle}

MCFuncs == Straight \union Loops \union Short

\* An addition to a register that is spilled.
Additions == {[blocks |-> <<Prefix \o <<Add(v1, v2)>> \o Suffix>>, succs |-> <<{}>>]}

ASSUME MCSupported == \A f \in MCFuncs : Supported(f)

MCTies == [f \in Funcs |-> IF f \in Short THEN {"any"} ELSE {"first", "last"}]
==============================================================================
