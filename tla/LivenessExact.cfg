SPECIFICATION Spec
CONSTANTS
    v1 = v1
    v2 = v2
    rax = rax
    rdi = rdi
    VRegs = {v1, v2}
    PRegs = {rax, rdi}
    Volatile = {rax, rdi}
    RetReg = rax
    Imm = Imm
    Funcs <- MCFuncs
INVARIANT Fixpoint
INVARIANT Least
INVARIANT Exact
\* The analysis returns.
CHECK_DEADLOCK FALSE
