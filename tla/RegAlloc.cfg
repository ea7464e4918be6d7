SPECIFICATION Spec
CONSTANTS
    v1 = v1
    v2 = v2
    v3 = v3
    x1 = x1
    rax = rax
    rbx = rbx
    rdi = rdi
    xmm = xmm
    gp = gp
    sse = sse
    VRegs = {v1, v2, v3, x1}
    PRegs = {rax, rbx, rdi, xmm}
    Volatile = {rax, rdi, xmm}
    RetReg = rax
    Imm = Imm
    Funcs <- MCFuncs
    ClassOf <- MCClassOf
    Candidates <- MCCandidates
    Ties <- MCTies
    MaxSlots = 3
INVARIANT NoConflict
INVARIANT Served
INVARIANT Faithful
\* The pass returns.
CHECK_DEADLOCK FALSE
