SPECIFICATION Spec
CONSTANTS
    a = a
    b = b
    p = p
    x = x
    y = y
    Temp = Temp
    Resources = {a, b, p, x, y}
    Inside <- PairInside
    HasDeinit = {a, b, x, y}
    Families = {"moves", "fields", "exits"}
    ExprsOf <- MCExprsOf
    NamesOf <- MCNamesOf
    MaxLen = 7
    MaxLoops <- MCMaxLoops
SYMMETRY MCSymmetry
INVARIANTS UsesOwned NoLeak
\* The run of a program ends, and a rejected program does not run.
CHECK_DEADLOCK FALSE
