SPECIFICATION Spec
CONSTANTS
    f1 = f1
    f2 = f2
    txt = txt
    t1 = t1
    t2 = t2
    a = a
    b = b
    c = c
    e = e
    gone = gone
    main = main
    aux = aux
    new = new
    Files = {f1, txt}
    Sources = {f1}
    Contents = {a, b, c, e, gone}
    Initial = a
    Missing = gone
    Bad = {e}
    SizeOf <- ShorterC
    Names = {main, aux, new}
    Defines <- MCDefines
    HasData = {b}
    Threads = {t1, t2}
    Signals = TRUE
    QueueCap = 2
    ReadCap = 2
    After <- AnyEdit
    EditAt <- Steps
    MaxPending = 4
    MaxWrites = 3
    MaxAddr = 4
    Overflow = Overflow
    None = None
SYMMETRY ThreadSymmetry
INVARIANT TypeOK
INVARIANT TableSound
INVARIANT FramesIntact
INVARIANT FileConsistent
\* The reloader ends when the target does.
CHECK_DEADLOCK FALSE
