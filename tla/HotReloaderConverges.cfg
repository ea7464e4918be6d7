SPECIFICATION Spec
CONSTANTS
    f1 = f1
    f2 = f2
    txt = txt
    t1 = t1
    t2 = t2
    a = a
    b = b
    c = c
    e = e
    gone = gone
    main = main
    aux = aux
    new = new
    Files = {f1, f2, txt}
    Sources = {f1, f2}
    Contents = {a, b, c, gone}
    Initial = a
    Missing = gone
    Bad = {}
    SizeOf <- ShorterC
    Names = {main}
    Defines <- OneDefines
    HasData = {b}
    Threads = {}
    Signals = TRUE
    QueueCap = 4
    ReadCap = 4
    After <- NewEdit
    EditAt <- Steps
    MaxPending = 1
    MaxWrites = 4
    MaxAddr = 5
    Overflow = Overflow
    None = None
PROPERTY Converges
PROPERTY ExitNoticed
\* The reloader ends when the target does.
CHECK_DEADLOCK FALSE
