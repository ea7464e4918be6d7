SPECIFICATION Spec
CONSTANTS
    a = a
    b = b
    c = c
    Modules = {a, b, c}
    Names = {"v", "x", "y", "z"}
    TextsOf <- MCTextsOf
    Texts = "sound"
    MaxEdits = 2
INVARIANTS IndexFresh DiagnosticsFresh
\* There is no edit behind the last one.
CHECK_DEADLOCK FALSE
