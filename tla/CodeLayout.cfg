\* Programs without the known defects of AArch64; a JMP and a JE, or a JL and a JMP.
CONSTANTS
    Layouts <- MCLayouts
    StackTop = 200000
    Main = "main"
    Defects = {}
    Programs <- MCTexts
    Symbols <- MCSymbols
    Externals <- MCExternals
    Opcodes <- MCOpcodes
SPECIFICATION SpecLayout
INVARIANTS ArgsArrive FramesKept BranchesLand Linked
PROPERTIES SectionsEnd
\* A program ends when main returns, a section when it is built.
CHECK_DEADLOCK FALSE
