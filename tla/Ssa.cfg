SPECIFICATION SpecAll
CONSTANTS
    Programs <- PairsAndSmallest
    Inputs <- MCInputs
    OptLevels = {2}
    MaxSteps = 350
    Blocks = {b1, b2, b3}
    Entry = e
INVARIANTS MeaningKept WellFormed GraphsExact
CHECK_DEADLOCK FALSE
