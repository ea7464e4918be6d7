SPECIFICATION MCSpec
CONSTANTS
    Histories <- MCHistories
    Manifests <- MCManifests
    Faults = {"script", "pip", "tool", "tool killed", "interrupt cache", "interrupt setup", "interrupt open cache",
              "interrupt remove sysroot", "interrupt manifest", "interrupt tasks", "interrupt compiler",
              "interrupt assembler", "interrupt linker", "interrupt remove object", "interrupt running",
              "interrupt testing", "interrupt delegate", "interrupt venv"}
    MaxFaults = 1
    MaxEdits = 1
    Defects = {}
    Tools <- MCTools
    PipeSize = 2
INVARIANT LinkedCurrent InputsExact OutputComplete
PROPERTY Recovers WaitReturns
CHECK_DEADLOCK FALSE
