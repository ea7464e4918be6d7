SPECIFICATION Spec
CONSTANTS
    RegValues = {1, 2, 3}
    MaxAddr = 2
    other = other
    Others = {other}
    OtherSignals = FALSE
PROPERTIES Atomic Ends Resumes
\* The reloader ends when it fails.
CHECK_DEADLOCK FALSE
