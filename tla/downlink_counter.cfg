SPECIFICATION Spec
CONSTANTS
    FCNT16 = 8
    FCNT32 = 32
    MAX_FCNT_GAP = 3
    MaxSent = 28
    MaxLate = 3
INVARIANT
    InStep
    AcceptsExactly
PROPERTY
    NeverFarBack
