SPECIFICATION GateSpec
CONSTANTS
    MaxGates = 2
CHECK_DEADLOCK FALSE
INVARIANTS
    ConflictMeansDecided
