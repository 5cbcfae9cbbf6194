SPECIFICATION MCSpec
CONSTANTS
    Step = {1, 2, 3}
    Unknown = 0
    max_retries <- MCRetries
    Task = {t1, t2}
    MaxRequests = 2
    MaxCrashes = 1
SYMMETRY Symmetry
CHECK_DEADLOCK FALSE
INVARIANTS
    TypeOK
    NoDoubleExecution
    StartsAfterDeps
    RetriesBounded
    
