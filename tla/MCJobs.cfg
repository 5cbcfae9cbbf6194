SPECIFICATION Spec
CONSTANTS
    NoJob = NoJob
    Job = {j1}
    Worker = {w1, w2}
    JobType = {"short", "long"}
    Timeout <- MCTimeout
    Grace = 1
    Slack = 1
    RetryUnit = 1
    CleanupAge = 1
    MaxAttempts = {1, 2}
    MaxNow = 7
    MaxFaults = 1
    MaxManual = 1
SYMMETRY Symmetry
INVARIANTS
    TypeOK
    LeaseIsLatestClaim
    NoDoubleExecution
    AttemptsBounded
    FailedOnlyWhenExhausted
    CompletedMeansSucceeded
    RunningHasOwner
PROPERTIES
    ImplementsLeaseQueue
