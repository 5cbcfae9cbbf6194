SPECIFICATION LiveSpec
CONSTANTS
    NoJob = NoJob
    Job = {j1, j2}
    Worker = {w1}
    JobType = {"short"}
    Timeout <- MCTimeout
    Grace = 0
    Slack = 0
    RetryUnit = 1
    CleanupAge = 1
    MaxAttempts = {2}
    MaxNow = 8
    MaxFaults = 1
    MaxManual = 1
    Call = {c1, c2, c3}
    failure_threshold = 2
    reset_timeout = 2
    half_open_max_calls = 1
    max_attempts = 2
INVARIANTS
    BreakerTypeOK
    SlotsNotLeaked
PROPERTIES
    EventuallySettled
    CooldownRespected
    RecoversWithService
