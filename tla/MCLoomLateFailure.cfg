SPECIFICATION MCSpec
CONSTANTS
    Step = {1, 2}
    Unknown = 0
    max_retries <- MCRetries
    Task = {t1, t2}
    MaxRequests = 3
    MaxCrashes = 0
CHECK_DEADLOCK FALSE
PROPERTY LateFailureKeepsCompletedRun
