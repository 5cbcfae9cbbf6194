SPECIFICATION Spec
CONSTANTS
    Task = {t1, t2}
    NoTask = NoTask
    Job = {j1, j2, j3}
    NoJob = NoJob
    max_attempts = 2
    MaxAdmin = 1
    MaxCrashes = 0
    MaxFaults = 0
INVARIANT TombstoneNotResident
