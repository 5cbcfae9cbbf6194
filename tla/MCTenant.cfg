SPECIFICATION Spec
CONSTANTS
    Task = {t1, t2}
    NoTask = NoTask
    Job = {j1, j2, j3, j4}
    NoJob = NoJob
    max_attempts = 2
    MaxAdmin = 3
    MaxCrashes = 1
    MaxFaults = 1
SYMMETRY Symmetry
INVARIANTS
    TypeOK
    TombstoneMeansErased
    DeletingIsDriven
PROPERTIES
    ImplementsTenantLife
    TeardownIsLeased
