SPECIFICATION Spec
CONSTANTS
    Content = {x}
    Client = {m1, m2}
    Replayer = {r1}
    Batch = 2
    MaxRequests = 4
    MaxMem = 3
    MaxLedger = 2
    MaxFaults = 1
    Task = {t1, t2}
    Agent = {g1, g2}
    Overdue = 0
    Idle = 1
    ClaimTtl = 1
    Refresh = 1
    MaxClock = 2
    MaxCalls = 4
    Node = {n1, n2, n3}
    Adder = {e1, e2}
    MaxAdds = 2
    Stream = {s1, s2}
    Reader = {a1}
    Poll = {p1, p2}
    Limit = 2
    MaxEvents = 3
    Approval = {v1, v2}
    Decider = {d1, d2}
    Lifetime = 1
    MaxTime = 3
    Bucket = {b1, b2}
    Account = {u1}
    Window = 1
    MaxRate = 2
    MaxKeys = 1
    Cost = {1, 2}
    GraceSecs = 2
    MaxSecond = 4
    NoTaskHolds = NoTaskHolds
    Storer = {h1, h2}
    Collector = {c1, c2}
    Permits = 1
    Hash = {k1}
    Threshold = 1
    Cap = 1
    KeepMechanical = 0
    KeepManual = 1
    MaxHandoffs = 3
    MaxDay = 1
    Session = {q0, q1}
    DefaultSession = q0
    Flush = {f1, f2}
    NoFlush = NoFlush
    BatchSize = 3
    RetainEvery = 2
    OverlapTurns = 1
    MaxPending = 2
    MaxObservations = 2
CHECK_DEADLOCK FALSE
SYMMETRY Symmetry
INVARIANTS
    ServicesTypeOK
    ApprovedWasReviewed
    NoVectorLost
    HandedOutOnce
    StaleHoldsNoClaims
    CyclesNeedARace
    NothingSkipped
    OnceIfAlone
    DecisionStands
    SlidingWindowHolds
    FixedWindowHolds
    WriterNotSelfBlocked
    OneMechanicalCopy
    NoObservationLost
PROPERTIES
    ImplementsVersionChains
