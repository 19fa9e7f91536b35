CHECK_DEADLOCK FALSE
SPECIFICATION FairSpec
CONSTANTS
    t1 = t1
    t2 = t2
    t3 = t3
    s0 = s0
    s1 = s1
    s2 = s2
    a1 = a1
    a2 = a2
    Task = {t1, t2, t3}
    Attempt = {a1, a2}
    AttemptOf <- MCAttemptOf
    Sender = {s0, s1, s2}
    Context <- MCContext
    NoAttempt = NoAttempt
    MaxGeneration = 3
    MaxPasses = 2
INVARIANTS
    TypeOK
    LeaseLockStep
    SilentWindow
PROPERTIES
    WindowAttribution
    SilenceOpens
    LeaseReturns
