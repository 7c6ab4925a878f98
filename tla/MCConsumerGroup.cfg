CONSTANTS
    m1 = m1
    m2 = m2
    m3 = m3
    Task = {t1, t2, t3}
    Member = {m1, m2, m3}
    Incumbents <- Pair
    Protocols <- Offers
    Resends = FALSE
    Starts = {"Empty", "CompletingRebalance"}
    MaxFaults = 1
    MaxFails = 1
    MaxReplans = 2
    MaxRequests = 3
SYMMETRY Symmetric
SPECIFICATION Spec
CHECK_DEADLOCK FALSE
INVARIANTS RoundsSound AnsweredEnrolled
PROPERTY StepsHeard
