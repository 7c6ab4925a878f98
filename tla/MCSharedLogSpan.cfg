CONSTANTS
    Parts = {"terms"}
    Node = {n1, n2}
    Commit = {c1, c2}
    None = None
    MaxTerms = 3
    MaxGen = 1
    MaxLate = 0
    MaxRestart = 0
    SpansTerms = TRUE
    CkptPauses = FALSE
    B = 8
    Samples <- MCSamples
    MaxDamage = 0
    Kinds = {"memory"}
    LimitsOf <- MCLimits
    Client = {"k1"}
    Keys = {1}
    Jobs <- MCJobs
    BUNDLE_PART_BYTES = 3
    FOOTER = 1
    MAX_ATTEMPTS = 2
    MaxFaults = 0
SYMMETRY Symmetric
SPECIFICATION MCSpec
CHECK_DEADLOCK FALSE
INVARIANT AckedDurable
