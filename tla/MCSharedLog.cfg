CONSTANTS
    Parts = {"checkpoints", "late", "terms", "segments", "adapter"}
    Node = {n1, n2}
    Commit = {c1, c2, c3}
    None = None
    MaxTerms = 3
    MaxGen = 2
    MaxLate = 1
    MaxRestart = 1
    SpansTerms = FALSE
    CkptPauses = FALSE
    B = 8
    Samples <- MCSamples
    MaxDamage = 1
    Kinds = {"s3", "gcs", "memory"}
    LimitsOf <- MCLimits
    Client = {"k1", "k2"}
    Keys = {1, 2, 3}
    Jobs <- MCJobs
    BUNDLE_PART_BYTES = 3
    FOOTER = 1
    MAX_ATTEMPTS = 2
    MaxFaults = 1
SYMMETRY Symmetric
SPECIFICATION MCSpec
CHECK_DEADLOCK FALSE
INVARIANTS LogSound SegmentsExact AdapterHonest
PROPERTIES Implements
