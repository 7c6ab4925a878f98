CONSTANTS
    Parts = {"park", "read", "consumer", "chunk", "many"}
    Partition = {q1, q2}
    Bundle = {{q1}, {q2}}
    Page = 1
    Buffer = 1
    Drops = TRUE
    Fails = TRUE
    Others = TRUE
    Ambiguous = TRUE
    MaxBoot = 1
    MaxLine = 2
    MaxTerm = 2
    MaxReads = 2
    Targets = {1, 2}
    FetchPart = {"p", "q", "r"}
    Object = {"o1", "o2", "o3"}
    SizeOf <- MCSizeOf
    FetchLayouts <- MCLayouts
    Fetches <- MCFetches
    READ_BUDGET = 4
    MAX_FAILED = 2
    MAX_READS = 2
    MAX_PAGE = 3
    MaxHealthSteps = 3
    MAX_STALENESS = 1
    Policies = {"earliest", "latest"}
    MaxWrites = 2
    MaxEpoch = 2
    Reader = {"r1", "r2", "r3"}
    Chunk = {"x"}
    MaxLeads = 2
    OBJECT_SIZE = 6
    Batches <- MCBatches
    Thresholds = {0, 1}
SPECIFICATION MCFairSpec
CHECK_DEADLOCK FALSE
INVARIANTS AckedReadable FetchSound PassSound SessionServed ReadsOwnBytes
PROPERTY GrowthIsRead
