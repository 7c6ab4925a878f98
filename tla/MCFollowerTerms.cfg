CONSTANTS
    Components = {"follower"}
    Partition = {q1}
    Bundle = {{q1}}
    Page = 1
    Buffer = 4
    Drops = FALSE
    Fails = FALSE
    Others = TRUE
    ReadFails = FALSE
    Ambiguous = FALSE
    MaxBoot = 1
    MaxLine = 4
    MaxTerm = 2
    Parts = {"p1", "p2"}
    TAIL_WINDOW = 1
    PAGE_BATCHES = 2
    THRESHOLD = 1
    TARGET_RECORDS = 3
    PLAN_BUDGET = 3
    HOPS = 4
    Bundles = {{"p1"}, {"p1", "p2"}}
    Counts = {1}
    MaxKeys = 5
    MaxEnd = 3
    MaxEntries = 6
    Broker = {"b1", "b2"}
    Creators = {"u1", "u2"}
    Jobs <- MCJobs
    Committer = {"c1", "c2"}
    PartitionKey = {"k1", "k2"}
    REPLAY_PAGE = 2
    MAX_RETRIES = 2
    MaxLog = 5
    Logs <- MCLogs
    Requested <- MCRequested
    MaxErrs = 1
    MaxBoots = 1
SPECIFICATION MCSpec
CHECK_DEADLOCK FALSE
INVARIANT SweepSafe
