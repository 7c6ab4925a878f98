CONSTANTS
    Parts = {"lease", "nonces", "keys", "governor", "connections"}
    Node = {n1, n2}
    None = None
    TTL = 3
    SKEW = 1
    MaxTime = 5
    MaxTerm = 1
    MaxLate = 1
    Proc = {"w1", "w2"}
    MAX_EPOCH = 2
    MAX_SEQUENCE = 1
    MAX_REGION = 0
    MAX_ATTEMPTS = 2
    MaxStops = 1
    Task = {"t1", "t2"}
    CustomerKey = {"k1", "k2"}
    Sizes = {1, 2}
    DEK_CAP = 2
    DEK_AGE = 2
    UNWRAP_TTL = 2
    ENTRIES = 1
    MaxAge = 3
    MaxStep = 1
    MaxDeks = 2
    MaxUses = 3
    SCALE = 5
    MAX_RATE = 5
    Policy <- MCPolicy
    MaxInstant = 7
    MaxPolls = 6
    Conn = {"c1", "c2"}
    User = {"u1", "u2"}
    Nameless = "nobody"
    Configured = TRUE
    Terminated = TRUE
    Grants <- MCGrants
    FramesOf <- MCFrames
    MAX_IN_FLIGHT = 2
    QUOTA = 1
    MaxEnds = 1
    MaxPanics = 1
SYMMETRY Symmetric
SPECIFICATION MCSpec
CHECK_DEADLOCK FALSE
INVARIANTS LeaseMutex NoncesSound KeysSound RateExact AnsweredInOrder ChargedOnce
PROPERTIES TermsOnlyExtend Implements
