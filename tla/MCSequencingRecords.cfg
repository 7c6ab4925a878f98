CONSTANTS
    Parts = {"lines"}
    q1 = q1
    p1 = p1
    p2 = p2
    p3 = p3
    Producer = {a1}
    Partition = {q1, q2}
    None = None
    SeqMax = 3
    Cap = 1
    Window = 2
    Counts = {1, 2}
    First <- MCFirst
    Claims = {}
    MaxBatch = 4
    MaxEpoch = 1
    MaxBundle = 2
    MaxLog = 2
    MaxLate = 1
    Handler = {h1, h2}
    Request <- MCRequests
    DomainOf <- MCDomains
    Sealing = {"customer"}
    MaxRequests = 2
    MaxRestarts = 1
    TopicName <- MCTopics
    MAX_NAME = 2
    Lengths = {0, 1, 2}
    KEY <- MCKey
    MaxRegions = 2
    RADIX = 4
    MAX_VARINT = 3
    WIDTH = 32
    Values <- MCValues
    Cell <- MCCells
    MaxRecords = 2
SPECIFICATION MCSpec
CHECK_DEADLOCK FALSE
INVARIANT NextAdmitted
