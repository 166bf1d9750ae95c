SPECIFICATION DastSpec
CONSTANTS
    a1 = a1
    a2 = a2
    c1 = c1
    x = x
    A = A
    C = C
    NoBatch = NoBatch
    BatchOf <- InBatches
    Scans = {a1, x}
    Batches = {A}
    Streams = {k1}
    MaxTries = 2
    Concurrency = 1
    Faults = {"raise", "redis", "ttl"}
INVARIANTS
    CompletionIsTrue
    TriedEnough
CHECK_DEADLOCK FALSE
