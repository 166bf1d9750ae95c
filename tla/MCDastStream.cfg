\* Two batches of one session, a stream opened at any time, tests that raise.
SPECIFICATION FairDastSpec
CONSTANTS
    a1 = a1
    a2 = a2
    c1 = c1
    x = x
    A = A
    C = C
    NoBatch = NoBatch
    BatchOf <- InBatches
    Scans = {a1, a2, c1}
    Batches = {A, C}
    Streams = {k1}
    MaxTries = 1
    Concurrency = 2
    Faults = {"raise"}
INVARIANTS
    ResultsPrecedeCompletion
    NobodyIsForgotten
PROPERTIES
    BatchStreamsEnd
CHECK_DEADLOCK FALSE
