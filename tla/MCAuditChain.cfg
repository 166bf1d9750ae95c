\* Three audited requests in overlapping transactions, served fairly.
SPECIFICATION FairAuditSpec
CONSTANTS
    Requests = {r1, r2, r3}
    Genesis = Genesis
    MaxTime = 2
INVARIANTS
    EntriesAreRooted
    SerialLogVerifies
    NoCircularWait
PROPERTIES
    AppendsEnd
CHECK_DEADLOCK FALSE
