\* Two accounts in pages of one, three rows that refer to them, two jobs, one
\* crash, a lock that may run out under its job.
SPECIFICATION FairErasureSpec
CONSTANTS
    Users = {u1, u2}
    Pinned = {}
    Jobs = {j1, j2}
    BatchSize = 1
    MaxCrashes = 1
    MaxRows = 3
    Faults = {"late"}
INVARIANTS
    AuditedFirst
PROPERTIES
    
    DeletedAreErased
CHECK_DEADLOCK FALSE
