\* Every call is answered and no process dies; nodes fail, the breaker opens.
SPECIFICATION FairSystemSpec
CONSTANTS
    p1 = p1
    Sessions = {s1}
    Projects = {p1}
    ProjectOf <- OneProject
    Runs = {r1, r2}
    Workers = {w1, w3}
    Listeners = {w3}
    SystemFaults = {"circuit"}
    Faults = {"node"}
    Fingerprints = {}
    FileCount = 1
    NoRun = NoRun
INVARIANTS
    NoOrphanRun
PROPERTIES
    RunningSettles
CHECK_DEADLOCK FALSE
