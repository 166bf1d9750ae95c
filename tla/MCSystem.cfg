\* Two tasks of one session, two listener threads, every fault of the calls.
SPECIFICATION SystemSpec
CONSTANTS
    p1 = p1
    Sessions = {s1}
    Projects = {p1}
    ProjectOf <- OneProject
    Runs = {r1, r2}
    Workers = {w1, w2, w3}
    Listeners = {w2, w3}
    SystemFaults = {"calls", "backend", "circuit"}
    Faults = {"restart"}
    Fingerprints = {f1}
    FileCount = 1
    NoRun = NoRun
SYMMETRY SystemSymmetry
INVARIANTS
    OutcomeWasAnnounced
CHECK_DEADLOCK FALSE
