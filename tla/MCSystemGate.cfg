SPECIFICATION SystemSpec
CONSTANTS
    p1 = p1
    Sessions = {s1}
    Projects = {p1}
    ProjectOf <- OneProject
    Runs = {r1, r2}
    Workers = {w1, w2, w3}
    Listeners = {w3}
    SystemFaults = {"circuit"}
    Faults = {}
    Fingerprints = {}
    FileCount = 1
    NoRun = NoRun
INVARIANTS
    GateIsKept
CHECK_DEADLOCK FALSE
