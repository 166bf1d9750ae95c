\* Two overlapping tasks of one session, two files, every fault, a fair event loop.
SPECIFICATION FairEngineSpec
CONSTANTS
    Sessions = {s1}
    Runs = {r1, r2}
    FileCount = 2
    Faults = {"node", "postgres", "restart"}
    NoRun = NoRun
INVARIANTS
    EngineTypeOK
    NoStaleFlag
    NoSilentEnd
    AskingIsAllItDoes
PROPERTIES
    RunsEnd
CHECK_DEADLOCK FALSE
