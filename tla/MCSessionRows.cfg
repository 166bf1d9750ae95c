\* Two open transactions on three sessions of one project, one finding.
SPECIFICATION RowsSpec
CONSTANTS
    p1 = p1
    Sessions = {s1, s2, s3}
    Projects = {p1}
    ProjectOf <- OneProject
    Fingerprints = {f1}
    Workers = {w1, w2}
SYMMETRY RowsSymmetry
CONSTRAINT OneIsReportedOn
INVARIANTS
    RowsTypeOK
    CountNeverExceeds
    LocksAreExclusive
PROPERTIES
    StartInterruptsRunningOnly
CHECK_DEADLOCK FALSE
