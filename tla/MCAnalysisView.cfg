SPECIFICATION FairSpec
CONSTANTS
    s1 = s1
    s2 = s2
    p1 = p1
    p2 = p2
    Sessions = {s1, s2}
    Projects = {p1, p2}
    None = None
    ProjectOf <- MCProjectOf
    MaxClicks = 2
    MaxAsked = 2
INVARIANT ViewTypeOK OneListAtATime
PROPERTY SpinnerEnds
CHECK_DEADLOCK FALSE
