CONSTANTS
    NULL = NULL
    d1 = d1
    d2 = d2
    p1 = p1
    s1 = s1
    s2 = s2
    c1 = c1
    c2 = c2
    Devices = {d1, d2}
    Profiles = {p1}
    Seats = {s1, s2}
    Calls = {c1, c2}
    MaxLeases = 2
    LeaseTtl = 2
    MaxTime = 3
SYMMETRY Symmetry
SPECIFICATION Spec
INVARIANT
    RightEnds
PROPERTIES
    OpeningFits
    NoNeedlessLoss
\* The clock stops at MaxTime, and sessions are bounded.
CHECK_DEADLOCK FALSE
