\* Slices of 2 in a window of 4; isolations 1, 2, 3 (capped).  The clock stops at
\* MaxTime and the requests run out, so the system may stop.
SPECIFICATION Spec
CONSTANTS
    Requests = {r1, r2, r3, r4}
    MinRequests = 2
    RateNum = 1
    RateDen = 2
    Window = 4
    Slice = 2
    FirstIsolation = 1
    MaxIsolation = 3
    MaxTime = 3
SYMMETRY Symmetry
INVARIANT HalfOpenHasProbe
CHECK_DEADLOCK FALSE
