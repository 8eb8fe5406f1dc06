SPECIFICATION Spec
CONSTANTS
    Requests = {r1}
    Conns = {c1}
    Stoppers = {s1, s2}
    NoLimiter = NoLimiter
    Limits = {NoLimiter}
    SizeT = 4
INVARIANTS OnDoneAfterClose
CHECK_DEADLOCK FALSE
