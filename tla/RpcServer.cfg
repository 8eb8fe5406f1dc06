SPECIFICATION FairSpec
CONSTANTS
    Requests = {r1, r2}
    Conns = {c1}
    Stoppers = {s1, s2}
    NoLimiter = NoLimiter
    Limits = {1}
    SizeT = 4
INVARIANTS SlotsExact HandlersBounded DrainedBeforeClose AnsweredOnce ClosedBeforeJoin
PROPERTIES StopCompletes
CHECK_DEADLOCK FALSE
