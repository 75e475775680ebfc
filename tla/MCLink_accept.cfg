CONSTANTS
    s1 = s1  s2 = s2  n1 = n1
    Conns = {s1, s2, n1}
    Schedulers = {s1, s2}
    Lines <- MCLines
    Fds = {f1, f2}
    Workers = {w1, w2}
    BufferLen = 3
    None = None
SPECIFICATION Spec
INVARIANT SchedulerIsHeard
CHECK_DEADLOCK FALSE
