CONSTANTS
    Threads = {t1, t2}
    Conns = {c1, c2}
    Requests = {q1, q2}
    NoWork = NoWork
    NoRequest = NoRequest
SPECIFICATION Spec
\* The workers may all be blocked, or the process gone.
CHECK_DEADLOCK FALSE
INVARIANT
    LockHasHolder
