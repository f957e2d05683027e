CONSTANTS
    s1 = s1
    s2 = s2
    r1 = r1
    m1 = m1
    m2 = m2
    big = big
    Sessions <- MCSessions
    Msgs <- MCMsgs
    To <- MCTo
    Size <- MCSize
    Replies <- MCReplies
    TooLong <- MCTooLong
    Heap = {b1}
    Static = Static
    Null = Null
    Junk = Junk
SPECIFICATION Spec
\* Both sessions may be closed, and everything sent.
CHECK_DEADLOCK FALSE
INVARIANT
    BuffersValid
