CONSTANTS
    Timers = {t1, t2}
    Delays <- MCDelays
    Repeats <- MCRepeats
    Counts <- MCCounts
    MaxJump = 3
    NoFrame = NoFrame
SPECIFICATION FairSpec
INVARIANTS
    TypeOK
    Lockstep
    PassEnds
PROPERTIES
    ImplementsAlarm
    AllCalled
