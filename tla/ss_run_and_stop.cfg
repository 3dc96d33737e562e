CONSTANTS
    t1 = t1
    t2 = t2
    t3 = t3
    Threads = {t1, t2, t3}
    Does <- RunAndStop
    NumProcs = 1
    WithSetup = {1}
    MaxSessions = 2
    MaxChildren = 3
SPECIFICATION FairSpec
INVARIANTS TypeOK Supervised
PROPERTIES CreatesDoNotInterleave StoppedEnds
