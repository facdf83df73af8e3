\* Three tasks of any kind share one connection and two threads.
SPECIFICATION FairSpec
CONSTANTS
    t1 = t1
    t2 = t2
    t3 = t3
    Tasks = {t1, t2, t3}
    Conns = 1
    Threads = 2
INVARIANTS TypeOK StuckOnlyIfCrowded
PROPERTIES EveryTaskEnds
