SPECIFICATION FairSpec
CONSTANTS
    Tasks = {t1, t2, t3, t4}
    Keys = {k1}
    Workers = {w1, w2, w3}
    Batches <- OneOrTwo
    Limited = TRUE
    MaxRunning = 2
INVARIANTS NoLostWakeup ExactlyOnce
PROPERTY EveryTaskServed
CHECK_DEADLOCK FALSE
