CONSTANTS
    Tasks = {t1, t2}
    Workers = {w1, w2}
    LateResults = {TRUE, FALSE}
SPECIFICATION FairSpec
CHECK_DEADLOCK FALSE
INVARIANT TasksExact
PROPERTY EveryCallReturns
