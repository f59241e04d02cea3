SPECIFICATION Spec
CONSTANTS
    Pools = {event, order}
    event = event
    order = order
    Configs <- MCConfigs
    Threads = {t1}
    t1 = t1
    MaxStarts = 2
    MaxExhausted = 1
    MaxNews = 2
INVARIANT TypeOK
INVARIANT SlotsPartitioned
INVARIANT ValidatedPoolsServe
INVARIANT GuardCountsItsOwn
