\* Two threads; samples 0 and 1 share the first bucket, 2 and 3 the second.
CONSTANTS
    Threads = {t1, t2}
    Samples = {0, 1, 3, 7}
    Buckets = 3
    Permilles = {500, 990}
    MaxRecords = 4

SPECIFICATION Spec

INVARIANT MaxExact
INVARIANT PercentileRanked
INVARIANT AnswerNotTooLow
