\* One thread, and samples whose range begins with a power of two.
CONSTANTS
    Threads = {t1}
    Samples = {1, 4}
    Buckets = 3
    Permilles = {500}
    MaxRecords = 2

SPECIFICATION Spec

INVARIANT AnswerInBucketRange
