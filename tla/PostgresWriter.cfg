\* Two threads that share the writer; three writes, so that a run can be
\* begun by one thread and written to and ended by the other; any number of
\* flushes.
CONSTANTS
    Callers = {c1, c2}
    MaxWrites = 3

SPECIFICATION Spec

INVARIANT TypeOK
INVARIANT FlushSettles
INVARIANT StoredInOrder
INVARIANT DrainedAtStop
PROPERTY CallsReturn

\* The writer and its callers are gone after the destructor.
CHECK_DEADLOCK FALSE
