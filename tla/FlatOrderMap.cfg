\* Eight slots, so that four of the five keys fit: 1 and 9 share their first
\* slot, 2 is in their way, 7 and 15 share the last one and wrap round.
\* 0 and 31 are the reserved keys.
CONSTANTS
    Cap = 8
    MaxKey = 31
    Keys = {0, 1, 2, 7, 9, 15, 31}
    Values = {v1, v2}
    NoValue = NoValue

SPECIFICATION Spec

INVARIANT TypeOK
INVARIANT StoredKeysFound
PROPERTY ImplementsBoundedMap
