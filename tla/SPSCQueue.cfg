SPECIFICATION Spec
CONSTANTS
    Capacity = 4
    MaxItems = 9
    Items = {i1, i2}
    NoItem = NoItem
INVARIANTS
    TypeOK
    SlotsDisjoint
    SizeInRange
PROPERTIES
    ImplementsBoundedFIFO
