SPECIFICATION Spec
CONSTANTS
    a1 = a1
    a2 = a2
    x = x
    y = y
    OrderIds <- FourIds
    ReservedIds = {}
    MinPrice = 1
    MaxPrice = 2
    TickSize = 1
    MaxPerLevel = 3
    MaxOrders = 3
    Word = 16
    InputPrices <- MCInputPrices
    Quantities = {1, 3}
    MaxEvents = 3
    ParticipantOf <- MCParticipantOf
    Anonymous = 0
    EventTypes = {"NewOrder", "CancelOrder"}
INVARIANTS
    TypeOK
    RestingOrdersQueued
    SnapshotIsQueue
    FillsAddUp
    STPCancelReported
