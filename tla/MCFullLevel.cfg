SPECIFICATION Spec
CONSTANTS
    a1 = a1
    a2 = a2
    x = x
    y = y
    OrderIds <- ThreeIds
    ReservedIds = {}
    MinPrice = 1
    MaxPrice = 2
    TickSize = 1
    MaxPerLevel = 1
    MaxOrders = 3
    Word = 8
    InputPrices <- MCInputPrices
    Quantities = {1, 2}
    MaxEvents = 3
    ParticipantOf <- MCParticipantOf
    Anonymous = 0
    EventTypes = {"NewOrder"}
PROPERTIES
    MatchingCompletes
