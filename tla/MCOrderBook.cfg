SPECIFICATION BookSpec
CONSTANTS
    OrderIds = {a, b, c, zero}
    ReservedIds = {zero}
    MinPrice = 1
    MaxPrice = 3
    TickSize = 1
    MaxPerLevel = 2
    MaxOrders = 3
    Word = 8
    InputPrices <- MCInputPrices
    Quantities <- MCQuantities
SYMMETRY Symmetry
INVARIANTS
    BookTypeOK
    QueuedOrdersRest
    TotalsAgree
    BestPriceExact
PROPERTIES
    RefusalLeavesBook
    QueueOrderKept
