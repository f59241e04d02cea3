CONSTANTS
    Sources <- MCSources
    Strategies <- MCStrategies
    MaxTrades = 1
    MaxDeferred = 1
    MaxClients = 1
    MaxSignals = 1

SPECIFICATION Spec
\* The program ends, and so does a replay the engine does not return from.
CHECK_DEADLOCK FALSE

INVARIANT TypeOK
INVARIANT RecentTradesLast
INVARIANT SectionsWithinOneEvent
INVARIANT FinalSnapshotExact
INVARIANT RunBlocksUntilStop
PROPERTY StopEndsProgram
PROPERTY FinalSnapshotShown
