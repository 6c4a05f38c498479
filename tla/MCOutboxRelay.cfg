\* Two replicas, three rows about one attempt, batches of two, one fault,
\* under the fairness of the loops.
SPECIFICATION FairSpec
CONSTANTS
    g1 = g1  r1 = r1  r2 = r2  None = None
    MaxRows = 3
    Aggregates = {g1}
    Relays = {r1, r2}
    BatchSize = 2
    BufferSize = 1
    MayFallBack = TRUE
    MaxFaults = 1
INVARIANT TypeOK
INVARIANT HandedOverInOrder
INVARIANT ResendsAreExcused
PROPERTY ImplementsDelivery
PROPERTY EventuallyOut
\* With no transaction left and every event sent, the relays only wait.
CHECK_DEADLOCK FALSE
