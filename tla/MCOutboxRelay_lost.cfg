\* NATS is up when the service starts: a marked event is lost all the same.
SPECIFICATION Spec
CONSTANTS
    g1 = g1  r1 = r1  r2 = r2  None = None
    MaxRows = 2
    Aggregates = {g1}
    Relays = {r1, r2}
    BatchSize = 2
    BufferSize = 1
    MayFallBack = FALSE
    MaxFaults = 2
INVARIANT MarkedIsDelivered
\* With no transaction left and every event sent, the relays only wait.
CHECK_DEADLOCK FALSE
