\* One message without its time, two replicas, nothing fails.
SPECIFICATION Spec
CONSTANTS
    e1 = e1  n1 = n1  n2 = n2  None = None
    Events = {e1}
    Stamped = {}
    Replicas = {n1, n2}
    PoolSize = 1
    QueueSize = 1
    MaxRetries = 1
    MaxPublishes = 1
    MaxFaults = 0
INVARIANT NotifiedOnce
\* With all messages handled and every replica running, nothing may happen.
CHECK_DEADLOCK FALSE
