\* One replica with two workers, one event with its time and one without, three
\* messages, one fault, under the fairness of the goroutines.
SPECIFICATION FairSpec
CONSTANTS
    e1 = e1  e2 = e2  n1 = n1  None = None
    Events = {e1, e2}
    Stamped = {e1}
    Replicas = {n1}
    PoolSize = 2
    QueueSize = 1
    MaxRetries = 1
    MaxPublishes = 3
    MaxFaults = 1
INVARIANT TypeOK
INVARIANT StampedNotifiedOnce
INVARIANT DeadLettersWereUnsent
PROPERTY ChannelsDrain
PROPERTY ImplementsLedger
\* With all messages handled and every replica running, nothing may happen.
CHECK_DEADLOCK FALSE
