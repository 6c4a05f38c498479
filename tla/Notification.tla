----------------------------- MODULE Notification -----------------------------
(***************************************************************************)
(* The notification service (src/notification) and the gateway it reports  *)
(* to (src/mock-gateway).  Every replica of the service subscribes to the  *)
(* subjects of the three gRPC services, with plain subscriptions, so that  *)
(* each gets every message.  The callback of a subscription never blocks:  *)
(* it puts a job into the bounded channel of the worker pool or drops it.  *)
(* A worker posts its job to the gateway with retries and finally gives    *)
(* it to a dead-letter list in Redis.                                      *)
(*                                                                         *)
(* The gateway recognises a notification by its idempotency key, a hash of *)
(* the event's type, entity and time.  A key is modelled by what makes two *)
(* of them equal: the event and a stamp, which is 0 if the payload carries *)
(* its time, and otherwise the moment of its reception (no two receptions  *)
(* happen in one nanosecond).                                              *)
(***************************************************************************)
EXTENDS Naturals, Sequences

CONSTANTS Events,       \* events of the services
          Stamped,      \* those whose payload has event_type, entity_id, occurred_at
          Replicas,     \* replicas of the notification service
          PoolSize,     \* WORKER_POOL_SIZE
          QueueSize,    \* capacity of Pool.jobs (10 * PoolSize in pool.go)
          MaxRetries,   \* JOB_RETRY_ATTEMPTS
          MaxPublishes, \* bound: messages the broker gets, repetitions included
          MaxFaults,    \* bound: broken connections, exits, restarts of the gateway
          None          \* no job

Keys == Events \X Nat

ASSUME NotificationAssumption ==
    /\ Stamped \subseteq Events
    /\ PoolSize \in Nat \ {0} /\ QueueSize \in Nat /\ MaxRetries \in Nat
    /\ MaxPublishes \in Nat /\ MaxFaults \in Nat
    /\ None \notin Keys

VARIABLES conn,         \* the NATS connection of a replica; "down": no process
          inbox,        \* how often each event waits for a callback of a replica
          queue,        \* Pool.jobs of each replica
          at,           \* what each worker does
          job,          \* the key of its job
          tries,        \* attempt, in its loop
          late,         \* keys of POSTs nobody waits for, still under way
          seen,         \* gateway: keys it has accepted since it was started
          log,          \* gateway: entries of these notifications, without repetitions
          dlq,          \* keys in the Redis list dlq:notification
          received,     \* keys of all receptions
          ever,         \* keys any gateway process has accepted
          unanswered,   \* keys of which some POST was never answered
          forgone,      \* keys dropped: full channel, failing LPUSH, end of a process
          clock,        \* the last stamp given at a reception
          published,    \* messages the broker has got
          faults        \* faults so far

subscriber == <<conn, inbox>>
workers    == <<at, job, tries>>
gateway    == <<seen, log, ever>>
ghosts     == <<received, unanswered, forgone>>
bounds     == <<published, faults>>
vars       == <<subscriber, queue, workers, late, gateway, dlq, ghosts, clock, bounds>>

Workers == Replicas \X (1 .. PoolSize)

TypeOK ==
    /\ conn \in [Replicas -> {"down", "up", "reconnecting", "closed"}]
    /\ inbox \in [Replicas -> [Events -> Nat]]
    /\ queue \in [Replicas -> Seq(Keys)]
    /\ \A r \in Replicas : Len(queue[r]) <= QueueSize
    /\ at \in [Workers -> {"idle", "post", "bury"}]
    /\ job \in [Workers -> Keys \union {None}]
    /\ \A w \in Workers : job[w] = None <=> at[w] = "idle"
    /\ tries \in [Workers -> 0 .. MaxRetries]
    /\ late \subseteq Keys /\ seen \subseteq Keys /\ log \in Seq(Keys) /\ dlq \subseteq Keys
    /\ received \subseteq Keys
    /\ ever \subseteq Keys /\ unanswered \subseteq Keys /\ forgone \subseteq Keys
    /\ clock \in Nat /\ published \in 0 .. MaxPublishes /\ faults \in 0 .. MaxFaults

Init ==
    /\ conn = [r \in Replicas |-> "up"]
    /\ inbox = [r \in Replicas |-> [e \in Events |-> 0]]
    /\ queue = [r \in Replicas |-> <<>>]
    /\ at = [w \in Workers |-> "idle"]
    /\ job = [w \in Workers |-> None]
    /\ tries = [w \in Workers |-> 0]
    /\ late = {} /\ seen = {} /\ log = <<>> /\ dlq = {}
    /\ received = {} /\ ever = {} /\ unanswered = {} /\ forgone = {}
    /\ clock = 0 /\ published = 0 /\ faults = 0

Fault == faults < MaxFaults /\ faults' = faults + 1
-------------------------------------------------------------------------------
(***************************************************************************)
(* The subscriber.                                                         *)
(***************************************************************************)

\* The broker passes a message on to whoever is connected, and keeps nothing for
\* the others.  A relay may have sent the event before.
Publish(e) ==
    /\ published < MaxPublishes /\ published' = published + 1
    /\ inbox' = [r \in Replicas |->
                   IF conn[r] = "up" THEN [inbox[r] EXCEPT ![e] = @ + 1] ELSE inbox[r]]
    /\ UNCHANGED <<conn, queue, workers, late, gateway, dlq, ghosts, clock, faults>>

\* Mutant: occurred_at is always the time of the reception.
KeyOfReception(e) == <<e, clock + 1>>

\* handle fills in what the payload lacks; IdempotencyKey hashes the result.
KeyOf(e) == IF e \in Stamped THEN <<e, 0>> ELSE <<e, clock + 1>>

\* The callback for one message: handle, then Submit.
Receive(r, e) ==
    LET k == KeyOf(e) IN
    /\ conn[r] # "down" /\ inbox[r][e] > 0
    /\ inbox' = [inbox EXCEPT ![r][e] = @ - 1]
    /\ clock' = IF e \in Stamped THEN clock ELSE clock + 1
    /\ received' = received \union {k}
    /\ IF Len(queue[r]) < QueueSize
       THEN queue' = [queue EXCEPT ![r] = Append(@, k)] /\ UNCHANGED forgone
       ELSE forgone' = forgone \union {k} /\ UNCHANGED queue
    /\ UNCHANGED <<conn, workers, late, gateway, dlq, unanswered, bounds>>
-------------------------------------------------------------------------------
(***************************************************************************)
(* A worker: dispatch.                                                     *)
(***************************************************************************)

Take(w) ==
    LET r == w[1] IN
    /\ at[w] = "idle" /\ queue[r] # <<>>
    /\ job' = [job EXCEPT ![w] = Head(queue[r])]
    /\ queue' = [queue EXCEPT ![r] = Tail(@)]
    /\ at' = [at EXCEPT ![w] = "post"]
    /\ UNCHANGED <<tries, subscriber, late, gateway, dlq, ghosts, clock, bounds>>

\* Mutant: the bound of the loop is off by one.
RetryOnceMore(w) ==
    IF tries[w] <= MaxRetries
    THEN /\ tries' = [tries EXCEPT ![w] = @ + 1]
         /\ at' = [at EXCEPT ![w] = "post"]
    ELSE /\ at' = [at EXCEPT ![w] = "bury"]
         /\ UNCHANGED tries

\* The next round of the loop, or its end.
Retry(w) ==
    IF tries[w] < MaxRetries
    THEN /\ tries' = [tries EXCEPT ![w] = @ + 1]
         /\ at' = [at EXCEPT ![w] = "post"]
    ELSE /\ at' = [at EXCEPT ![w] = "bury"]
         /\ UNCHANGED tries

\* The worker returns to its channel.
Finish(w) ==
    /\ at' = [at EXCEPT ![w] = "idle"]
    /\ job' = [job EXCEPT ![w] = None]
    /\ tries' = [tries EXCEPT ![w] = 0]

\* Mutant: dispatch does not return after a 200.
GoesOnAfterSuccess(w) == Retry(w) /\ UNCHANGED job

\* 200: dispatch returns.
Delivered(w) == Finish(w)

\* handleNotify succeeds for the first time with this key.
Accept(k) ==
    /\ seen' = seen \union {k}
    /\ log' = Append(log, k)
    /\ ever' = ever \union {k}

\* A POST, after the backoff if it is not the first.  The gateway answers 200 for
\* a key it knows, otherwise 503 or 200, at random.
Answer(w) ==
    LET k == job[w] IN
    /\ at[w] = "post"
    /\ \/ k \in seen /\ Delivered(w) /\ UNCHANGED gateway
       \/ k \notin seen /\ Retry(w) /\ UNCHANGED <<job, gateway>>
       \/ k \notin seen /\ Accept(k) /\ Delivered(w)
    /\ UNCHANGED <<subscriber, queue, late, dlq, ghosts, clock, bounds>>

\* The connection is refused: no request reached the gateway.
PostFails(w) ==
    /\ at[w] = "post"
    /\ Retry(w)
    /\ UNCHANGED <<subscriber, queue, job, late, gateway, dlq, ghosts, clock, bounds>>

\* http.Client.Timeout is over, or the connection breaks; the request goes its way.
PostTimesOut(w) ==
    /\ at[w] = "post"
    /\ Retry(w)
    /\ late' = late \union {job[w]}
    /\ unanswered' = unanswered \union {job[w]}
    /\ UNCHANGED <<subscriber, queue, job, gateway, dlq, received, forgone, clock, bounds>>

\* Mutant: no LPUSH, the entry is only printed.
BuryInLog(w) ==
    /\ at[w] = "bury"
    /\ Finish(w)
    /\ UNCHANGED <<subscriber, queue, late, gateway, dlq, ghosts, clock, bounds>>

\* Mutant: an error of LPUSH ends the worker's goroutine.
BuryOrDie(w) ==
    /\ at[w] = "bury"
    /\ \/ dlq' = dlq \union {job[w]} /\ Finish(w) /\ UNCHANGED forgone
       \/ /\ forgone' = forgone \union {job[w]}
          /\ at' = [at EXCEPT ![w] = "dead"]
          /\ UNCHANGED <<dlq, job, tries>>
    /\ UNCHANGED <<subscriber, queue, late, gateway, received, unanswered, clock, bounds>>

\* LPUSH to the dead-letter list.  If it fails, or there is no Redis, the entry is
\* in the process's output only.
Bury(w) ==
    /\ at[w] = "bury"
    /\ \/ dlq' = dlq \union {job[w]} /\ UNCHANGED forgone
       \/ forgone' = forgone \union {job[w]} /\ UNCHANGED dlq
    /\ Finish(w)
    /\ UNCHANGED <<subscriber, queue, late, gateway, received, unanswered, clock, bounds>>
-------------------------------------------------------------------------------
(***************************************************************************)
(* The gateway without its client, and the lives of the processes.         *)
(***************************************************************************)

\* handleNotify for a POST whose sender has given up; a 503 or a request that never
\* arrives leaves no trace either.
HandleLate(k) ==
    /\ k \in late
    /\ late' = late \ {k}
    /\ IF k \in seen THEN UNCHANGED gateway ELSE Accept(k) \/ UNCHANGED gateway
    /\ UNCHANGED <<subscriber, queue, workers, dlq, ghosts, clock, bounds>>

\* The gateway keeps everything in memory.
RestartGateway ==
    /\ Fault
    /\ seen' = {} /\ log' = <<>> /\ late' = {}
    /\ UNCHANGED <<subscriber, queue, workers, ever, dlq, ghosts, clock, published>>

\* A service whose NATS is out of reach exits at once and is started again.
Start(r) ==
    /\ conn[r] = "down"
    /\ conn' = [conn EXCEPT ![r] = "up"]
    /\ UNCHANGED <<inbox, queue, workers, late, gateway, dlq, ghosts, clock, bounds>>

\* Messages that were still on their way are lost.
Disconnect(r) ==
    /\ conn[r] = "up"
    /\ Fault
    /\ conn' = [conn EXCEPT ![r] = "reconnecting"]
    /\ \E rest \in [Events -> 0 .. MaxPublishes] :
         /\ \A e \in Events : rest[e] <= inbox[r][e]
         /\ inbox' = [inbox EXCEPT ![r] = rest]
    /\ UNCHANGED <<queue, workers, late, gateway, dlq, ghosts, clock, published>>

\* A new connection, or none after MaxReconnects(20): the process stays, but its
\* subscriptions are closed.
EndReconnecting(r) ==
    /\ conn[r] = "reconnecting"
    /\ \/ /\ conn' = [conn EXCEPT ![r] = "up"]
          /\ UNCHANGED inbox
       \/ /\ conn' = [conn EXCEPT ![r] = "closed"]
          /\ inbox' = [inbox EXCEPT ![r] = [e \in Events |-> 0]]
    /\ UNCHANGED <<queue, workers, late, gateway, dlq, ghosts, clock, bounds>>

WorkersOf(r) == {r} \X (1 .. PoolSize)

\* The keys of the jobs a replica has taken in.
Holds(r) ==
    {queue[r][i] : i \in DOMAIN queue[r]} \union
    {job[w] : w \in {x \in WorkersOf(r) : at[x] # "idle"}}

Posted(r) == {job[w] : w \in {x \in WorkersOf(r) : at[x] = "post"}}

\* A crash, or SIGTERM: nc.Drain only starts to drain, and main returns.  Nobody
\* waits for the channel or the workers.
Exit(r) ==
    /\ conn[r] # "down"
    /\ Fault
    /\ conn' = [conn EXCEPT ![r] = "down"]
    /\ inbox' = [inbox EXCEPT ![r] = [e \in Events |-> 0]]
    /\ forgone' = forgone \union Holds(r)
    /\ \E sent \in SUBSET Posted(r) :
         late' = late \union sent /\ unanswered' = unanswered \union sent
    /\ queue' = [queue EXCEPT ![r] = <<>>]
    /\ at' = [w \in Workers |-> IF w \in WorkersOf(r) THEN "idle" ELSE at[w]]
    /\ job' = [w \in Workers |-> IF w \in WorkersOf(r) THEN None ELSE job[w]]
    /\ tries' = [w \in Workers |-> IF w \in WorkersOf(r) THEN 0 ELSE tries[w]]
    /\ UNCHANGED <<gateway, dlq, received, clock, published>>

Work(w) ==
    Take(w) \/ Answer(w) \/ PostFails(w) \/ PostTimesOut(w) \/ Bury(w)

Next ==
    \/ \E e \in Events : Publish(e)
    \/ \E r \in Replicas, e \in Events : Receive(r, e)
    \/ \E w \in Workers : Work(w)
    \/ \E k \in late : HandleLate(k)
    \/ RestartGateway
    \/ \E r \in Replicas : Start(r) \/ Disconnect(r) \/ EndReconnecting(r) \/ Exit(r)

\* Callbacks and workers go on: a POST ends after five seconds at the latest, a
\* backoff and an LPUSH end, too.
Fairness ==
    /\ \A r \in Replicas : WF_vars(\E e \in Events : Receive(r, e))
    /\ \A w \in Workers : WF_vars(Work(w))

Spec == Init /\ [][Next]_vars

FairSpec == Spec /\ Fairness
-------------------------------------------------------------------------------
(***************************************************************************)
(* Properties.                                                             *)
(***************************************************************************)

\* An event with its time in the payload is notified once by each process of the
\* gateway, however often it is sent, received, retried or answered too late, by
\* any number of replicas.
StampedNotifiedOnce ==
    \A i, j \in DOMAIN log : i < j /\ log[i][1] \in Stamped => log[i][1] # log[j][1]

\* ARCHITECTURE.md:352: duplicates are absorbed by the idempotency key: no event at
\* all is notified twice.
NotifiedOnce ==
    \A i, j \in DOMAIN log : i < j => log[i][1] # log[j][1]

\* A dead letter is a notification that was not made, unless the answer to one of
\* its POSTs never arrived or another replica had the same job.
DeadLettersWereUnsent ==
    \A k \in dlq \intersect ever : k \in unanswered \/ k[1] \in Stamped

Held == UNION {Holds(r) : r \in Replicas}

\* No job disappears: each is in a channel, with a worker, notified, a dead letter,
\* or was dropped at a full channel, by a failing LPUSH or the end of its process.
JobsAreAccountedFor ==
    received \subseteq Held \union ever \union dlq \union forgone

\* What becomes of the events, without replicas, channels and workers.
Promise == INSTANCE NotificationLedger WITH open <- Held, Recurring <- Stamped \X {0}

\* The replicas, with their channels, workers, retries and ends, and the gateway keep
\* the promise of NotificationLedger: each of their steps opens or closes jobs as it
\* allows, or does nothing to them.
ImplementsLedger == Promise!Spec

\* Messages reach their callback, and a worker always comes back to its channel,
\* whatever the gateway and Redis answer, so that every job is taken out of it.
ChannelsDrain ==
    /\ \A r \in Replicas, e \in Events : inbox[r][e] > 0 ~> inbox[r][e] = 0
    /\ \A w \in Workers : at[w] # "idle" ~> at[w] = "idle"
    /\ \A r \in Replicas : queue[r] # <<>> ~> queue[r] = <<>>
=============================================================================
