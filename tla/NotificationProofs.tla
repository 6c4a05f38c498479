-------------------------- MODULE NotificationProofs --------------------------
(***************************************************************************)
(* Proofs about Notification, for any number of replicas, workers, events  *)
(* and retries.                                                            *)
(***************************************************************************)
EXTENDS Notification, TLAPS

\* Keys as handle makes them: the stamp of an event with its time is 0.
MadeKeys == {k \in Keys : k[1] \in Stamped => k[2] = 0}

KeysAreMade ==
    /\ queue \in [Replicas -> Seq(MadeKeys)]
    /\ job \in [Workers -> MadeKeys \union {None}]
    /\ late \subseteq MadeKeys /\ seen \subseteq MadeKeys
    /\ log \in Seq(MadeKeys)

\* The gateway knows the keys it has logged, and no others.
SeenIsLogged ==
    /\ \A i \in DOMAIN log : log[i] \in seen
    /\ seen \subseteq ever

IInv == TypeOK /\ KeysAreMade /\ SeenIsLogged /\ StampedNotifiedOnce /\ JobsAreAccountedFor

\* A job in a channel, or with a worker.
InQueue(k) == \E r \in Replicas : \E i \in DOMAIN queue[r] : queue[r][i] = k

AtWorker(k) == \E w \in Workers : at[w] # "idle" /\ job[w] = k

LEMMA MadeKeyFacts ==
    /\ MadeKeys \subseteq Keys /\ None \notin MadeKeys
    /\ \A k, l \in MadeKeys : k[1] \in Stamped /\ k[1] = l[1] => k = l
BY NotificationAssumption DEF MadeKeys, Keys

LEMMA WorkersByReplica ==
    /\ \A r \in Replicas : WorkersOf(r) \subseteq Workers
    /\ \A w \in Workers : w[1] \in Replicas /\ w \in WorkersOf(w[1])
    /\ \A r \in Replicas : \A w \in WorkersOf(r) : w[1] = r
BY DEF Workers, WorkersOf

LEMMA HeldSomewhere ==
    \A k : (\E r \in Replicas : k \in Holds(r)) <=> InQueue(k) \/ AtWorker(k)
BY WorkersByReplica DEF Holds, InQueue, AtWorker

\* What JobsAreAccountedFor says of one key.
Accounted(k) == InQueue(k) \/ AtWorker(k) \/ k \in ever \union dlq \union forgone

LEMMA AccountedOneByOne ==
    JobsAreAccountedFor <=> \A k \in received : Accounted(k)
<1>1. \A k : k \in Held <=> \E r \in Replicas : k \in Holds(r)
  BY DEF Held
<1>2. \A k : k \in Held <=> InQueue(k) \/ AtWorker(k)
  BY <1>1, HeldSomewhere
<1> QED
  BY <1>2 DEF JobsAreAccountedFor, Accounted

LEMMA AccountedOneByOneNext ==
    JobsAreAccountedFor' <=> \A k \in received' : Accounted(k)'
<1>1. \A k : k \in Held' <=> \E r \in Replicas : k \in Holds(r)'
  BY DEF Held
<1>2. \A k : (\E r \in Replicas : k \in Holds(r)') <=> InQueue(k)' \/ AtWorker(k)'
  BY WorkersByReplica DEF Holds, InQueue, AtWorker
<1>3. \A k : k \in Held' <=> InQueue(k)' \/ AtWorker(k)'
  BY <1>1, <1>2
<1> QED
  BY <1>3 DEF JobsAreAccountedFor, Accounted

LEMMA InitInvariant == Init => IInv
<1> SUFFICES ASSUME Init PROVE IInv
  OBVIOUS
<1>1. TypeOK
  <2>1. 0 \in 0 .. MaxFaults /\ 0 \in 0 .. MaxPublishes /\ 0 \in 0 .. MaxRetries
    BY NotificationAssumption
  <2>2. queue \in [Replicas -> Seq(Keys)] /\ log \in Seq(Keys)
    BY DEF Init
  <2>3. \A r \in Replicas : Len(queue[r]) <= QueueSize
    BY NotificationAssumption DEF Init
  <2> QED
    BY <2>1, <2>2, <2>3 DEF Init, TypeOK
<1>2. KeysAreMade
  BY DEF Init, KeysAreMade
<1>3. SeenIsLogged /\ StampedNotifiedOnce
  BY DEF Init, SeenIsLogged, StampedNotifiedOnce
<1>4. JobsAreAccountedFor
  BY DEF Init, JobsAreAccountedFor
<1> QED
  BY <1>1, <1>2, <1>3, <1>4 DEF IInv
-------------------------------------------------------------------------------
(***************************************************************************)
(* The gateway.                                                            *)
(***************************************************************************)

GatewayOK ==
    /\ seen \subseteq MadeKeys /\ log \in Seq(MadeKeys)
    /\ seen \subseteq Keys /\ log \in Seq(Keys) /\ ever \subseteq Keys
    /\ SeenIsLogged /\ StampedNotifiedOnce

\* A key the gateway does not know is of no event with its time that it has logged.
LEMMA AcceptKeepsGateway ==
    ASSUME IInv, NEW k \in MadeKeys, k \notin seen, Accept(k)
    PROVE  GatewayOK' /\ ever \subseteq ever' /\ k \in ever'
<1>1. k \in Keys
  BY MadeKeyFacts
<1>2. /\ seen' \subseteq MadeKeys /\ log' \in Seq(MadeKeys)
      /\ seen' \subseteq Keys /\ log' \in Seq(Keys) /\ ever' \subseteq Keys
  BY <1>1 DEF IInv, TypeOK, KeysAreMade, Accept
<1>3. log \in Seq(MadeKeys)
  BY DEF IInv, KeysAreMade
<1>4. /\ DOMAIN log' = 1 .. Len(log) + 1 /\ DOMAIN log = 1 .. Len(log) /\ Len(log) \in Nat
      /\ log'[Len(log) + 1] = k /\ \A i \in 1 .. Len(log) : log'[i] = log[i]
  BY <1>3 DEF Accept
<1>5. SeenIsLogged'
  BY <1>4 DEF IInv, SeenIsLogged, Accept
<1>6. StampedNotifiedOnce'
  <2> SUFFICES ASSUME NEW i \in DOMAIN log', NEW j \in DOMAIN log',
                      i < j, log'[i][1] \in Stamped
               PROVE  log'[i][1] # log'[j][1]
    BY DEF StampedNotifiedOnce
  <2>1. i \in 1 .. Len(log) /\ log'[i] = log[i] /\ log[i] \in seen /\ log[i] \in MadeKeys
    BY <1>3, <1>4 DEF IInv, SeenIsLogged
  <2>2. CASE j = Len(log) + 1
    <3>1. log'[j] = k /\ log[i] # k
      BY <1>4, <2>1, <2>2
    <3> QED
      BY <2>1, <3>1, MadeKeyFacts
  <2>3. CASE j # Len(log) + 1
    <3>1. j \in DOMAIN log /\ log'[j] = log[j]
      BY <1>4, <2>3
    <3> QED
      BY <1>4, <2>1, <3>1 DEF IInv, StampedNotifiedOnce
  <2> QED
    BY <2>2, <2>3
<1> QED
  BY <1>2, <1>5, <1>6 DEF GatewayOK, Accept

LEMMA StillGateway ==
    ASSUME IInv, UNCHANGED gateway
    PROVE  GatewayOK' /\ ever' = ever
BY DEF IInv, TypeOK, KeysAreMade, SeenIsLogged, StampedNotifiedOnce, GatewayOK, gateway
-------------------------------------------------------------------------------
(***************************************************************************)
(* Jobs.                                                                   *)
(***************************************************************************)

\* A step that leaves channels and jobs alone and frees no worker.
LEMMA JobsStay ==
    ASSUME IInv, UNCHANGED <<queue, job, received>>,
           \A w \in Workers : at[w] # "idle" => at'[w] # "idle",
           ever \subseteq ever', dlq \subseteq dlq', forgone \subseteq forgone'
    PROVE  JobsAreAccountedFor'
<1>1. \A k : InQueue(k) => InQueue(k)'
  BY DEF InQueue
<1>2. \A k : AtWorker(k) => AtWorker(k)'
  BY DEF AtWorker
<1>3. \A k \in received : Accounted(k)
  BY AccountedOneByOne DEF IInv
<1> QED
  BY <1>1, <1>2, <1>3, AccountedOneByOneNext DEF Accounted

\* A worker that is done with a job that ended in one of the three ways.
LEMMA JobEnds ==
    ASSUME IInv, NEW w \in Workers, Finish(w), UNCHANGED <<queue, received>>,
           ever \subseteq ever', dlq \subseteq dlq', forgone \subseteq forgone',
           job[w] \in ever' \union dlq' \union forgone'
    PROVE  JobsAreAccountedFor'
<1>1. \A k : InQueue(k) => InQueue(k)'
  BY DEF InQueue
<1>2. \A x \in Workers \ {w} : at'[x] = at[x] /\ job'[x] = job[x]
  BY DEF Finish, IInv, TypeOK
<1>3. \A k : AtWorker(k) => AtWorker(k)' \/ k = job[w]
  BY <1>2 DEF AtWorker
<1>4. \A k \in received : Accounted(k)
  BY AccountedOneByOne DEF IInv
<1> QED
  BY <1>1, <1>3, <1>4, AccountedOneByOneNext DEF Accounted

\* The types of the variables of a worker after the steps of its loop.
LEMMA LoopTypes ==
    ASSUME IInv, NEW w \in Workers, at[w] # "idle",
           Finish(w) \/ (Retry(w) /\ UNCHANGED job)
    PROVE  /\ at' \in [Workers -> {"idle", "post", "bury"}]
           /\ job' \in [Workers -> Keys \union {None}]
           /\ job' \in [Workers -> MadeKeys \union {None}]
           /\ tries' \in [Workers -> 0 .. MaxRetries]
           /\ \A x \in Workers : job'[x] = None <=> at'[x] = "idle"
<1>1. /\ at \in [Workers -> {"idle", "post", "bury"}]
      /\ job \in [Workers -> Keys \union {None}]
      /\ job \in [Workers -> MadeKeys \union {None}]
      /\ tries \in [Workers -> 0 .. MaxRetries]
      /\ \A x \in Workers : job[x] = None <=> at[x] = "idle"
  BY DEF IInv, TypeOK, KeysAreMade
<1>2. CASE Finish(w)
  <2>1. 0 \in 0 .. MaxRetries
    BY NotificationAssumption
  <2> QED
    BY <1>1, <1>2, <2>1 DEF Finish
<1>3. CASE Retry(w) /\ UNCHANGED job
  <2>1. tries[w] \in 0 .. MaxRetries
    BY <1>1
  <2>2. tries[w] < MaxRetries => tries[w] + 1 \in 0 .. MaxRetries
    BY <2>1, NotificationAssumption
  <2>3. tries' \in [Workers -> 0 .. MaxRetries]
    BY <1>1, <1>3, <2>2 DEF Retry
  <2>4. at' \in [Workers -> {"idle", "post", "bury"}] /\ at'[w] # "idle"
        /\ \A x \in Workers \ {w} : at'[x] = at[x]
    BY <1>1, <1>3 DEF Retry
  <2> QED
    BY <1>1, <1>3, <2>3, <2>4
<1> QED
  BY <1>2, <1>3
-------------------------------------------------------------------------------
(***************************************************************************)
(* Every step preserves the invariant.                                     *)
(***************************************************************************)

\* A worker's step inside dispatch.
LEMMA LoopStep ==
    ASSUME IInv, NEW w \in Workers, Answer(w) \/ PostFails(w) \/ PostTimesOut(w) \/ Bury(w)
    PROVE  IInv'
<1> USE DEF subscriber, ghosts, bounds
<1> DEFINE k == job[w]
<1>1. /\ at[w] # "idle" /\ k \in MadeKeys /\ k \in Keys
      /\ UNCHANGED <<conn, inbox, queue, received, clock, published, faults>>
  BY MadeKeyFacts DEF IInv, TypeOK, KeysAreMade, Answer, PostFails, PostTimesOut, Bury
<1>2. /\ Finish(w) \/ (Retry(w) /\ UNCHANGED job)
      /\ UNCHANGED gateway \/ (Accept(k) /\ k \notin seen)
      /\ late' \subseteq late \union {k} /\ dlq \subseteq dlq' /\ dlq' \subseteq dlq \union {k}
      /\ unanswered' \subseteq unanswered \union {k}
      /\ forgone \subseteq forgone' /\ forgone' \subseteq forgone \union {k}
  BY DEF Answer, PostFails, PostTimesOut, Bury, Delivered
<1>3. GatewayOK' /\ ever \subseteq ever'
  BY <1>1, <1>2, StillGateway, AcceptKeepsGateway
<1>4. /\ at' \in [Workers -> {"idle", "post", "bury"}]
      /\ job' \in [Workers -> Keys \union {None}]
      /\ job' \in [Workers -> MadeKeys \union {None}]
      /\ tries' \in [Workers -> 0 .. MaxRetries]
      /\ \A x \in Workers : job'[x] = None <=> at'[x] = "idle"
  BY <1>1, <1>2, LoopTypes
<1>5. TypeOK'
  BY <1>1, <1>2, <1>3, <1>4 DEF IInv, TypeOK, GatewayOK
<1>6. KeysAreMade'
  BY <1>1, <1>2, <1>3, <1>4 DEF IInv, KeysAreMade, GatewayOK
<1>7. JobsAreAccountedFor'
  <2>1. CASE Finish(w)
    <3>1. k \in ever' \union dlq' \union forgone'
      <4>1. CASE Answer(w)
        <5>1. ~ Retry(w)
          BY <1>1, <2>1 DEF Retry, Finish, IInv, TypeOK
        <5>2. k \in seen \/ Accept(k)
          BY <4>1, <5>1 DEF Answer
        <5> QED
          BY <1>3, <5>2 DEF Accept, IInv, SeenIsLogged
      <4>2. CASE PostFails(w) \/ PostTimesOut(w)
        BY <4>2, <1>1, <2>1 DEF PostFails, PostTimesOut, Retry, Finish, IInv, TypeOK
      <4>3. CASE Bury(w)
        BY <4>3 DEF Bury
      <4> QED
        BY <4>1, <4>2, <4>3
    <3> QED
      BY <1>1, <1>2, <1>3, <2>1, <3>1, JobEnds
  <2>2. CASE Retry(w) /\ UNCHANGED job
    <3>1. \A x \in Workers : at[x] # "idle" => at'[x] # "idle"
      BY <2>2 DEF Retry, IInv, TypeOK
    <3> QED
      BY <1>1, <1>2, <1>3, <2>2, <3>1, JobsStay
  <2> QED
    BY <1>2, <2>1, <2>2
<1> QED
  BY <1>3, <1>5, <1>6, <1>7 DEF IInv, GatewayOK

LEMMA TakeStep ==
    ASSUME IInv, NEW w \in Workers, Take(w)
    PROVE  IInv'
<1> USE DEF subscriber, ghosts, bounds
<1> DEFINE r == w[1]
           s == queue[r]
<1>1. /\ r \in Replicas /\ s \in Seq(MadeKeys) /\ s \in Seq(Keys) /\ s # <<>> /\ at[w] = "idle"
      /\ job' = [job EXCEPT ![w] = Head(s)] /\ queue' = [queue EXCEPT ![r] = Tail(s)]
      /\ at' = [at EXCEPT ![w] = "post"]
      /\ UNCHANGED <<conn, inbox, tries, late, seen, log, ever, dlq, received, unanswered,
                     forgone, clock, published, faults>>
  BY WorkersByReplica DEF IInv, TypeOK, KeysAreMade, Take, gateway
<1>2. /\ Head(s) \in MadeKeys /\ Head(s) \in Keys /\ Head(s) # None
      /\ Tail(s) \in Seq(MadeKeys) /\ Tail(s) \in Seq(Keys)
      /\ Len(Tail(s)) = Len(s) - 1 /\ Len(s) \in Nat /\ Head(s) = s[1]
      /\ \A i \in 1 .. Len(s) - 1 : Tail(s)[i] = s[i + 1]
  BY <1>1, MadeKeyFacts
<1>3. /\ at'[w] = "post" /\ job'[w] = Head(s) /\ queue'[r] = Tail(s)
      /\ \A x \in Workers \ {w} : at'[x] = at[x] /\ job'[x] = job[x]
      /\ \A p \in Replicas \ {r} : queue'[p] = queue[p]
  BY <1>1 DEF IInv, TypeOK
<1>4. TypeOK'
  <2>1. \A p \in Replicas : Len(queue'[p]) <= QueueSize
    BY <1>1, <1>2, <1>3, NotificationAssumption DEF IInv, TypeOK
  <2>2. \A x \in Workers : job'[x] = None <=> at'[x] = "idle"
    BY <1>2, <1>3 DEF IInv, TypeOK
  <2>3. /\ queue' \in [Replicas -> Seq(Keys)]
        /\ at' \in [Workers -> {"idle", "post", "bury"}]
        /\ job' \in [Workers -> Keys \union {None}]
    BY <1>1, <1>2 DEF IInv, TypeOK
  <2> QED
    BY <1>1, <2>1, <2>2, <2>3 DEF IInv, TypeOK
<1>5. KeysAreMade'
  BY <1>1, <1>2 DEF IInv, KeysAreMade
<1>6. SeenIsLogged' /\ StampedNotifiedOnce'
  BY <1>1 DEF IInv, SeenIsLogged, StampedNotifiedOnce
<1>7. JobsAreAccountedFor'
  <2>1. ASSUME NEW k, InQueue(k) PROVE InQueue(k)' \/ AtWorker(k)'
    <3>0. PICK p \in Replicas : \E i \in DOMAIN queue[p] : queue[p][i] = k
      BY <2>1 DEF InQueue
    <3>1. PICK i \in DOMAIN queue[p] : queue[p][i] = k
      BY <3>0
    <3>2. CASE p # r
      BY <3>1, <3>2, <1>3 DEF InQueue
    <3>3. CASE p = r /\ i = 1
      BY <3>1, <3>3, <1>2, <1>3 DEF AtWorker
    <3>4. CASE p = r /\ i # 1
      <4>1. i \in 2 .. Len(s)
        BY <3>1, <3>4, <1>1
      <4>2. i - 1 \in 1 .. Len(s) - 1 /\ Tail(s)[i - 1] = k /\ i - 1 \in DOMAIN Tail(s)
        BY <4>1, <3>1, <3>4, <1>2
      <4> QED
        BY <4>2, <1>1, <1>3 DEF InQueue
    <3> QED
      BY <3>2, <3>3, <3>4
  <2>2. \A k : AtWorker(k) => AtWorker(k)'
    BY <1>1, <1>3 DEF AtWorker
  <2>3. \A k \in received : Accounted(k)
    BY AccountedOneByOne DEF IInv
  <2> QED
    BY <1>1, <2>1, <2>2, <2>3, AccountedOneByOneNext DEF Accounted
<1> QED
  BY <1>4, <1>5, <1>6, <1>7 DEF IInv

LEMMA ReceiveStep ==
    ASSUME IInv, NEW r \in Replicas, NEW e \in Events, Receive(r, e)
    PROVE  IInv'
<1> USE DEF workers, bounds, gateway
<1>2. PICK k \in MadeKeys : k = KeyOf(e)
  <2>1. clock \in Nat
    BY DEF IInv, TypeOK
  <2>2. CASE e \in Stamped
    <3>1. KeyOf(e) = <<e, 0>>
      BY <2>2 DEF KeyOf
    <3> QED
      BY <3>1 DEF MadeKeys, Keys
  <2>3. CASE e \notin Stamped
    <3>1. KeyOf(e) = <<e, clock + 1>> /\ clock + 1 \in Nat
      BY <2>1, <2>3 DEF KeyOf
    <3> QED
      BY <2>3, <3>1 DEF MadeKeys, Keys
  <2> QED
    BY <2>2, <2>3
<1> DEFINE s == queue[r]
<1>1. /\ inbox[r][e] > 0 /\ inbox' = [inbox EXCEPT ![r][e] = @ - 1]
      /\ clock' \in Nat /\ received' = received \union {k}
      /\ UNCHANGED <<conn, at, job, tries, late, seen, log, ever, dlq, unanswered, published, faults>>
  BY <1>2 DEF IInv, TypeOK, Receive
<1>9. k \in Keys
  BY <1>2, MadeKeyFacts
<1>3. inbox' \in [Replicas -> [Events -> Nat]]
  BY <1>1 DEF IInv, TypeOK
<1>4. s \in Seq(MadeKeys) /\ s \in Seq(Keys) /\ Len(s) \in Nat /\ Len(s) <= QueueSize
  BY DEF IInv, TypeOK, KeysAreMade
<1>5. /\ queue' \in [Replicas -> Seq(Keys)] /\ queue' \in [Replicas -> Seq(MadeKeys)]
      /\ \A p \in Replicas : Len(queue'[p]) <= QueueSize
      /\ forgone \subseteq forgone' /\ forgone' \subseteq Keys
      /\ \A l : InQueue(l) => InQueue(l)'
      /\ InQueue(k)' \/ k \in forgone'
  <2>1. CASE Len(s) < QueueSize
    <3>1. queue' = [queue EXCEPT ![r] = Append(s, k)] /\ forgone' = forgone
      BY <1>2, <2>1 DEF Receive
    <3>2. /\ Append(s, k) \in Seq(MadeKeys) /\ Append(s, k) \in Seq(Keys)
          /\ Len(Append(s, k)) = Len(s) + 1 /\ Append(s, k)[Len(s) + 1] = k
          /\ \A i \in 1 .. Len(s) : Append(s, k)[i] = s[i]
          /\ DOMAIN Append(s, k) = 1 .. Len(s) + 1 /\ DOMAIN s = 1 .. Len(s)
      BY <1>2, <1>4, <1>9
    <3>3. queue'[r] = Append(s, k) /\ \A p \in Replicas \ {r} : queue'[p] = queue[p]
      BY <3>1 DEF IInv, TypeOK
    <3>4. queue' \in [Replicas -> Seq(Keys)] /\ queue' \in [Replicas -> Seq(MadeKeys)]
      BY <3>1, <3>2 DEF IInv, TypeOK, KeysAreMade
    <3>5. \A p \in Replicas : Len(queue'[p]) <= QueueSize
      <4>1. Len(queue'[r]) <= QueueSize
        BY <1>4, <2>1, <3>2, <3>3, NotificationAssumption
      <4> QED
        BY <3>3, <4>1 DEF IInv, TypeOK
    <3>6. ASSUME NEW l, InQueue(l) PROVE InQueue(l)'
      <4>0. PICK p \in Replicas : \E i \in DOMAIN queue[p] : queue[p][i] = l
        BY <3>6 DEF InQueue
      <4>1. PICK i \in DOMAIN queue[p] : queue[p][i] = l
        BY <4>0
      <4>2. i \in DOMAIN queue'[p] /\ queue'[p][i] = l
        <5>1. CASE p = r
          <6>1. i \in 1 .. Len(s) /\ i \in 1 .. Len(s) + 1
            BY <4>1, <5>1, <3>2, <1>4
          <6> QED
            BY <4>1, <5>1, <6>1, <3>2, <3>3
        <5>2. CASE p # r
          BY <4>1, <5>2, <3>3
        <5> QED
          BY <5>1, <5>2
      <4> QED
        BY <4>2 DEF InQueue
    <3>7. InQueue(k)'
      <4>1. Len(s) + 1 \in DOMAIN queue'[r] /\ queue'[r][Len(s) + 1] = k
        BY <1>4, <3>2, <3>3
      <4> QED
        BY <4>1 DEF InQueue
    <3> QED
      BY <3>1, <3>4, <3>5, <3>6, <3>7 DEF IInv, TypeOK
  <2>2. CASE ~ (Len(s) < QueueSize)
    <3>1. queue' = queue /\ forgone' = forgone \union {k}
      BY <1>2, <2>2 DEF Receive
    <3> QED
      BY <3>1, <1>9 DEF IInv, TypeOK, KeysAreMade, InQueue
  <2> QED
    BY <2>1, <2>2
<1>6. TypeOK'
  BY <1>1, <1>3, <1>5, <1>9 DEF IInv, TypeOK
<1>7. KeysAreMade' /\ SeenIsLogged' /\ StampedNotifiedOnce'
  BY <1>1, <1>5 DEF IInv, KeysAreMade, SeenIsLogged, StampedNotifiedOnce
<1>8. JobsAreAccountedFor'
  <2>1. \A l : AtWorker(l) => AtWorker(l)'
    BY <1>1 DEF AtWorker
  <2>2. \A l \in received : Accounted(l)
    BY AccountedOneByOne DEF IInv
  <2> QED
    BY <1>1, <1>5, <2>1, <2>2, AccountedOneByOneNext DEF Accounted
<1> QED
  BY <1>6, <1>7, <1>8 DEF IInv

\* The end of a process: its jobs are forgone.
LEMMA ExitStep ==
    ASSUME IInv, NEW r \in Replicas, Exit(r)
    PROVE  IInv'
<1> USE DEF gateway
<1> DEFINE mine == WorkersOf(r)
<1>1. /\ conn' = [conn EXCEPT ![r] = "down"]
      /\ inbox' = [inbox EXCEPT ![r] = [e \in Events |-> 0]]
      /\ forgone' = forgone \union Holds(r)
      /\ queue' = [queue EXCEPT ![r] = <<>>]
      /\ at' = [w \in Workers |-> IF w \in mine THEN "idle" ELSE at[w]]
      /\ job' = [w \in Workers |-> IF w \in mine THEN None ELSE job[w]]
      /\ tries' = [w \in Workers |-> IF w \in mine THEN 0 ELSE tries[w]]
      /\ UNCHANGED <<seen, log, ever, dlq, received, clock, published>>
      /\ Fault
  BY DEF Exit
<1>2. PICK sent \in SUBSET Posted(r) : late' = late \union sent /\ unanswered' = unanswered \union sent
  BY DEF Exit
<1>3. Posted(r) \subseteq MadeKeys /\ Posted(r) \subseteq Keys
  BY WorkersByReplica, MadeKeyFacts DEF Posted, IInv, TypeOK, KeysAreMade
<1>4. Holds(r) \subseteq Keys
  <2>1. \A i \in DOMAIN queue[r] : queue[r][i] \in Keys
    BY DEF IInv, TypeOK
  <2>2. \A w \in mine : at[w] # "idle" => job[w] \in Keys
    BY WorkersByReplica DEF IInv, TypeOK
  <2> QED
    BY <2>1, <2>2 DEF Holds
<1>5. TypeOK'
  <2>1. /\ 0 \in 0 .. MaxRetries /\ faults' \in 0 .. MaxFaults
    BY <1>1, NotificationAssumption DEF Fault, IInv, TypeOK
  <2>2. /\ conn' \in [Replicas -> {"down", "up", "reconnecting", "closed"}]
        /\ inbox' \in [Replicas -> [Events -> Nat]]
    BY <1>1 DEF IInv, TypeOK
  <2>3. <<>> \in Seq(Keys) /\ Len(<<>>) <= QueueSize
    BY NotificationAssumption
  <2>4. /\ queue' \in [Replicas -> Seq(Keys)]
        /\ \A p \in Replicas : Len(queue'[p]) <= QueueSize
    BY <1>1, <2>3 DEF IInv, TypeOK
  <2>5. /\ at' \in [Workers -> {"idle", "post", "bury"}]
        /\ job' \in [Workers -> Keys \union {None}]
        /\ \A w \in Workers : job'[w] = None <=> at'[w] = "idle"
        /\ tries' \in [Workers -> 0 .. MaxRetries]
    BY <1>1, <2>1 DEF IInv, TypeOK
  <2> QED
    BY <1>1, <1>2, <1>3, <1>4, <2>1, <2>2, <2>4, <2>5 DEF IInv, TypeOK
<1>6. KeysAreMade'
  <2>1. <<>> \in Seq(MadeKeys)
    OBVIOUS
  <2>2. queue' \in [Replicas -> Seq(MadeKeys)] /\ job' \in [Workers -> MadeKeys \union {None}]
    BY <1>1, <2>1 DEF IInv, KeysAreMade
  <2> QED
    BY <1>1, <1>2, <1>3, <2>2 DEF IInv, KeysAreMade
<1>7. SeenIsLogged' /\ StampedNotifiedOnce'
  BY <1>1 DEF IInv, SeenIsLogged, StampedNotifiedOnce
<1>8. JobsAreAccountedFor'
  <2>1. \A k : k \in Holds(r) => Accounted(k)'
    BY <1>1 DEF Accounted
  <2>2. ASSUME NEW k, InQueue(k) PROVE InQueue(k)' \/ k \in Holds(r)
    <3>0. PICK p \in Replicas : \E i \in DOMAIN queue[p] : queue[p][i] = k
      BY <2>2 DEF InQueue
    <3>1. PICK i \in DOMAIN queue[p] : queue[p][i] = k
      BY <3>0
    <3>2. CASE p = r
      BY <3>1, <3>2 DEF Holds
    <3>3. CASE p # r
      <4>1. queue'[p] = queue[p]
        BY <1>1, <3>3 DEF IInv, TypeOK
      <4> QED
        BY <3>1, <4>1 DEF InQueue
    <3> QED
      BY <3>2, <3>3
  <2>3. ASSUME NEW k, AtWorker(k) PROVE AtWorker(k)' \/ k \in Holds(r)
    <3>1. PICK w \in Workers : at[w] # "idle" /\ job[w] = k
      BY <2>3 DEF AtWorker
    <3>2. CASE w \in mine
      BY <3>1, <3>2 DEF Holds
    <3>3. CASE w \notin mine
      <4>1. at'[w] = at[w] /\ job'[w] = job[w]
        BY <1>1, <3>3
      <4> QED
        BY <3>1, <4>1 DEF AtWorker
    <3> QED
      BY <3>2, <3>3
  <2>4. \A k \in received : Accounted(k)
    BY AccountedOneByOne DEF IInv
  <2> QED
    BY <1>1, <2>1, <2>2, <2>3, <2>4, AccountedOneByOneNext DEF Accounted
<1> QED
  BY <1>5, <1>6, <1>7, <1>8 DEF IInv

\* A step that touches neither a channel nor a worker.
LEMMA QuietStep ==
    ASSUME IInv, TypeOK', GatewayOK', late' \subseteq late, ever \subseteq ever',
           UNCHANGED <<queue, workers, dlq, received, forgone>>
    PROVE  IInv'
<1> USE DEF workers
<1>1. KeysAreMade'
  BY DEF IInv, KeysAreMade, GatewayOK
<1>2. JobsAreAccountedFor'
  BY JobsStay
<1> QED
  BY <1>1, <1>2 DEF IInv, GatewayOK

LEMMA OtherStep ==
    ASSUME IInv,
           \/ \E e \in Events : Publish(e)
           \/ \E k \in late : HandleLate(k)
           \/ RestartGateway
           \/ \E r \in Replicas : Start(r) \/ Disconnect(r) \/ EndReconnecting(r)
           \/ UNCHANGED vars
    PROVE  IInv'
<1> USE DEF subscriber, ghosts, bounds
<1>1. CASE \E k \in late : HandleLate(k)
  <2>1. PICK k \in late : HandleLate(k)
    BY <1>1
  <2>2. k \in MadeKeys
    BY <2>1 DEF IInv, KeysAreMade
  <2>3. UNCHANGED gateway \/ (k \notin seen /\ Accept(k))
    BY <2>1 DEF HandleLate
  <2>4. GatewayOK' /\ ever \subseteq ever'
    BY <2>2, <2>3, StillGateway, AcceptKeepsGateway
  <2>5. /\ late' \subseteq late
        /\ UNCHANGED <<subscriber, queue, workers, dlq, ghosts, clock, bounds>>
    BY <2>1 DEF HandleLate
  <2>6. TypeOK'
    BY <2>4, <2>5 DEF IInv, TypeOK, GatewayOK, workers
  <2> QED
    BY <2>4, <2>5, <2>6, QuietStep
<1>2. CASE RestartGateway
  <2>1. /\ seen' = {} /\ log' = <<>> /\ late' = {} /\ ever' = ever /\ Fault
        /\ UNCHANGED <<subscriber, queue, workers, dlq, ghosts, clock, published>>
    BY <1>2 DEF RestartGateway
  <2>2. GatewayOK'
    BY <2>1 DEF GatewayOK, SeenIsLogged, StampedNotifiedOnce, IInv, TypeOK
  <2>3. faults' \in 0 .. MaxFaults
    BY <2>1, NotificationAssumption DEF Fault, IInv, TypeOK
  <2>4. TypeOK'
    BY <2>1, <2>2, <2>3 DEF IInv, TypeOK, GatewayOK, workers
  <2> QED
    BY <2>1, <2>2, <2>4, QuietStep
<1>3. ASSUME UNCHANGED <<queue, workers, late, gateway, dlq, ghosts, clock>>,
             conn' \in [Replicas -> {"down", "up", "reconnecting", "closed"}],
             inbox' \in [Replicas -> [Events -> Nat]],
             published' \in 0 .. MaxPublishes, faults' \in 0 .. MaxFaults
      PROVE  IInv'
  <2>1. GatewayOK' /\ ever' = ever
    BY <1>3, StillGateway
  <2>2. TypeOK'
    BY <1>3 DEF IInv, TypeOK, gateway, workers
  <2> QED
    BY <1>3, <2>1, <2>2, QuietStep
<1>4. CASE \E e \in Events : Publish(e)
  <2>1. PICK e \in Events : Publish(e)
    BY <1>4
  <2>2. inbox' \in [Replicas -> [Events -> Nat]]
    <3>1. \A r \in Replicas : [inbox[r] EXCEPT ![e] = @ + 1] \in [Events -> Nat]
      BY <2>1 DEF IInv, TypeOK
    <3> QED
      BY <2>1, <3>1 DEF Publish, IInv, TypeOK
  <2>3. published' \in 0 .. MaxPublishes
    BY <2>1, NotificationAssumption DEF Publish, IInv, TypeOK
  <2> QED
    BY <1>3, <2>1, <2>2, <2>3 DEF Publish, IInv, TypeOK
<1>5. ASSUME NEW r \in Replicas, Start(r) PROVE IInv'
  BY <1>3, <1>5 DEF Start, IInv, TypeOK
<1>6. ASSUME NEW r \in Replicas, Disconnect(r) PROVE IInv'
  <2>1. PICK rest \in [Events -> 0 .. MaxPublishes] : inbox' = [inbox EXCEPT ![r] = rest]
    BY <1>6 DEF Disconnect
  <2>2. rest \in [Events -> Nat]
    BY NotificationAssumption
  <2>3. inbox' \in [Replicas -> [Events -> Nat]]
    BY <2>1, <2>2 DEF IInv, TypeOK
  <2>4. faults' \in 0 .. MaxFaults
    BY <1>6, NotificationAssumption DEF Disconnect, Fault, IInv, TypeOK
  <2>5. conn' \in [Replicas -> {"down", "up", "reconnecting", "closed"}]
    BY <1>6 DEF Disconnect, IInv, TypeOK
  <2>6. /\ UNCHANGED <<queue, workers, late, gateway, dlq, ghosts, clock>>
        /\ published' \in 0 .. MaxPublishes
    BY <1>6 DEF Disconnect, IInv, TypeOK
  <2> QED
    BY <1>3, <2>3, <2>4, <2>5, <2>6
<1>7. ASSUME NEW r \in Replicas, EndReconnecting(r) PROVE IInv'
  <2>1. /\ conn' \in [Replicas -> {"down", "up", "reconnecting", "closed"}]
        /\ inbox' \in [Replicas -> [Events -> Nat]]
    <3>1. [e \in Events |-> 0] \in [Events -> Nat]
      OBVIOUS
    <3>2. inbox' = inbox \/ inbox' = [inbox EXCEPT ![r] = [e \in Events |-> 0]]
      BY <1>7 DEF EndReconnecting
    <3>3. inbox' \in [Replicas -> [Events -> Nat]]
      BY <3>1, <3>2 DEF IInv, TypeOK
    <3>4. conn' \in [Replicas -> {"down", "up", "reconnecting", "closed"}]
      BY <1>7 DEF EndReconnecting, IInv, TypeOK
    <3> QED
      BY <3>3, <3>4
  <2>2. /\ UNCHANGED <<queue, workers, late, gateway, dlq, ghosts, clock>>
        /\ published' \in 0 .. MaxPublishes /\ faults' \in 0 .. MaxFaults
    BY <1>7 DEF EndReconnecting, IInv, TypeOK
  <2> QED
    BY <1>3, <2>1, <2>2
<1>8. CASE UNCHANGED vars
  BY <1>3, <1>8 DEF vars, IInv, TypeOK
<1> QED
  BY <1>1, <1>2, <1>4, <1>5, <1>6, <1>7, <1>8

LEMMA NextStep == IInv /\ [Next]_vars => IInv'
<1> SUFFICES ASSUME IInv, [Next]_vars PROVE IInv'
  OBVIOUS
<1>1. CASE \E r \in Replicas, e \in Events : Receive(r, e)
  BY <1>1, ReceiveStep
<1>2. CASE \E w \in Workers : Work(w)
  BY <1>2, TakeStep, LoopStep DEF Work
<1>3. CASE \E r \in Replicas : Exit(r)
  BY <1>3, ExitStep
<1> QED
  BY <1>1, <1>2, <1>3, OtherStep DEF Next
-------------------------------------------------------------------------------
(***************************************************************************)
(* The theorems.                                                           *)
(***************************************************************************)

\* The inductive invariant holds in every state of the replicas and the gateway.
THEOREM Invariance == Spec => []IInv
  BY InitInvariant, NextStep, PTL DEF Spec

\* Type correctness; a channel never holds more than its capacity and a worker never
\* tries more often than MaxRetries allows.
THEOREM TypeCorrect == Spec => []TypeOK
<1>1. IInv => TypeOK
  BY DEF IInv
<1> QED
  BY <1>1, Invariance, PTL

\* An event with its time in the payload is accepted once by each gateway process,
\* whatever is repeated, retried or late, and by however many replicas.
THEOREM KeysAbsorbDuplicates == Spec => []StampedNotifiedOnce
<1>1. IInv => StampedNotifiedOnce
  BY DEF IInv
<1> QED
  BY <1>1, Invariance, PTL

\* No job of any replica disappears without one of the three excuses.
THEOREM NoJobDisappears == Spec => []JobsAreAccountedFor
<1>1. IInv => JobsAreAccountedFor
  BY DEF IInv
<1> QED
  BY <1>1, Invariance, PTL
-------------------------------------------------------------------------------
(***************************************************************************)
(* Dead letters.  A key without a time in its payload belongs to one       *)
(* reception, so that at most one job has it: when its worker buries it,   *)
(* nobody else can have had it accepted.                                   *)
(***************************************************************************)

QueuedOnce ==
    \A r, s \in Replicas : \A i \in DOMAIN queue[r], j \in DOMAIN queue[s] :
        queue[r][i] = queue[s][j] /\ queue[r][i][1] \notin Stamped => r = s /\ i = j

QueuedOrTaken ==
    \A r \in Replicas, w \in Workers : \A i \in DOMAIN queue[r] :
        at[w] # "idle" /\ queue[r][i] = job[w] => job[w][1] \in Stamped

TakenOnce ==
    \A v, w \in Workers :
        at[v] # "idle" /\ at[w] # "idle" /\ job[v] = job[w] /\ job[v][1] \notin Stamped => v = w

\* A job somebody still has is no dead letter, and was not accepted unnoticed.
Open(k) == k[1] \in Stamped \/ (k \notin dlq /\ (k \in ever => k \in unanswered))

JobsAreOpen ==
    /\ \A r \in Replicas : \A i \in DOMAIN queue[r] : Open(queue[r][i])
    /\ \A w \in Workers : at[w] # "idle" => Open(job[w])

\* The stamps given so far; the next reception makes a key nobody has.
Clocked(k) == k[1] \in Stamped \/ k[2] <= clock

KeysInTime ==
    /\ \A r \in Replicas : \A i \in DOMAIN queue[r] : Clocked(queue[r][i])
    /\ \A w \in Workers : at[w] # "idle" => Clocked(job[w])
    /\ \A k \in late \union dlq \union ever : Clocked(k)

LateIsUnanswered == late \subseteq unanswered

Sole ==
    /\ QueuedOnce /\ QueuedOrTaken /\ TakenOnce
    /\ JobsAreOpen /\ KeysInTime /\ LateIsUnanswered
    /\ DeadLettersWereUnsent

LEMMA SoleInit == Init => Sole
<1> SUFFICES ASSUME Init PROVE Sole
  OBVIOUS
<1>1. /\ \A r \in Replicas : DOMAIN queue[r] = {}
      /\ \A w \in Workers : at[w] = "idle"
      /\ late = {} /\ dlq = {} /\ ever = {}
  BY DEF Init
<1> QED
  BY <1>1 DEF Sole, QueuedOnce, QueuedOrTaken, TakenOnce, JobsAreOpen, KeysInTime,
              LateIsUnanswered, DeadLettersWereUnsent

\* A step that gives nobody a job.
LEMMA FewerJobs ==
    ASSUME Sole, UNCHANGED clock,
           \A r \in Replicas : \A i \in DOMAIN queue'[r] :
               i \in DOMAIN queue[r] /\ queue'[r][i] = queue[r][i],
           \A w \in Workers : at'[w] # "idle" => at[w] # "idle" /\ job'[w] = job[w],
           \A k \in late' \union dlq' \union ever' : Clocked(k)
    PROVE  QueuedOnce' /\ QueuedOrTaken' /\ TakenOnce' /\ KeysInTime'
<1>1. QueuedOnce'
  BY DEF Sole, QueuedOnce
<1>2. QueuedOrTaken'
  BY DEF Sole, QueuedOrTaken
<1>3. TakenOnce'
  BY DEF Sole, TakenOnce
<1>4. KeysInTime'
  BY DEF Sole, KeysInTime, Clocked
<1> QED
  BY <1>1, <1>2, <1>3, <1>4

\* A worker's step inside dispatch ends its job or keeps it.
LEMMA SoleLoopStep ==
    ASSUME IInv, Sole, NEW w \in Workers,
           Answer(w) \/ PostFails(w) \/ PostTimesOut(w) \/ Bury(w)
    PROVE  Sole'
<1> USE DEF subscriber, ghosts, bounds, gateway
<1> DEFINE k == job[w]
<1>1. /\ at[w] # "idle" /\ Open(k) /\ Clocked(k)
      /\ UNCHANGED <<queue, clock>>
  BY DEF Sole, JobsAreOpen, KeysInTime, Answer, PostFails, PostTimesOut, Bury
<1>2. /\ at \in [Workers -> {"idle", "post", "bury"}]
      /\ job \in [Workers -> Keys \union {None}]
  BY DEF IInv, TypeOK
<1>3. \A x \in Workers : at'[x] # "idle" => at[x] # "idle" /\ job'[x] = job[x]
  <2>1. Finish(w) \/ (Retry(w) /\ UNCHANGED job)
    BY DEF Answer, PostFails, PostTimesOut, Bury, Delivered
  <2>2. CASE Finish(w)
    BY <1>2, <2>2 DEF Finish
  <2>3. CASE Retry(w) /\ UNCHANGED job
    BY <1>1, <1>2, <2>3 DEF Retry
  <2> QED
    BY <2>1, <2>2, <2>3
<1>4. /\ late' \subseteq late \union {k} /\ dlq' \subseteq dlq \union {k}
      /\ ever' \subseteq ever \union {k} /\ unanswered \subseteq unanswered'
      /\ late' = late \/ k \in unanswered'
  BY DEF Answer, PostFails, PostTimesOut, Bury, Accept
<1>5. QueuedOnce' /\ QueuedOrTaken' /\ TakenOnce' /\ KeysInTime'
  <2>1. \A l \in late' \union dlq' \union ever' : Clocked(l)
    BY <1>1, <1>4 DEF Sole, KeysInTime
  <2> QED
    BY <1>1, <1>3, <2>1, FewerJobs
<1>6. LateIsUnanswered'
  BY <1>4 DEF Sole, LateIsUnanswered
<1>7. CASE UNCHANGED <<dlq, ever>>
  <2>1. \A l : Open(l) => Open(l)'
    BY <1>4, <1>7 DEF Open
  <2>2. JobsAreOpen'
    BY <1>1, <1>3, <2>1 DEF Sole, JobsAreOpen
  <2>3. DeadLettersWereUnsent'
    BY <1>4, <1>7 DEF Sole, DeadLettersWereUnsent
  <2> QED
    BY <1>5, <1>6, <2>2, <2>3 DEF Sole
<1>8. CASE ~ UNCHANGED <<dlq, ever>>
  <2>1. /\ Finish(w) /\ unanswered' = unanswered
        /\ dlq' = dlq \/ ever' = ever
    BY <1>8 DEF Answer, PostFails, PostTimesOut, Bury, Delivered, Accept
  <2>2. at'[w] = "idle"
    BY <1>2, <2>1 DEF Finish
  \* Nobody else has the job.
  <2>3. \A l : Open(l) /\ (l # k \/ k[1] \in Stamped) => Open(l)'
    BY <1>4, <2>1 DEF Open
  <2>4. \A r \in Replicas : \A i \in DOMAIN queue[r] : queue[r][i] # k \/ k[1] \in Stamped
    BY <1>1 DEF Sole, QueuedOrTaken
  <2>5. \A x \in Workers \ {w} : at[x] # "idle" => job[x] # k \/ k[1] \in Stamped
    BY <1>1 DEF Sole, TakenOnce
  <2>6. JobsAreOpen'
    BY <1>1, <1>3, <2>2, <2>3, <2>4, <2>5 DEF Sole, JobsAreOpen
  <2>7. DeadLettersWereUnsent'
    BY <1>1, <1>4, <2>1 DEF Sole, DeadLettersWereUnsent, Open
  <2> QED
    BY <1>5, <1>6, <2>6, <2>7 DEF Sole
<1> QED
  BY <1>7, <1>8

\* The job moves from the channel to the worker.
LEMMA SoleTakeStep ==
    ASSUME IInv, Sole, NEW w \in Workers, Take(w)
    PROVE  Sole'
<1> USE DEF ghosts, gateway
<1> DEFINE r == w[1]
           s == queue[r]
           Old(p, i) == IF p = r THEN i + 1 ELSE i
<1>1. /\ r \in Replicas /\ s \in Seq(Keys) /\ s # <<>> /\ at[w] = "idle"
      /\ job' = [job EXCEPT ![w] = Head(s)] /\ queue' = [queue EXCEPT ![r] = Tail(s)]
      /\ at' = [at EXCEPT ![w] = "post"]
      /\ UNCHANGED <<late, ever, dlq, unanswered, clock>>
  BY WorkersByReplica DEF IInv, TypeOK, Take
<1>2. /\ Len(s) \in Nat /\ Head(s) = s[1] /\ 1 \in DOMAIN s
      /\ DOMAIN s = 1 .. Len(s) /\ DOMAIN Tail(s) = 1 .. Len(s) - 1
      /\ \A i \in 1 .. Len(s) - 1 : Tail(s)[i] = s[i + 1]
  BY <1>1
<1>3. /\ at'[w] = "post" /\ job'[w] = s[1] /\ queue'[r] = Tail(s)
      /\ \A x \in Workers \ {w} : at'[x] = at[x] /\ job'[x] = job[x]
      /\ \A p \in Replicas \ {r} : queue'[p] = queue[p]
  BY <1>1, <1>2 DEF IInv, TypeOK
<1>4. \A p \in Replicas : \A i \in DOMAIN queue'[p] :
        /\ Old(p, i) \in DOMAIN queue[p] /\ queue'[p][i] = queue[p][Old(p, i)]
        /\ p = r => Old(p, i) # 1
  <2>1. ASSUME NEW i \in DOMAIN queue'[r]
        PROVE  i + 1 \in DOMAIN s /\ queue'[r][i] = s[i + 1] /\ i + 1 # 1
    BY <1>2, <1>3
  <2> QED
    BY <1>3, <2>1
<1>5. \A p, q \in Replicas : \A i \in DOMAIN queue'[p], j \in DOMAIN queue'[q] :
        p = q /\ Old(p, i) = Old(q, j) => i = j
  <2>1. \A i, j \in DOMAIN queue'[r] : i + 1 = j + 1 => i = j
    BY <1>2, <1>3
  <2> QED
    BY <2>1
<1> HIDE DEF Old
<1>6. QueuedOnce'
  BY <1>4, <1>5 DEF Sole, QueuedOnce
<1>7. QueuedOrTaken'
  <2> SUFFICES ASSUME NEW p \in Replicas, NEW x \in Workers, NEW i \in DOMAIN queue'[p],
                      at'[x] # "idle", queue'[p][i] = job'[x]
               PROVE  job'[x][1] \in Stamped
    BY DEF QueuedOrTaken
  <2>0. /\ Old(p, i) \in DOMAIN queue[p] /\ queue[p][Old(p, i)] = job'[x]
        /\ p = r => Old(p, i) # 1
    BY <1>4
  <2>1. CASE x = w
    <3>1. /\ queue[p][Old(p, i)] = queue[r][1] /\ 1 \in DOMAIN queue[r]
          /\ job'[x] = queue[p][Old(p, i)]
      BY <1>2, <1>3, <2>0, <2>1
    <3>2. queue[p][Old(p, i)][1] \notin Stamped => p = r /\ Old(p, i) = 1
      BY <1>1, <2>0, <3>1 DEF Sole, QueuedOnce
    <3> QED
      BY <2>0, <3>1, <3>2
  <2>2. CASE x # w
    BY <1>3, <2>0, <2>2 DEF Sole, QueuedOrTaken
  <2> QED
    BY <2>1, <2>2
<1>8. TakenOnce'
  <2>1. \A x \in Workers \ {w} : at[x] # "idle" /\ job[x] = s[1] => s[1][1] \in Stamped
    BY <1>1, <1>2 DEF Sole, QueuedOrTaken
  <2> QED
    BY <1>3, <2>1 DEF Sole, TakenOnce
<1>9. JobsAreOpen'
  <2>1. \A l : Open(l) => Open(l)'
    BY <1>1 DEF Open
  <2>2. Open(s[1])
    BY <1>1, <1>2 DEF Sole, JobsAreOpen
  <2> QED
    BY <1>3, <1>4, <2>1, <2>2 DEF Sole, JobsAreOpen
<1>10. KeysInTime'
  <2>1. \A l : Clocked(l) => Clocked(l)'
    BY <1>1 DEF Clocked
  <2>2. Clocked(s[1])
    BY <1>1, <1>2 DEF Sole, KeysInTime
  <2> QED
    BY <1>1, <1>3, <1>4, <2>1, <2>2 DEF Sole, KeysInTime
<1> QED
  BY <1>1, <1>6, <1>7, <1>8, <1>9, <1>10 DEF Sole, LateIsUnanswered, DeadLettersWereUnsent

\* A reception makes a new key, if its event has no time.
LEMMA SoleReceiveStep ==
    ASSUME IInv, Sole, NEW r \in Replicas, NEW e \in Events, Receive(r, e)
    PROVE  Sole'
<1> USE DEF workers, gateway
<1>0. PICK k : k = KeyOf(e)
  OBVIOUS
<1> DEFINE s == queue[r]
           n == Len(s) + 1
           InTime(l) == l[1] \in Stamped \/ l[2] <= clock'
<1>1. /\ clock \in Nat /\ clock' \in Nat /\ clock <= clock'
      /\ UNCHANGED <<at, job, late, ever, dlq, unanswered>>
  BY DEF IInv, TypeOK, Receive
<1>2. k[1] \in Stamped \/ (~ Clocked(k) /\ k[2] = clock')
  BY <1>0, <1>1 DEF KeyOf, Receive, Clocked
<1>3. \A l \in Keys : Clocked(l) => InTime(l)
  BY <1>1 DEF Keys, Clocked
<1>4. InTime(k) /\ Open(k)'
  <2>1. InTime(k)
    BY <1>1, <1>2
  <2>2. k[1] \in Stamped \/ k \notin dlq \union ever
    BY <1>2 DEF Sole, KeysInTime
  <2>3. Open(k)'
    BY <1>1, <2>2 DEF Open
  <2> QED
    BY <2>1, <2>3
<1>5. /\ \A p \in Replicas : \A i \in DOMAIN queue[p] : queue[p][i] \in Keys
      /\ \A w \in Workers : at[w] # "idle" => job[w] \in Keys
      /\ late \union dlq \union ever \subseteq Keys
  BY DEF IInv, TypeOK
\* Nobody has the new key.
<1>6. /\ \A p \in Replicas : \A i \in DOMAIN queue[p] : queue[p][i] # k \/ k[1] \in Stamped
      /\ \A w \in Workers : at[w] # "idle" => job[w] # k \/ k[1] \in Stamped
  BY <1>2 DEF Sole, KeysInTime
\* Every job was there before, or is the new one, at the end of its channel.
<1>7. \A p \in Replicas : \A i \in DOMAIN queue'[p] :
        \/ i \in DOMAIN queue[p] /\ queue'[p][i] = queue[p][i]
        \/ p = r /\ i = n /\ queue'[p][i] = k
  <2>1. CASE Len(s) < QueueSize
    <3>1. queue' = [queue EXCEPT ![r] = Append(s, k)]
      BY <1>0, <2>1 DEF Receive
    <3>2. queue'[r] = Append(s, k) /\ \A p \in Replicas \ {r} : queue'[p] = queue[p]
      BY <3>1 DEF IInv, TypeOK
    <3>3. s \in Seq(Keys)
      BY DEF IInv, TypeOK
    <3>4. \A i \in DOMAIN Append(s, k) :
            \/ i \in DOMAIN s /\ Append(s, k)[i] = s[i]
            \/ i = n /\ Append(s, k)[i] = k
      BY <3>3
    <3> QED
      BY <3>2, <3>4
  <2>2. CASE ~ (Len(s) < QueueSize)
    BY <2>2 DEF Receive
  <2> QED
    BY <2>1, <2>2
<1> HIDE DEF n, InTime
<1>8. QueuedOnce'
  BY <1>6, <1>7 DEF Sole, QueuedOnce
<1>9. QueuedOrTaken'
  BY <1>1, <1>6, <1>7 DEF Sole, QueuedOrTaken
<1>10. JobsAreOpen'
  <2>1. \A l : Open(l) => Open(l)'
    BY <1>1 DEF Open
  <2> QED
    BY <1>1, <1>4, <1>7, <2>1 DEF Sole, JobsAreOpen, Open
<1>11. KeysInTime'
  <2>1. \A p \in Replicas : \A i \in DOMAIN queue'[p] : InTime(queue'[p][i])
    BY <1>3, <1>4, <1>5, <1>7 DEF Sole, KeysInTime
  <2>2. \A w \in Workers : at'[w] # "idle" => InTime(job'[w])
    BY <1>1, <1>3, <1>5 DEF Sole, KeysInTime
  <2>3. \A l \in late' \union dlq' \union ever' : InTime(l)
    BY <1>1, <1>3, <1>5 DEF Sole, KeysInTime
  <2> QED
    BY <2>1, <2>2, <2>3 DEF KeysInTime, Clocked, InTime
<1> QED
  BY <1>1, <1>8, <1>9, <1>10, <1>11
     DEF Sole, TakenOnce, LateIsUnanswered, DeadLettersWereUnsent

LEMMA SoleExitStep ==
    ASSUME IInv, Sole, NEW r \in Replicas, Exit(r)
    PROVE  Sole'
<1> USE DEF gateway
<1>1. /\ queue' = [queue EXCEPT ![r] = <<>>]
      /\ at' = [w \in Workers |-> IF w \in WorkersOf(r) THEN "idle" ELSE at[w]]
      /\ job' = [w \in Workers |-> IF w \in WorkersOf(r) THEN None ELSE job[w]]
      /\ UNCHANGED <<ever, dlq, clock>>
  BY DEF Exit
<1>2. PICK sent \in SUBSET Posted(r) :
        late' = late \union sent /\ unanswered' = unanswered \union sent
  BY DEF Exit
<1>3. \A k \in Posted(r) : Clocked(k)
  BY WorkersByReplica DEF Posted, Sole, KeysInTime
<1>4. \A p \in Replicas : \A i \in DOMAIN queue'[p] :
        i \in DOMAIN queue[p] /\ queue'[p][i] = queue[p][i]
  BY <1>1 DEF IInv, TypeOK
<1>5. \A w \in Workers : at'[w] # "idle" => at[w] # "idle" /\ job'[w] = job[w]
  BY <1>1
<1>6. \A k \in late' \union dlq' \union ever' : Clocked(k)
  BY <1>1, <1>2, <1>3 DEF Sole, KeysInTime
<1>7. QueuedOnce' /\ QueuedOrTaken' /\ TakenOnce' /\ KeysInTime'
  BY <1>1, <1>4, <1>5, <1>6, FewerJobs
<1>8. JobsAreOpen'
  <2>1. \A l : Open(l) => Open(l)'
    BY <1>1, <1>2 DEF Open
  <2> QED
    BY <1>4, <1>5, <2>1 DEF Sole, JobsAreOpen
<1> QED
  BY <1>1, <1>2, <1>7, <1>8 DEF Sole, LateIsUnanswered, DeadLettersWereUnsent

\* The other steps concern no job; a late POST may be accepted.
LEMMA SoleOtherStep ==
    ASSUME IInv, Sole,
           \/ \E e \in Events : Publish(e)
           \/ \E k \in late : HandleLate(k)
           \/ RestartGateway
           \/ \E r \in Replicas : Start(r) \/ Disconnect(r) \/ EndReconnecting(r)
           \/ UNCHANGED vars
    PROVE  Sole'
<1> USE DEF workers, ghosts, gateway
<1>1. /\ UNCHANGED <<queue, at, job, dlq, unanswered, clock>>
      /\ late' \subseteq late /\ ever' \subseteq ever \union late
  BY DEF Publish, HandleLate, Accept, RestartGateway, Start, Disconnect, EndReconnecting, vars
<1>2. \A l \in ever' : l \in ever \/ l \in unanswered
  BY <1>1 DEF Sole, LateIsUnanswered
<1>3. \A k \in late' \union dlq' \union ever' : Clocked(k)
  BY <1>1 DEF Sole, KeysInTime
<1>4. QueuedOnce' /\ QueuedOrTaken' /\ TakenOnce' /\ KeysInTime'
  BY <1>1, <1>3, FewerJobs
<1>5. JobsAreOpen'
  <2>1. \A l : Open(l) => Open(l)'
    BY <1>1, <1>2 DEF Open
  <2> QED
    BY <1>1, <2>1 DEF Sole, JobsAreOpen
<1>6. LateIsUnanswered' /\ DeadLettersWereUnsent'
  BY <1>1, <1>2 DEF Sole, LateIsUnanswered, DeadLettersWereUnsent
<1> QED
  BY <1>4, <1>5, <1>6 DEF Sole

LEMMA SoleNextStep == IInv /\ Sole /\ [Next]_vars => Sole'
<1> SUFFICES ASSUME IInv, Sole, [Next]_vars PROVE Sole'
  OBVIOUS
<1>1. CASE \E r \in Replicas, e \in Events : Receive(r, e)
  BY <1>1, SoleReceiveStep
<1>2. CASE \E w \in Workers : Work(w)
  BY <1>2, SoleTakeStep, SoleLoopStep DEF Work
<1>3. CASE \E r \in Replicas : Exit(r)
  BY <1>3, SoleExitStep
<1> QED
  BY <1>1, <1>2, <1>3, SoleOtherStep DEF Next

\* A dead letter was accepted by no gateway process, unless one of its POSTs was never
\* answered or other receptions share its key.
THEOREM DeadLettersAreUnsent == Spec => []DeadLettersWereUnsent
<1>1. Sole => DeadLettersWereUnsent
  BY DEF Sole
<1> QED
  BY <1>1, SoleInit, SoleNextStep, Invariance, PTL DEF Spec
-------------------------------------------------------------------------------
(***************************************************************************)
(* Every step is a step of NotificationLedger or none.                     *)
(***************************************************************************)

Ledger == <<received, Held, late, unanswered, gateway, dlq, forgone>>

HeldBy(k) == InQueue(k) \/ AtWorker(k)

LEMMA OpenJobs == \A k : k \in Held <=> HeldBy(k)
<1>1. \A k : k \in Held <=> \E r \in Replicas : k \in Holds(r)
  BY DEF Held
<1> QED BY <1>1, HeldSomewhere DEF HeldBy

LEMMA OpenJobsNext == \A k : k \in Held' <=> HeldBy(k)'
<1>1. \A k : k \in Held' <=> \E r \in Replicas : k \in Holds(r)'
  BY DEF Held
<1>2. \A k : (\E r \in Replicas : k \in Holds(r)') <=> InQueue(k)' \/ AtWorker(k)'
  BY WorkersByReplica DEF Holds, InQueue, AtWorker
<1> QED BY <1>1, <1>2 DEF HeldBy

\* A key that several jobs may have.
LEMMA StampedKeys == \A k \in MadeKeys : k[1] \in Stamped => k \in Stamped \X {0}
BY DEF MadeKeys, Keys

LEMMA HeldKeys ==
    ASSUME IInv, NEW k, HeldBy(k)
    PROVE  k \in MadeKeys
<1>1. \A r \in Replicas : \A i \in DOMAIN queue[r] : queue[r][i] \in MadeKeys
  BY DEF IInv, KeysAreMade
<1>2. \A w \in Workers : at[w] # "idle" => job[w] \in MadeKeys
  BY DEF IInv, TypeOK, KeysAreMade
<1> QED BY <1>1, <1>2 DEF HeldBy, InQueue, AtWorker

\* Nobody takes up or gives up a job.
LEMMA SameJobs ==
    ASSUME UNCHANGED <<queue, job>>, \A w \in Workers : at[w] = "idle" <=> at'[w] = "idle"
    PROVE  Held' = Held
<1>1. \A k : HeldBy(k)' <=> HeldBy(k)
  BY DEF HeldBy, InQueue, AtWorker
<1>2. \A k : k \in Held' <=> k \in Held
  BY <1>1, OpenJobs, OpenJobsNext
<1> QED BY <1>2

\* A worker that returns to its channel closes its job, and no other.
LEMMA FinishCloses ==
    ASSUME IInv, Sole, NEW w \in Workers, at[w] # "idle", Finish(w), queue' = queue
    PROVE  Promise!Close({job[w]})
<1>1. PICK k : k = job[w]
  OBVIOUS
<1>2. /\ at'[w] = "idle"
      /\ \A x \in Workers \ {w} : at'[x] = at[x] /\ job'[x] = job[x]
  BY DEF Finish, IInv, TypeOK
<1>3. HeldBy(k) /\ k \in MadeKeys
  BY <1>1, HeldKeys DEF HeldBy, AtWorker
<1>4. \A l : HeldBy(l)' => HeldBy(l)
  BY <1>2 DEF HeldBy, InQueue, AtWorker
<1>5. \A l : HeldBy(l) /\ l # k => HeldBy(l)'
  BY <1>1, <1>2 DEF HeldBy, InQueue, AtWorker
<1>6. HeldBy(k)' => k \in Stamped \X {0}
  <2>1. InQueue(k) => k[1] \in Stamped
    BY <1>1 DEF Sole, QueuedOrTaken, InQueue
  <2>2. AtWorker(k)' => k[1] \in Stamped
    BY <1>1, <1>2 DEF Sole, TakenOnce, AtWorker
  <2>3. InQueue(k)' => InQueue(k)
    BY DEF InQueue
  <2> QED BY <1>3, <2>1, <2>2, <2>3, StampedKeys DEF HeldBy
<1>7. {k} \subseteq Held /\ Held' \subseteq Held /\ Held \ {k} \subseteq Held'
  BY <1>3, <1>4, <1>5, OpenJobs, OpenJobsNext
<1>8. Held' \intersect {k} \subseteq Stamped \X {0}
  BY <1>6, OpenJobsNext
<1> QED BY <1>1, <1>7, <1>8 DEF Promise!Close

LEMMA AnswerRefines ==
    ASSUME IInv, Sole, NEW w \in Workers, Answer(w)
    PROVE  Promise!Next \/ UNCHANGED Ledger
<1>1. PICK k : k = job[w] /\ at[w] = "post"
  BY DEF Answer
<1>2. UNCHANGED <<queue, late, dlq, received, unanswered, forgone>>
  BY DEF Answer, ghosts
<1>3. CASE Finish(w) /\ ((k \in seen /\ UNCHANGED gateway) \/ (k \notin seen /\ Accept(k)))
  <2>1. Promise!Close({k})
    BY <1>1, <1>2, <1>3, FinishCloses
  <2>2. Promise!Accept(k) \/ (k \in seen /\ UNCHANGED Promise!gateway)
    BY <1>3 DEF Accept, Promise!Accept, Promise!gateway, gateway
  <2>3. k \in Held
    BY <1>1, OpenJobs DEF HeldBy, AtWorker
  <2>4. Promise!Notify(k)
    BY <1>2, <2>1, <2>2 DEF Promise!Notify
  <2> QED BY <2>3, <2>4 DEF Promise!Next
<1>4. CASE Retry(w) /\ UNCHANGED <<job, gateway>>
  <2>1. \A x \in Workers : at[x] = "idle" <=> at'[x] = "idle"
    BY <1>1, <1>4 DEF Retry, IInv, TypeOK
  <2>2. Held' = Held
    BY <1>2, <1>4, <2>1, SameJobs
  <2> QED BY <1>2, <1>4, <2>2 DEF Ledger
<1> QED BY <1>1, <1>3, <1>4 DEF Answer, Delivered

LEMMA PostRefines ==
    ASSUME IInv, NEW w \in Workers, PostFails(w) \/ PostTimesOut(w)
    PROVE  Promise!Next \/ UNCHANGED Ledger
<1>1. PICK k : k = job[w] /\ at[w] = "post"
  BY DEF PostFails, PostTimesOut
<1>2. Retry(w) /\ UNCHANGED <<queue, job, gateway, dlq, received, forgone>>
  BY DEF PostFails, PostTimesOut, ghosts
<1>3. \A x \in Workers : at[x] = "idle" <=> at'[x] = "idle"
  BY <1>1, <1>2 DEF Retry, IInv, TypeOK
<1>4. Held' = Held
  BY <1>2, <1>3, SameJobs
<1>5. CASE PostFails(w)
  BY <1>2, <1>4, <1>5 DEF PostFails, ghosts, Ledger
<1>6. CASE PostTimesOut(w)
  <2>1. k \in Held
    BY <1>1, OpenJobs DEF HeldBy, AtWorker
  <2>2. Promise!GiveUp(k)
    BY <1>1, <1>2, <1>4, <1>6, <2>1 DEF PostTimesOut, Promise!GiveUp, Promise!gateway, gateway
  <2> QED BY <2>1, <2>2 DEF Promise!Next
<1> QED BY <1>5, <1>6

LEMMA BuryRefines ==
    ASSUME IInv, Sole, NEW w \in Workers, Bury(w)
    PROVE  Promise!Next
<1>1. PICK k : k = job[w] /\ at[w] = "bury"
  BY DEF Bury
<1>2. Finish(w) /\ UNCHANGED <<queue, late, gateway, received, unanswered>>
  BY DEF Bury
<1>3. Promise!Close({k})
  BY <1>1, <1>2, FinishCloses
<1>4. k \in Held /\ k \in MadeKeys
  BY <1>1, OpenJobs, HeldKeys DEF HeldBy, AtWorker
<1>5. CASE dlq' = dlq \union {k} /\ UNCHANGED forgone
  <2>1. k \in ever => k \in unanswered \union (Stamped \X {0})
    BY <1>1, <1>4, StampedKeys DEF Sole, JobsAreOpen, Open
  <2>2. Promise!Bury(k)
    BY <1>2, <1>3, <1>5, <2>1 DEF Promise!Bury, Promise!gateway, gateway
  <2> QED BY <1>4, <2>2 DEF Promise!Next
<1>6. CASE forgone' = forgone \union {k} /\ UNCHANGED dlq
  <2>1. late' = late \union {} /\ unanswered' = unanswered \union {}
    BY <1>2
  <2>2. Promise!Drop({k}, {})
    BY <1>2, <1>3, <1>6, <2>1 DEF Promise!Drop, Promise!gateway, gateway
  <2>3. {k} \in SUBSET Held /\ {} \in SUBSET {k}
    BY <1>4
  <2> QED BY <2>2, <2>3 DEF Promise!Next
<1> QED BY <1>1, <1>5, <1>6 DEF Bury

\* The job moves from the channel to the worker.
LEMMA TakeMoves ==
    ASSUME IInv, NEW w \in Workers, Take(w)
    PROVE  Held' = Held
<1> DEFINE r == w[1]
           s == queue[r]
<1>1. /\ r \in Replicas /\ s \in Seq(Keys) /\ s # <<>> /\ at[w] = "idle"
      /\ job' = [job EXCEPT ![w] = Head(s)] /\ queue' = [queue EXCEPT ![r] = Tail(s)]
      /\ at' = [at EXCEPT ![w] = "post"]
  BY WorkersByReplica DEF IInv, TypeOK, Take
<1>2. /\ Len(s) \in Nat /\ Head(s) = s[1] /\ 1 \in DOMAIN s
      /\ DOMAIN s = 1 .. Len(s) /\ DOMAIN Tail(s) = 1 .. Len(s) - 1
      /\ \A i \in 1 .. Len(s) - 1 : Tail(s)[i] = s[i + 1]
  BY <1>1
<1>3. /\ at'[w] = "post" /\ job'[w] = s[1] /\ queue'[r] = Tail(s)
      /\ \A x \in Workers \ {w} : at'[x] = at[x] /\ job'[x] = job[x]
      /\ \A p \in Replicas \ {r} : queue'[p] = queue[p]
  BY <1>1, <1>2 DEF IInv, TypeOK
<1>4. ASSUME NEW i \in DOMAIN s, i # 1
      PROVE  i - 1 \in DOMAIN queue'[r] /\ queue'[r][i - 1] = s[i]
  <2>1. i - 1 \in 1 .. Len(s) - 1 /\ (i - 1) + 1 = i
    BY <1>2, <1>4
  <2> QED BY <1>2, <1>3, <2>1
<1>5. ASSUME NEW i \in DOMAIN queue'[r]
      PROVE  i + 1 \in DOMAIN s /\ queue'[r][i] = s[i + 1]
  BY <1>2, <1>3
<1>6. ASSUME NEW k, InQueue(k)
      PROVE  HeldBy(k)'
  <2>0. PICK p \in Replicas : \E i \in DOMAIN queue[p] : queue[p][i] = k
    BY <1>6 DEF InQueue
  <2>1. PICK i \in DOMAIN queue[p] : queue[p][i] = k
    BY <2>0
  <2>2. CASE p # r
    BY <1>3, <2>1, <2>2 DEF HeldBy, InQueue
  <2>3. CASE p = r /\ i = 1
    BY <1>3, <2>1, <2>3 DEF HeldBy, AtWorker
  <2>4. CASE p = r /\ i # 1
    BY <1>1, <1>4, <2>1, <2>4 DEF HeldBy, InQueue
  <2> QED BY <2>2, <2>3, <2>4
<1>7. ASSUME NEW k, InQueue(k)'
      PROVE  HeldBy(k)
  <2>0. PICK p \in Replicas : \E i \in DOMAIN queue'[p] : queue'[p][i] = k
    BY <1>7 DEF InQueue
  <2>1. PICK i \in DOMAIN queue'[p] : queue'[p][i] = k
    BY <2>0
  <2>2. CASE p = r
    BY <1>1, <1>5, <2>1, <2>2 DEF HeldBy, InQueue
  <2>3. CASE p # r
    BY <1>3, <2>1, <2>3 DEF HeldBy, InQueue
  <2> QED BY <2>2, <2>3
<1>8. \A k : AtWorker(k) => HeldBy(k)'
  BY <1>1, <1>3 DEF HeldBy, AtWorker
<1>9. \A k : AtWorker(k)' => HeldBy(k)
  BY <1>1, <1>2, <1>3 DEF HeldBy, AtWorker, InQueue
<1>10. \A k : HeldBy(k)' <=> HeldBy(k)
  BY <1>6, <1>7, <1>8, <1>9 DEF HeldBy
<1>11. \A k : k \in Held' <=> k \in Held
  BY <1>10, OpenJobs, OpenJobsNext
<1> QED BY <1>11

\* What was received had its stamp in time; so the next stamp is new.
ReceivedInTime == \A k \in received : Clocked(k)

LEMMA ReceiveIsNew ==
    ASSUME IInv, ReceivedInTime, NEW r \in Replicas, NEW e \in Events, Receive(r, e)
    PROVE  /\ KeyOf(e) \in received => KeyOf(e) \in Stamped \X {0}
           /\ ReceivedInTime'
<1>1. PICK k : k = KeyOf(e)
  OBVIOUS
<1>2. clock \in Nat /\ clock' \in Nat /\ clock <= clock' /\ received' = received \union {k}
  BY <1>1 DEF Receive, IInv, TypeOK
<1>3. \/ k \in Stamped \X {0} /\ k[1] \in Stamped
      \/ k[1] \notin Stamped /\ k[2] = clock + 1 /\ clock' = clock + 1
  BY <1>1 DEF KeyOf, Receive
<1>4. k \in received => k \in Stamped \X {0}
  BY <1>2, <1>3 DEF ReceivedInTime, Clocked
<1>5. \A l \in received' : Clocked(l)'
  <2>1. \A l \in received : l[2] \in Nat
    BY DEF IInv, TypeOK, Keys
  <2>2. \A l \in received : Clocked(l)'
    BY <1>2, <2>1 DEF ReceivedInTime, Clocked
  <2>3. Clocked(k)'
    BY <1>2, <1>3 DEF Clocked
  <2> QED BY <1>2, <2>2, <2>3
<1> QED BY <1>1, <1>4, <1>5 DEF ReceivedInTime

\* A job of this key is open from its reception on, or dropped.
LEMMA ReceiveMoves ==
    ASSUME IInv, NEW r \in Replicas, NEW e \in Events, Receive(r, e), NEW k, k = KeyOf(e)
    PROVE  \/ Held' = Held \union {k} /\ UNCHANGED forgone
           \/ Held' = Held /\ forgone' = forgone \union {k}
<1> DEFINE s == queue[r]
<1>1. UNCHANGED <<at, job>>
  BY DEF Receive, workers
<1>2. CASE Len(s) < QueueSize
  <2>1. queue' = [queue EXCEPT ![r] = Append(s, k)] /\ forgone' = forgone /\ s \in Seq(Keys)
    BY <1>2 DEF Receive, IInv, TypeOK
  <2>2. /\ queue'[r] = Append(s, k) /\ Len(s) \in Nat
        /\ DOMAIN s = 1 .. Len(s) /\ DOMAIN queue'[r] = 1 .. Len(s) + 1
        /\ queue'[r][Len(s) + 1] = k /\ \A i \in 1 .. Len(s) : queue'[r][i] = s[i]
        /\ \A p \in Replicas \ {r} : queue'[p] = queue[p]
    BY <2>1 DEF IInv, TypeOK
  <2>3. ASSUME NEW i \in DOMAIN s
        PROVE  i \in DOMAIN queue'[r] /\ queue'[r][i] = s[i]
    BY <2>2
  <2>4. ASSUME NEW i \in DOMAIN queue'[r]
        PROVE  (i \in DOMAIN s /\ queue'[r][i] = s[i]) \/ queue'[r][i] = k
    BY <2>2
  <2>5. Len(s) + 1 \in DOMAIN queue'[r]
    BY <2>2
  <2>6. InQueue(k)'
    BY <2>2, <2>5 DEF InQueue
  <2>7. ASSUME NEW l, InQueue(l)
        PROVE  InQueue(l)'
    <3>0. PICK p \in Replicas : \E i \in DOMAIN queue[p] : queue[p][i] = l
      BY <2>7 DEF InQueue
    <3>1. CASE p = r
      BY <2>3, <3>0, <3>1 DEF InQueue
    <3>2. CASE p # r
      BY <2>2, <3>0, <3>2 DEF InQueue
    <3> QED BY <3>1, <3>2
  <2>8. ASSUME NEW l, InQueue(l)'
        PROVE  InQueue(l) \/ l = k
    <3>0. PICK p \in Replicas : \E i \in DOMAIN queue'[p] : queue'[p][i] = l
      BY <2>8 DEF InQueue
    <3>1. CASE p = r
      BY <2>4, <3>0, <3>1 DEF InQueue
    <3>2. CASE p # r
      BY <2>2, <3>0, <3>2 DEF InQueue
    <3> QED BY <3>1, <3>2
  <2>9. \A l : AtWorker(l)' <=> AtWorker(l)
    BY <1>1 DEF AtWorker
  <2>10. \A l : HeldBy(l)' <=> HeldBy(l) \/ l = k
    BY <2>6, <2>7, <2>8, <2>9 DEF HeldBy
  <2>11. \A l : l \in Held' <=> l \in Held \union {k}
    BY <2>10, OpenJobs, OpenJobsNext
  <2>12. Held' = Held \union {k}
    BY <2>11
  <2> QED BY <2>1, <2>12
<1>3. CASE ~ (Len(s) < QueueSize)
  <2>1. queue' = queue /\ forgone' = forgone \union {k}
    BY <1>3 DEF Receive
  <2>2. Held' = Held
    BY <1>1, <2>1, SameJobs
  <2> QED BY <2>1, <2>2
<1> QED BY <1>2, <1>3

LEMMA ReceiveRefines ==
    ASSUME IInv, ReceivedInTime, NEW r \in Replicas, NEW e \in Events, Receive(r, e)
    PROVE  Promise!Next
<1>1. PICK k : k = KeyOf(e)
  OBVIOUS
<1>2. /\ k \in received => k \in Stamped \X {0}
      /\ received' = received \union {k}
      /\ UNCHANGED <<late, unanswered, gateway, dlq>>
  BY <1>1, ReceiveIsNew DEF Receive
<1>3. \/ Held' = Held \union {k} /\ UNCHANGED forgone
      \/ Held' = Held /\ forgone' = forgone \union {k}
  BY <1>1, ReceiveMoves
<1>4. Promise!Receive(k)
  BY <1>2, <1>3 DEF Promise!Receive, Promise!gateway, gateway
<1>5. k \in received'
  BY <1>2
<1> QED BY <1>4, <1>5 DEF Promise!Next

\* The jobs of a process that ends are closed; another replica may have the same.
LEMMA ExitCloses ==
    ASSUME IInv, Sole, NEW r \in Replicas, Exit(r)
    PROVE  Promise!Close(Holds(r))
<1> DEFINE mine == WorkersOf(r)
<1>1. /\ queue' = [queue EXCEPT ![r] = <<>>]
      /\ at' = [w \in Workers |-> IF w \in mine THEN "idle" ELSE at[w]]
      /\ job' = [w \in Workers |-> IF w \in mine THEN None ELSE job[w]]
  BY DEF Exit
<1>2. /\ DOMAIN queue'[r] = {} /\ \A p \in Replicas \ {r} : queue'[p] = queue[p]
      /\ \A w \in mine : w \in Workers /\ at'[w] = "idle"
      /\ \A w \in Workers \ mine : at'[w] = at[w] /\ job'[w] = job[w]
  BY <1>1, WorkersByReplica DEF IInv, TypeOK
<1> HIDE DEF mine
<1>3. \A k : k \in Holds(r) <=> \/ \E i \in DOMAIN queue[r] : queue[r][i] = k
                               \/ \E w \in mine : at[w] # "idle" /\ job[w] = k
  BY DEF Holds, mine
<1>4. \A k : InQueue(k)' <=> \E p \in Replicas \ {r} : \E i \in DOMAIN queue[p] : queue[p][i] = k
  BY <1>2 DEF InQueue
<1>5. \A k : AtWorker(k)' <=> \E w \in Workers \ mine : at[w] # "idle" /\ job[w] = k
  BY <1>2 DEF AtWorker
<1>6. \A k : k \in Holds(r) => HeldBy(k)
  BY <1>2, <1>3 DEF HeldBy, InQueue, AtWorker
<1>7. \A k : HeldBy(k)' => HeldBy(k)
  BY <1>4, <1>5 DEF HeldBy, InQueue, AtWorker
<1>8. \A k : HeldBy(k) /\ k \notin Holds(r) => HeldBy(k)'
  BY <1>3, <1>4, <1>5 DEF HeldBy, InQueue, AtWorker
<1>9. ASSUME NEW k, k \in Holds(r), HeldBy(k)'
      PROVE  k \in Stamped \X {0}
  <2>1. CASE InQueue(k)'
    <3>1. PICK p \in Replicas \ {r} : \E i \in DOMAIN queue[p] : queue[p][i] = k
      BY <1>4, <2>1
    <3>2. (\E i \in DOMAIN queue[r] : queue[r][i] = k) => k[1] \in Stamped
      BY <3>1 DEF Sole, QueuedOnce
    <3>3. (\E w \in mine : at[w] # "idle" /\ job[w] = k) => k[1] \in Stamped
      BY <1>2, <3>1 DEF Sole, QueuedOrTaken
    <3> QED BY <1>3, <1>6, <1>9, <3>2, <3>3, HeldKeys, StampedKeys
  <2>2. CASE AtWorker(k)'
    <3>1. PICK x \in Workers \ mine : at[x] # "idle" /\ job[x] = k
      BY <1>5, <2>2
    <3>2. (\E i \in DOMAIN queue[r] : queue[r][i] = k) => k[1] \in Stamped
      BY <3>1 DEF Sole, QueuedOrTaken
    <3>3. (\E w \in mine : at[w] # "idle" /\ job[w] = k) => k[1] \in Stamped
      BY <1>2, <3>1 DEF Sole, TakenOnce
    <3> QED BY <1>3, <1>6, <1>9, <3>2, <3>3, HeldKeys, StampedKeys
  <2> QED BY <1>9, <2>1, <2>2 DEF HeldBy
<1>10. /\ Holds(r) \subseteq Held /\ Held' \subseteq Held
       /\ Held \ Holds(r) \subseteq Held' /\ Held' \intersect Holds(r) \subseteq Stamped \X {0}
  BY <1>6, <1>7, <1>8, <1>9, OpenJobs, OpenJobsNext
<1> QED BY <1>10 DEF Promise!Close

LEMMA ExitRefines ==
    ASSUME IInv, Sole, NEW r \in Replicas, Exit(r)
    PROVE  Promise!Next
<1>1. PICK K : K = Holds(r)
  OBVIOUS
<1>2. PICK sent \in SUBSET Posted(r) :
        late' = late \union sent /\ unanswered' = unanswered \union sent
  BY DEF Exit
<1>3. Promise!Close(K) /\ K \subseteq Held
  BY <1>1, ExitCloses DEF Promise!Close
<1>4. Promise!Drop(K, sent)
  BY <1>1, <1>2, <1>3 DEF Exit, Promise!Drop, Promise!gateway, gateway
<1>5. sent \subseteq K
  BY <1>1, <1>2 DEF Posted, Holds
<1> QED BY <1>3, <1>4, <1>5 DEF Promise!Next

LEMMA OtherRefines ==
    ASSUME IInv,
           \/ \E e \in Events : Publish(e)
           \/ \E k \in late : HandleLate(k)
           \/ RestartGateway
           \/ \E r \in Replicas : Start(r) \/ Disconnect(r) \/ EndReconnecting(r)
           \/ UNCHANGED vars
    PROVE  Promise!Next \/ UNCHANGED Ledger
<1> USE DEF ghosts, gateway, workers, Promise!gateway
<1>1. UNCHANGED <<queue, at, job>>
  BY DEF Publish, HandleLate, RestartGateway, Start, Disconnect, EndReconnecting, vars
<1>2. Held' = Held
  BY <1>1, SameJobs
<1>3. CASE \E k \in late : HandleLate(k)
  <2>1. PICK k \in late : HandleLate(k)
    BY <1>3
  <2>2. Promise!HandleLate(k)
    BY <1>2, <2>1 DEF HandleLate, Accept, Promise!HandleLate, Promise!Accept
  <2> QED BY <2>1, <2>2 DEF Promise!Next
<1>4. CASE RestartGateway
  BY <1>2, <1>4 DEF RestartGateway, Promise!RestartGateway, Promise!Next
<1>5. CASE \/ \E e \in Events : Publish(e)
           \/ \E r \in Replicas : Start(r) \/ Disconnect(r) \/ EndReconnecting(r)
           \/ UNCHANGED vars
  BY <1>2, <1>5 DEF Publish, Start, Disconnect, EndReconnecting, vars, Ledger
<1> QED BY <1>3, <1>4, <1>5

LEMMA StepRefines ==
    ASSUME IInv, Sole, ReceivedInTime, [Next]_vars
    PROVE  Promise!Next \/ UNCHANGED Ledger
<1>1. CASE \E r \in Replicas, e \in Events : Receive(r, e)
  BY <1>1, ReceiveRefines
<1>2. ASSUME NEW w \in Workers, Take(w)
      PROVE  UNCHANGED Ledger
  BY <1>2, TakeMoves DEF Take, ghosts, gateway, Ledger
<1>3. CASE \E w \in Workers : Work(w)
  BY <1>2, <1>3, AnswerRefines, PostRefines, BuryRefines DEF Work
<1>4. CASE \E r \in Replicas : Exit(r)
  BY <1>4, ExitRefines
<1> QED BY <1>1, <1>3, <1>4, OtherRefines DEF Next

LEMMA NextInTime == IInv /\ ReceivedInTime /\ [Next]_vars => ReceivedInTime'
<1> SUFFICES ASSUME IInv, ReceivedInTime, [Next]_vars
             PROVE  ReceivedInTime'
  OBVIOUS
<1>1. CASE \E r \in Replicas, e \in Events : Receive(r, e)
  BY <1>1, ReceiveIsNew
<1>2. CASE UNCHANGED <<received, clock>>
  BY <1>2 DEF ReceivedInTime, Clocked
<1>3. CASE \E w \in Workers : Work(w)
  BY <1>2, <1>3 DEF Work, Take, Answer, PostFails, PostTimesOut, Bury, ghosts
<1> QED BY <1>1, <1>2, <1>3 DEF Next, Publish, HandleLate, RestartGateway, Start, Disconnect,
           EndReconnecting, Exit, ghosts, vars

LEMMA InitRefines == Init => Promise!Init /\ ReceivedInTime
<1> SUFFICES ASSUME Init
             PROVE  Promise!Init /\ ReceivedInTime
  OBVIOUS
<1>1. \A k : ~ HeldBy(k)
  BY DEF Init, HeldBy, InQueue, AtWorker
<1>2. Held = {}
  BY <1>1, OpenJobs
<1> QED BY <1>2 DEF Init, Promise!Init, ReceivedInTime

\* The replicas and the gateway implement NotificationLedger: whatever is queued,
\* retried, timed out, buried or lost with a process, every job is opened and closed
\* as it says, and every notification is one of an open job or of its late POST.
THEOREM Refinement == Spec => ImplementsLedger
<1>1. IInv /\ Sole /\ ReceivedInTime /\ [Next]_vars => [Promise!Next]_(Promise!vars)
  BY StepRefines DEF Ledger, Promise!vars, Promise!gateway, gateway
<1>2. Spec => []Sole
  BY SoleInit, SoleNextStep, Invariance, PTL DEF Spec
<1> QED BY <1>1, <1>2, Invariance, NextInTime, InitRefines, PTL
        DEF Spec, ImplementsLedger, Promise!Spec
-------------------------------------------------------------------------------
(***************************************************************************)
(* The way back to the channel, on which ChannelsDrain rests: the loop of  *)
(* dispatch ends.                                                          *)
(***************************************************************************)

\* The statements a worker has before it at most.
Rounds(w) ==
    IF at[w] = "idle" THEN 0 ELSE IF at[w] = "bury" THEN 1 ELSE 2 + (MaxRetries - tries[w])

Waits(w) == at'[w] = at[w] /\ job'[w] = job[w] /\ tries'[w] = tries[w]

Returns == \A w \in Workers : at[w] # "idle" => Waits(w) \/ Rounds(w)' < Rounds(w)

LEMMA RoundsAreNatural ==
    ASSUME IInv, NEW w \in Workers, at[w] # "idle"
    PROVE  Rounds(w) \in Nat /\ Rounds(w) >= 1
<1>1. tries[w] \in 0 .. MaxRetries
  BY DEF IInv, TypeOK
<1> QED BY <1>1, NotificationAssumption DEF Rounds

LEMMA WorkReturns ==
    ASSUME IInv, NEW v \in Workers, Work(v), NEW w \in Workers, at[w] # "idle"
    PROVE  Waits(w) \/ Rounds(w)' < Rounds(w)
<1>1. /\ at \in [Workers -> {"idle", "post", "bury"}]
      /\ job \in [Workers -> Keys \union {None}]
      /\ tries \in [Workers -> 0 .. MaxRetries]
  BY DEF IInv, TypeOK
<1>2. CASE Take(v)
  BY <1>1, <1>2 DEF Take, Waits
<1>3. ASSUME Finish(v)
      PROVE  Waits(w) \/ Rounds(w)' < Rounds(w)
  <2>1. CASE v = w
    <3>1. Rounds(w)' = 0
      BY <1>1, <1>3, <2>1 DEF Finish, Rounds
    <3> QED BY <3>1, RoundsAreNatural
  <2>2. CASE v # w
    BY <1>1, <1>3, <2>2 DEF Finish, Waits
  <2> QED BY <2>1, <2>2
<1>4. ASSUME Retry(v), UNCHANGED job, at[v] = "post"
      PROVE  Waits(w) \/ Rounds(w)' < Rounds(w)
  <2>1. CASE v = w
    <3>1. tries[w] \in 0 .. MaxRetries /\ MaxRetries \in Nat
      BY <1>1, NotificationAssumption
    <3>2. CASE tries[w] < MaxRetries
      <4>1. at'[w] = "post" /\ tries'[w] = tries[w] + 1
        BY <1>1, <1>4, <2>1, <3>2 DEF Retry
      <4> QED BY <1>4, <2>1, <3>1, <4>1 DEF Rounds
    <3>3. CASE ~ (tries[w] < MaxRetries)
      <4>1. at'[w] = "bury"
        BY <1>1, <1>4, <2>1, <3>3 DEF Retry
      <4> QED BY <1>4, <2>1, <3>1, <4>1 DEF Rounds
    <3> QED BY <3>2, <3>3
  <2>2. CASE v # w
    BY <1>1, <1>4, <2>2 DEF Retry, Waits
  <2> QED BY <2>1, <2>2
<1> QED BY <1>2, <1>3, <1>4 DEF Work, Answer, PostFails, PostTimesOut, Bury, Delivered

LEMMA StepReturns == IInv /\ [Next]_vars => Returns
<1> SUFFICES ASSUME IInv, [Next]_vars, NEW w \in Workers, at[w] # "idle"
             PROVE  Waits(w) \/ Rounds(w)' < Rounds(w)
  BY DEF Returns
<1>1. CASE \E v \in Workers : Work(v)
  BY <1>1, WorkReturns
<1>2. CASE \E r \in Replicas : Exit(r)
  <2>1. PICK r \in Replicas : Exit(r)
    BY <1>2
  <2>2. CASE w \in WorkersOf(r)
    <3>1. Rounds(w)' = 0
      BY <2>1, <2>2 DEF Exit, Rounds
    <3> QED BY <3>1, RoundsAreNatural
  <2>3. CASE w \notin WorkersOf(r)
    BY <2>1, <2>3 DEF Exit, Waits
  <2> QED BY <2>2, <2>3
<1>3. CASE UNCHANGED workers
  BY <1>3 DEF workers, Waits
<1> QED BY <1>1, <1>2, <1>3 DEF Next, Publish, Receive, HandleLate, RestartGateway, Start,
           Disconnect, EndReconnecting, vars

\* Whatever the gateway and Redis answer, a worker with a job comes nearer to its
\* channel with each of its steps, and nobody else's step throws it back: after at most
\* MaxRetries + 1 POSTs and one LPUSH it is there, for any number of retries.
THEOREM RetriesEnd == Spec => [][Returns]_vars
<1>1. IInv /\ [Next]_vars => [Returns]_vars
  BY StepReturns
<1> QED BY <1>1, Invariance, PTL DEF Spec
=============================================================================
