----------------------------- MODULE OutboxRelay -----------------------------
(***************************************************************************)
(* The way of an event from the outbox table of the assessment service to  *)
(* the NATS broker.  Transactions insert rows; every replica of the        *)
(* service runs one relay goroutine (internal/outbox/relay.go) that lists  *)
(* unpublished rows, hands each to its NATS client and marks it published. *)
(* All replicas poll the same table and take no lock.                      *)
(*                                                                         *)
(* The client's Publish only appends to a buffer that a flusher goroutine  *)
(* writes to the socket.  What the client does when its connection breaks  *)
(* is modelled from the options the service sets (publisher.go): it keeps  *)
(* the buffer while it reconnects, ten times, then closes for good.        *)
(*                                                                         *)
(* An event is the id of its row (BIGSERIAL: allocated by the INSERT, seen *)
(* by others only after the commit, burnt by a rollback).                  *)
(***************************************************************************)
EXTENDS Naturals, Sequences, FiniteSets

CONSTANTS MaxRows,      \* bound: rows inserted into the outbox
          Aggregates,   \* quizzes and attempts the rows are about
          Relays,       \* replicas of the service, with one relay each
          BatchSize,    \* Relay.batch: LIMIT of ListUnpublished
          BufferSize,   \* messages the client buffers while it reconnects
          MayFallBack,  \* TRUE if NATS may be down when the service starts
          MaxFaults,    \* bound: broken connections, failed marks, stops, crashes
          None          \* no aggregate yet

ASSUME RelayAssumption ==
    /\ MaxRows \in Nat /\ BatchSize \in Nat \ {0}
    /\ BufferSize \in Nat /\ MaxFaults \in Nat
    /\ MayFallBack \in BOOLEAN
    /\ None \notin Aggregates

VARIABLES status,       \* of a row: see Status
          of,           \* aggregate_id of a row
          proc,         \* the process of each replica
          conn,         \* its NATS connection
          buffer,       \* messages accepted by its client, not yet sent
          batch,        \* rows listed and not yet dealt with, by each relay
          at,           \* what each relay does next
          arrived,      \* events the broker has received
          lost,         \* events of which some handed-over message was lost
          rejected,     \* events some Publish returned an error for
          sent,         \* events each relay has handed over and not failed to mark
          faults        \* faults so far

table   == <<status, of>>
clients == <<conn, buffer>>
loop    == <<batch, at>>
fate    == <<arrived, lost, rejected, sent>>
vars    == <<table, proc, clients, loop, fate, faults>>

Ids == 1 .. MaxRows

Status == {"none", "open", "aborted", "unpublished", "published"}

Connection == {"up", "reconnecting", "draining", "closed", "noop"}

TypeOK ==
    /\ status \in [Ids -> Status]
    /\ of \in [Ids -> Aggregates \union {None}]
    /\ proc \in [Relays -> {"down", "running", "stopping"}]
    /\ conn \in [Relays -> Connection]
    /\ buffer \in [Relays -> Seq(Ids)]
    /\ batch \in [Relays -> SUBSET Ids]
    /\ at \in [Relays -> {"list", "publish", "mark"}]
    /\ \A r \in Relays : at[r] = "list" <=> batch[r] = {}
    /\ arrived \subseteq Ids /\ lost \subseteq Ids /\ rejected \subseteq Ids
    /\ sent \in [Relays -> SUBSET Ids]
    /\ faults \in 0 .. MaxFaults

Init ==
    /\ status = [i \in Ids |-> "none"]
    /\ of = [i \in Ids |-> None]
    /\ proc = [r \in Relays |-> "down"]
    /\ conn = [r \in Relays |-> "closed"]
    /\ buffer = [r \in Relays |-> <<>>]
    /\ batch = [r \in Relays |-> {}]
    /\ at = [r \in Relays |-> "list"]
    /\ arrived = {} /\ lost = {} /\ rejected = {}
    /\ sent = [r \in Relays |-> {}]
    /\ faults = 0

Fault == faults < MaxFaults /\ faults' = faults + 1
-------------------------------------------------------------------------------
(***************************************************************************)
(* The transactions of the handlers.                                       *)
(***************************************************************************)

\* Mutant: a transaction inserts the event before it touches the aggregate.
NoRowLock(g) == TRUE

\* Every transaction first writes the row of its quiz or attempt, so that no other
\* open transaction about it has inserted an event.
HoldsRowLock(g) == \A i \in Ids : status[i] = "open" => of[i] # g

InsertRow(g) ==
    /\ HoldsRowLock(g)
    /\ \E i \in Ids :
         /\ \A j \in Ids : status[j] = "none" <=> j >= i
         /\ status' = [status EXCEPT ![i] = "open"]
         /\ of' = [of EXCEPT ![i] = g]
    /\ UNCHANGED <<proc, clients, loop, fate, faults>>

EndTransaction(i) ==
    /\ status[i] = "open"
    /\ \E end \in {"unpublished", "aborted"} : status' = [status EXCEPT ![i] = end]
    /\ UNCHANGED <<of, proc, clients, loop, fate, faults>>
-------------------------------------------------------------------------------
(***************************************************************************)
(* The relay loop.                                                         *)
(***************************************************************************)

First(S) == CHOOSE i \in S : \A j \in S : i <= j

\* Mutant: ORDER BY id DESC LIMIT n.
Newest(S, n) == {i \in S : Cardinality({j \in S : j > i}) < n}

\* ORDER BY id LIMIT n.
Oldest(S, n) == {i \in S : Cardinality({j \in S : j < i}) < n}

\* Mutant: WHERE published_at IS NULL is forgotten.
Committed == {i \in Ids : status[i] \in {"unpublished", "published"}}

\* Mutant: a row is tried once only.
UnpublishedUntried == {i \in Ids : status[i] = "unpublished" /\ i \notin rejected}

\* WHERE published_at IS NULL.
Unpublished == {i \in Ids : status[i] = "unpublished"}

\* A tick: flush lists a batch.  A failing or empty list changes nothing.
List(r) ==
    /\ proc[r] = "running" /\ at[r] = "list"
    /\ Unpublished # {}
    /\ batch' = [batch EXCEPT ![r] = Oldest(Unpublished, BatchSize)]
    /\ at' = [at EXCEPT ![r] = "publish"]
    /\ UNCHANGED <<table, proc, clients, fate, faults>>

\* Mutant: the loop over the batch does not end.
AdvanceForever(r, e) ==
    /\ batch' = [batch EXCEPT ![r] = @ \ {e}]
    /\ at' = [at EXCEPT ![r] = "publish"]

\* The next entry of the batch, after e.
Advance(r, e) ==
    /\ batch' = [batch EXCEPT ![r] = @ \ {e}]
    /\ at' = [at EXCEPT ![r] = IF batch[r] \ {e} = {} THEN "list" ELSE "publish"]

\* nc.Publish returns nil while the connection is up, while it drains until it is
\* closed, and while it reconnects until the buffer is full.
Accepts(r) ==
    \/ conn[r] \in {"up", "draining"}
    \/ conn[r] = "reconnecting" /\ Len(buffer[r]) < BufferSize

Refuses(r) ==
    \/ conn[r] \in {"closed", "draining"}
    \/ conn[r] = "reconnecting" /\ Len(buffer[r]) >= BufferSize

\* The publisher hands the event to the client, or to nobody if it is the noop.
Publish(r) ==
    LET e == First(batch[r]) IN
    /\ proc[r] # "down" /\ at[r] = "publish"
    /\ \/ /\ Accepts(r)
          /\ buffer' = [buffer EXCEPT ![r] = Append(@, e)]
          /\ lost' = lost
       \/ /\ conn[r] = "noop"
          /\ lost' = lost \union {e}
          /\ UNCHANGED buffer
    /\ sent' = [sent EXCEPT ![r] = @ \union {e}]
    /\ at' = [at EXCEPT ![r] = "mark"]
    /\ UNCHANGED <<table, proc, conn, batch, arrived, rejected, faults>>

\* "leave unpublished; next tick retries"
PublishFails(r) ==
    LET e == First(batch[r]) IN
    /\ proc[r] # "down" /\ at[r] = "publish"
    /\ Refuses(r)
    /\ rejected' = rejected \union {e}
    /\ Advance(r, e)
    /\ UNCHANGED <<table, proc, clients, arrived, lost, sent, faults>>

MarkPublished(r) ==
    LET e == First(batch[r]) IN
    /\ proc[r] = "running" /\ at[r] = "mark"
    /\ status' = [status EXCEPT ![e] = "published"]
    /\ Advance(r, e)
    /\ UNCHANGED <<of, proc, clients, fate, faults>>

\* The UPDATE fails: the database is out of reach, or the context is cancelled
\* because the service is stopping.  It is only logged.
MarkFails(r) ==
    LET e == First(batch[r]) IN
    /\ proc[r] # "down" /\ at[r] = "mark"
    /\ IF proc[r] = "stopping" THEN UNCHANGED faults ELSE Fault
    /\ sent' = [sent EXCEPT ![r] = @ \ {e}]
    /\ Advance(r, e)
    /\ UNCHANGED <<table, proc, clients, arrived, lost, rejected>>
-------------------------------------------------------------------------------
(***************************************************************************)
(* The NATS client.                                                        *)
(***************************************************************************)

\* The flusher writes the oldest buffered message and the broker receives it.
Flush(r) ==
    /\ conn[r] \in {"up", "draining"} /\ buffer[r] # <<>>
    /\ arrived' = arrived \union {Head(buffer[r])}
    /\ buffer' = [buffer EXCEPT ![r] = Tail(@)]
    /\ UNCHANGED <<table, proc, conn, loop, lost, rejected, sent, faults>>

Messages(s, n) == {s[k] : k \in 1 .. n}

\* The connection breaks: the n messages that were already written to the socket
\* are lost, the others wait for the next connection.
Disconnect(r) ==
    /\ conn[r] = "up"
    /\ Fault
    /\ \E n \in 0 .. Len(buffer[r]) :
         /\ lost' = lost \union Messages(buffer[r], n)
         /\ buffer' = [buffer EXCEPT ![r] = SubSeq(@, n + 1, Len(@))]
    /\ conn' = [conn EXCEPT ![r] = "reconnecting"]
    /\ UNCHANGED <<table, proc, loop, arrived, rejected, sent>>

\* The client drops what it still holds.
Discard(r) ==
    /\ lost' = lost \union Messages(buffer[r], Len(buffer[r]))
    /\ buffer' = [buffer EXCEPT ![r] = <<>>]

\* A new connection, or none after MaxReconnects(10) attempts.
EndReconnecting(r) ==
    /\ conn[r] = "reconnecting"
    /\ \/ /\ conn' = [conn EXCEPT ![r] = "up"]
          /\ UNCHANGED <<buffer, lost>>
       \/ /\ conn' = [conn EXCEPT ![r] = "closed"]
          /\ Discard(r)
    /\ UNCHANGED <<table, proc, loop, arrived, rejected, sent, faults>>

\* Drain ends: the buffer is empty, or the connection broke meanwhile.
EndDraining(r) ==
    /\ conn[r] = "draining"
    /\ conn' = [conn EXCEPT ![r] = "closed"]
    /\ Discard(r)
    /\ UNCHANGED <<table, proc, loop, arrived, rejected, sent, faults>>
-------------------------------------------------------------------------------
(***************************************************************************)
(* The life of a replica.                                                  *)
(***************************************************************************)

\* If NATS cannot be reached now, the noop publisher takes its place until the end
\* of the process.
Start(r) ==
    /\ proc[r] = "down"
    /\ proc' = [proc EXCEPT ![r] = "running"]
    /\ \/ conn' = [conn EXCEPT ![r] = "up"]
       \/ MayFallBack /\ conn' = [conn EXCEPT ![r] = "noop"]
    /\ UNCHANGED <<table, buffer, loop, fate, faults>>

\* SIGTERM: the context is cancelled, so that no further batch is listed and no
\* row is marked, and natsPub.Close drains the client (a client that reconnects is
\* closed instead).  A flush under way goes on with its batch.
Stop(r) ==
    /\ proc[r] = "running"
    /\ Fault
    /\ proc' = [proc EXCEPT ![r] = "stopping"]
    /\ CASE conn[r] = "up" ->
              conn' = [conn EXCEPT ![r] = "draining"] /\ UNCHANGED <<buffer, lost>>
         [] conn[r] = "reconnecting" ->
              conn' = [conn EXCEPT ![r] = "closed"] /\ Discard(r)
         [] OTHER -> UNCHANGED <<conn, buffer, lost>>
    /\ UNCHANGED <<table, loop, arrived, rejected, sent>>

\* The process ends: a crash, or the end of main while it was stopping, which waits
\* for the gRPC server but neither for the relay nor for the client.
Exit(r) ==
    /\ proc[r] # "down"
    /\ IF proc[r] = "stopping" THEN UNCHANGED faults ELSE Fault
    /\ proc' = [proc EXCEPT ![r] = "down"]
    /\ conn' = [conn EXCEPT ![r] = "closed"]
    /\ Discard(r)
    /\ sent' = [sent EXCEPT ![r] = IF at[r] = "mark" THEN @ \ {First(batch[r])} ELSE @]
    /\ batch' = [batch EXCEPT ![r] = {}]
    /\ at' = [at EXCEPT ![r] = "list"]
    /\ UNCHANGED <<table, arrived, rejected>>

Relay(r) == List(r) \/ Publish(r) \/ PublishFails(r) \/ MarkPublished(r) \/ MarkFails(r)

Client(r) == Flush(r) \/ EndReconnecting(r) \/ EndDraining(r)

Life(r) == Start(r) \/ Stop(r) \/ Exit(r)

Next ==
    \/ \E g \in Aggregates : InsertRow(g)
    \/ \E i \in Ids : EndTransaction(i)
    \/ \E r \in Relays : Relay(r) \/ Client(r) \/ Disconnect(r) \/ Life(r)

\* The ticker and the loop over the batch go on; the flusher runs; reconnecting
\* ends one way or the other; a stopped replica ends and a dead one is restarted by
\* its supervisor.  Nothing makes a transaction, a stop or a fault happen.
Fairness ==
    \A r \in Relays :
        /\ WF_vars(Relay(r))
        /\ WF_vars(Flush(r))
        /\ WF_vars(EndReconnecting(r)) /\ WF_vars(EndDraining(r))
        /\ WF_vars(Start(r))
        /\ WF_vars(proc[r] = "stopping" /\ Exit(r))

Spec == Init /\ [][Next]_vars

FairSpec == Spec /\ Fairness
-------------------------------------------------------------------------------
(***************************************************************************)
(* Properties.                                                             *)
(***************************************************************************)

Buffered == UNION {Messages(buffer[r], Len(buffer[r])) : r \in Relays}

HandedOver == arrived \union Buffered \union lost

\* What the consumers of the events see of all this.
Delivery == INSTANCE EventDelivery WITH
    about    <- [i \in Ids |-> IF i \in Committed THEN of[i] ELSE None],
    underway <- Buffered,
    refused  <- rejected,
    marked   <- {i \in Ids : status[i] = "published"}

\* The relays, with their stale batches, broken connections and crashes, keep the
\* promise of EventDelivery: each of their steps is one change of the fate of an
\* event, or of the messages of one client, or none.
ImplementsDelivery == Delivery!Spec

\* An event of a transaction that has not committed never leaves the database.
OnlyCommittedLeave ==
    HandedOver \union rejected \subseteq Committed

\* A row is marked only when its event was handed over: it is at the broker, still
\* in a client's buffer, or was lost on the way from there.
MarkedWasHandedOver ==
    \A i \in Ids : status[i] = "published" => i \in HandedOver

\* Two events of one quiz or attempt are handed over in the order of their
\* transactions, by however many relays, unless a Publish of the earlier failed:
\* the relay goes on with the batch and lets the later one overtake it.
HandedOverInOrder ==
    \A i, j \in Ids :
        i < j /\ of[i] = of[j] /\ i \in Committed /\ j \in HandedOver =>
            i \in HandedOver \union rejected

\* A relay, whether restarted or not, hands over an event again only if it could not
\* mark it after the last time: an event is sent at most once by each relay, and
\* once more for each failed mark.
ResendsAreExcused ==
    \A r \in Relays : at[r] = "publish" => First(batch[r]) \notin sent[r]

\* Every relay runs with a client that has given up: nothing but a restart of the
\* service sends any event then.
GivenUp == \A r \in Relays : proc[r] = "running" /\ conn[r] = "closed"

\* Every committed event eventually reaches the broker, unless a message with it
\* was lost or all clients have given up.
EventuallyOut ==
    \A i \in Ids : i \in Committed ~> i \in arrived \union lost \/ GivenUp

\* ARCHITECTURE.md:551: a row whose event was not published stays unpublished, and
\* is retried.
MarkedIsDelivered ==
    \A i \in Ids : status[i] = "published" => i \in arrived \union Buffered
=============================================================================
