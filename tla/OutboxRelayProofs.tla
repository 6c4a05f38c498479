-------------------------- MODULE OutboxRelayProofs --------------------------
(***************************************************************************)
(* Proofs about OutboxRelay, for any number of replicas, rows and          *)
(* aggregates, any batch and buffer size and any number of faults.         *)
(***************************************************************************)
EXTENDS OutboxRelay, FiniteSetTheorems, WellFoundedInduction, TLAPS

\* A nonempty set of row ids has a first one.
LEMMA FirstIsLeast ==
    ASSUME NEW S \in SUBSET Ids, S # {}
    PROVE  /\ First(S) \in S
           /\ First(S) \in Ids
           /\ \A j \in S : First(S) <= j
<1>1. Ids \subseteq Nat
  BY RelayAssumption DEF Ids
<1>2. PICK i \in S : \A j \in S : ~ (<<j, i>> \in OpToRel(<, Nat))
  BY <1>1, NatLessThanWellFounded, WFMin
<1>3. \A j \in S : i <= j
  <2> SUFFICES ASSUME NEW j \in S PROVE i <= j
    OBVIOUS
  <2>1. <<j, i>> \in Nat \X Nat
    BY <1>1
  <2>2. ~ (j < i)
    BY <1>2, <2>1 DEF OpToRel
  <2> QED
    BY <2>2, <1>1
<1> QED
  BY <1>3 DEF First

\* LIMIT keeps the older of two rows if it keeps the younger.
LEMMA OldestIsPrefix ==
    ASSUME NEW S \in SUBSET Ids, NEW i \in S, NEW j \in Oldest(S, BatchSize), i < j
    PROVE  i \in Oldest(S, BatchSize)
<1> DEFINE Before(k) == {x \in S : x < k}
<1>1. IsFiniteSet(Ids)
  BY FS_Interval, RelayAssumption DEF Ids
<1>2. j \in S /\ Cardinality(Before(j)) < BatchSize
  BY DEF Oldest
<1>3. Before(i) \subseteq Before(j)
  <2>1. Ids \subseteq Nat
    BY RelayAssumption DEF Ids
  <2>2. \A x \in S : x < i => x < j
    BY <1>2, <2>1
  <2> QED
    BY <2>2
<1>4. IsFiniteSet(Before(i)) /\ IsFiniteSet(Before(j))
  BY <1>1, FS_Subset
<1>5. Cardinality(Before(i)) <= Cardinality(Before(j))
  BY <1>3, <1>4, FS_Subset
<1>6. Cardinality(Before(i)) \in Nat /\ Cardinality(Before(j)) \in Nat
  BY <1>4, FS_CardinalityType
<1>7. Cardinality(Before(i)) < BatchSize
  BY <1>2, <1>5, <1>6, RelayAssumption
<1> QED
  BY <1>7 DEF Oldest

\* What a queue of messages holds, message by message.
LEMMA MessagesOf ==
    ASSUME NEW s \in Seq(Ids)
    PROVE  /\ Messages(s, Len(s)) \subseteq Ids
           /\ \A e \in Ids : /\ Append(s, e) \in Seq(Ids)
                             /\ Messages(Append(s, e), Len(Append(s, e)))
                                  = Messages(s, Len(s)) \union {e}
<1>1. Messages(s, Len(s)) \subseteq Ids
  BY DEF Messages
<1>2. ASSUME NEW e \in Ids
      PROVE  Messages(Append(s, e), Len(Append(s, e))) = Messages(s, Len(s)) \union {e}
  <2> DEFINE t == Append(s, e)
  <2>1. Len(t) = Len(s) + 1 /\ t[Len(s) + 1] = e /\ \A k \in 1 .. Len(s) : t[k] = s[k]
    OBVIOUS
  <2>2. Messages(t, Len(t)) \subseteq Messages(s, Len(s)) \union {e}
    BY <2>1 DEF Messages
  <2>3. Messages(s, Len(s)) \union {e} \subseteq Messages(t, Len(t))
    BY <2>1 DEF Messages
  <2> QED
    BY <2>2, <2>3
<1> QED
  BY <1>1, <1>2

\* Cutting a queue after n messages loses none.
LEMMA MessagesSplit ==
    ASSUME NEW s \in Seq(Ids), NEW n \in 0 .. Len(s)
    PROVE  /\ SubSeq(s, n + 1, Len(s)) \in Seq(Ids)
           /\ Messages(s, Len(s)) =
                Messages(s, n) \union Messages(SubSeq(s, n + 1, Len(s)), Len(s) - n)
           /\ Len(SubSeq(s, n + 1, Len(s))) = Len(s) - n
<1> DEFINE t == SubSeq(s, n + 1, Len(s))
<1>1. t \in Seq(Ids) /\ Len(t) = Len(s) - n
  OBVIOUS
<1>2. \A k \in 1 .. Len(s) - n : t[k] = s[k + n]
  OBVIOUS
<1>3. Messages(s, n) \subseteq Messages(s, Len(s))
  BY DEF Messages
<1>4. Messages(t, Len(s) - n) \subseteq Messages(s, Len(s))
  BY <1>2 DEF Messages
<1>5. Messages(s, Len(s)) \subseteq Messages(s, n) \union Messages(t, Len(s) - n)
  <2> SUFFICES ASSUME NEW k \in 1 .. Len(s)
               PROVE  s[k] \in Messages(s, n) \union Messages(t, Len(s) - n)
    BY DEF Messages
  <2>1. CASE k <= n
    BY <2>1 DEF Messages
  <2>2. CASE k > n
    <3>1. k - n \in 1 .. Len(s) - n /\ t[k - n] = s[k]
      BY <2>2, <1>2
    <3> QED
      BY <3>1 DEF Messages
  <2> QED
    BY <2>1, <2>2
<1> QED
  BY <1>1, <1>3, <1>4, <1>5
-------------------------------------------------------------------------------
(***************************************************************************)
(* The inductive invariant.                                                *)
(***************************************************************************)

\* Relays list committed rows only.
BatchesAreCommitted == \A r \in Relays : batch[r] \subseteq Committed

\* What a relay is about to mark was handed over.
MarksFollow == \A r \in Relays : at[r] = "mark" => First(batch[r]) \in HandedOver

\* The event of an open transaction is the latest of its aggregate.
OpenIsLatest ==
    \A i \in Ids :
        /\ status[i] = "none" <=> of[i] = None
        /\ status[i] = "open" => \A j \in Ids : of[j] = of[i] => j <= i

\* A batch leaves out no earlier event of an aggregate, unless that was dealt with.
BatchesAreComplete ==
    \A r \in Relays : \A j \in batch[r], i \in Committed :
        i < j /\ of[i] = of[j] => i \in batch[r] \union HandedOver \union rejected

\* An event a relay sent is not in the rest of its batch, and is published or about
\* to be marked.
SentIsPast ==
    \A r \in Relays : \A i \in sent[r] :
        /\ i \in batch[r] => at[r] = "mark" /\ i = First(batch[r])
        /\ status[i] = "published" \/ (at[r] = "mark" /\ i = First(batch[r]))

IInv ==
    /\ TypeOK
    /\ BatchesAreCommitted /\ OnlyCommittedLeave
    /\ MarksFollow /\ MarkedWasHandedOver
    /\ OpenIsLatest /\ BatchesAreComplete /\ HandedOverInOrder
    /\ SentIsPast

LEMMA InitInvariant == Init => IInv
<1> SUFFICES ASSUME Init PROVE IInv
  OBVIOUS
<1>1. TypeOK
  <2>1. 0 \in 0 .. MaxFaults
    BY RelayAssumption
  <2>2. buffer \in [Relays -> Seq(Ids)]
    BY DEF Init
  <2> QED
    BY <2>1, <2>2 DEF Init, TypeOK, Status, Connection
<1>2. Committed = {}
  BY DEF Init, Committed
<1>3. HandedOver = {}
  BY DEF Init, HandedOver, Buffered, Messages
<1>4. OpenIsLatest
  BY DEF Init, OpenIsLatest
<1>5. MarkedWasHandedOver /\ MarksFollow
  BY DEF Init, MarkedWasHandedOver, MarksFollow
<1> QED
  BY <1>1, <1>2, <1>3, <1>4, <1>5
     DEF IInv, Init, BatchesAreCommitted, OnlyCommittedLeave, BatchesAreComplete,
         HandedOverInOrder, SentIsPast
-------------------------------------------------------------------------------
(***************************************************************************)
(* How steps change the set of events that were handed over.               *)
(***************************************************************************)

\* A change of one client's buffer changes what is buffered by that alone.
LEMMA OneBuffer ==
    ASSUME TypeOK, NEW r \in Relays, NEW b \in Seq(Ids),
           buffer' = [buffer EXCEPT ![r] = b]
    PROVE  \E rest \in SUBSET Ids :
             /\ Buffered = rest \union Messages(buffer[r], Len(buffer[r]))
             /\ Buffered' = rest \union Messages(b, Len(b))
<1> DEFINE rest == UNION {Messages(buffer[p], Len(buffer[p])) : p \in Relays \ {r}}
<1>1. \A p \in Relays : Messages(buffer[p], Len(buffer[p])) \subseteq Ids
  BY MessagesOf DEF TypeOK
<1>2. rest \in SUBSET Ids
  BY <1>1
<1>3. Buffered = rest \union Messages(buffer[r], Len(buffer[r]))
  BY DEF Buffered
<1>4. buffer'[r] = b /\ \A p \in Relays \ {r} : buffer'[p] = buffer[p]
  BY DEF TypeOK
<1>5. Buffered' = rest \union Messages(b, Len(b))
  BY <1>4 DEF Buffered
<1> QED
  BY <1>2, <1>3, <1>5

\* A client that drops its buffer loses what was in it.
LEMMA DiscardKeepsHandedOver ==
    ASSUME TypeOK, NEW r \in Relays, Discard(r), arrived' = arrived
    PROVE  /\ HandedOver' = HandedOver
           /\ lost' \subseteq Ids
           /\ buffer' \in [Relays -> Seq(Ids)]
<1>1. buffer[r] \in Seq(Ids) /\ <<>> \in Seq(Ids)
  BY DEF TypeOK
<1>2. PICK rest \in SUBSET Ids :
        /\ Buffered = rest \union Messages(buffer[r], Len(buffer[r]))
        /\ Buffered' = rest \union Messages(<<>>, Len(<<>>))
  BY <1>1, OneBuffer DEF Discard
<1>3. Messages(<<>>, Len(<<>>)) = {}
  BY DEF Messages
<1>4. Messages(buffer[r], Len(buffer[r])) \subseteq Ids
  BY <1>1, MessagesOf
<1> QED
  BY <1>1, <1>2, <1>3, <1>4 DEF HandedOver, Discard, TypeOK

LEMMA FlushKeepsHandedOver ==
    ASSUME TypeOK, NEW r \in Relays, Flush(r)
    PROVE  /\ HandedOver' = HandedOver
           /\ arrived' \subseteq Ids
           /\ buffer' \in [Relays -> Seq(Ids)]
<1> DEFINE s == buffer[r]
<1>1. s \in Seq(Ids) /\ s # <<>> /\ Len(s) \in Nat /\ Len(s) >= 1
  BY DEF TypeOK, Flush
<1>2. 1 \in 0 .. Len(s) /\ Tail(s) = SubSeq(s, 1 + 1, Len(s)) /\ Head(s) = s[1] /\ s[1] \in Ids
  BY <1>1
<1>3. /\ Tail(s) \in Seq(Ids) /\ Len(Tail(s)) = Len(s) - 1
      /\ Messages(s, Len(s)) = Messages(s, 1) \union Messages(Tail(s), Len(Tail(s)))
  <2>1. /\ SubSeq(s, 1 + 1, Len(s)) \in Seq(Ids)
        /\ Messages(s, Len(s)) =
             Messages(s, 1) \union Messages(SubSeq(s, 1 + 1, Len(s)), Len(s) - 1)
        /\ Len(SubSeq(s, 1 + 1, Len(s))) = Len(s) - 1
    BY <1>1, <1>2, MessagesSplit
  <2> QED
    BY <2>1, <1>2
<1>4. Messages(s, 1) = {Head(s)}
  BY <1>2 DEF Messages
<1>5. buffer' = [buffer EXCEPT ![r] = Tail(s)]
  BY DEF Flush
<1>6. PICK rest \in SUBSET Ids :
        /\ Buffered = rest \union Messages(s, Len(s))
        /\ Buffered' = rest \union Messages(Tail(s), Len(Tail(s)))
  BY <1>3, <1>5, OneBuffer
<1>7. arrived' = arrived \union {Head(s)} /\ lost' = lost
  BY DEF Flush
<1> QED
  BY <1>2, <1>3, <1>4, <1>5, <1>6, <1>7 DEF HandedOver, TypeOK

LEMMA DisconnectKeepsHandedOver ==
    ASSUME TypeOK, NEW r \in Relays, Disconnect(r)
    PROVE  /\ HandedOver' = HandedOver
           /\ lost' \subseteq Ids
           /\ buffer' \in [Relays -> Seq(Ids)]
<1> DEFINE s == buffer[r]
<1>1. s \in Seq(Ids)
  BY DEF TypeOK
<1>2. PICK n \in 0 .. Len(s) : /\ lost' = lost \union Messages(s, n)
                               /\ buffer' = [buffer EXCEPT ![r] = SubSeq(s, n + 1, Len(s))]
  BY DEF Disconnect
<1> DEFINE t == SubSeq(s, n + 1, Len(s))
<1>3. /\ t \in Seq(Ids)
      /\ Messages(s, Len(s)) = Messages(s, n) \union Messages(t, Len(t))
  BY <1>1, MessagesSplit
<1>4. PICK rest \in SUBSET Ids : /\ Buffered = rest \union Messages(s, Len(s))
                                 /\ Buffered' = rest \union Messages(t, Len(t))
  BY <1>2, <1>3, OneBuffer
<1>5. Messages(s, Len(s)) \subseteq Ids
  BY <1>1, MessagesOf
<1>6. arrived' = arrived
  BY DEF Disconnect
<1> QED
  BY <1>2, <1>3, <1>4, <1>5, <1>6 DEF HandedOver, TypeOK

LEMMA PublishHandsOver ==
    ASSUME TypeOK, NEW r \in Relays, Publish(r)
    PROVE  /\ First(batch[r]) \in batch[r] /\ First(batch[r]) \in Ids
           /\ HandedOver' = HandedOver \union {First(batch[r])}
           /\ lost' \subseteq Ids
           /\ buffer' \in [Relays -> Seq(Ids)]
<1> DEFINE e == First(batch[r])
           s == buffer[r]
<1>1. e \in batch[r] /\ e \in Ids
  BY FirstIsLeast DEF TypeOK, Publish
<1>2. s \in Seq(Ids) /\ arrived' = arrived
  BY DEF TypeOK, Publish
<1>3. CASE buffer' = [buffer EXCEPT ![r] = Append(s, e)] /\ lost' = lost
  <2>1. /\ Append(s, e) \in Seq(Ids)
        /\ Messages(Append(s, e), Len(Append(s, e))) = Messages(s, Len(s)) \union {e}
    BY <1>1, <1>2, MessagesOf
  <2>2. PICK rest \in SUBSET Ids :
          /\ Buffered = rest \union Messages(s, Len(s))
          /\ Buffered' = rest \union Messages(Append(s, e), Len(Append(s, e)))
    BY <1>3, <2>1, OneBuffer
  <2> QED
    BY <1>1, <1>2, <1>3, <2>1, <2>2 DEF HandedOver, TypeOK
<1>4. CASE UNCHANGED buffer /\ lost' = lost \union {e}
  <2>1. Buffered' = Buffered
    BY <1>4 DEF Buffered
  <2> QED
    BY <1>1, <1>2, <1>4, <2>1 DEF HandedOver, TypeOK
<1> QED
  BY <1>1, <1>3, <1>4 DEF Publish
-------------------------------------------------------------------------------
(***************************************************************************)
(* Every step preserves the invariant.                                     *)
(***************************************************************************)

\* A step of a client or of the life of a replica that hands over nothing.
LEMMA QuietStep ==
    ASSUME IInv, TypeOK', HandedOver' = HandedOver,
           UNCHANGED <<table, loop, rejected, sent>>
    PROVE  IInv'
<1> USE DEF table, loop
<1>1. Committed' = Committed
  BY DEF Committed
<1>2. BatchesAreCommitted' /\ OnlyCommittedLeave' /\ MarksFollow' /\ MarkedWasHandedOver'
  BY <1>1 DEF IInv, BatchesAreCommitted, OnlyCommittedLeave, MarksFollow, MarkedWasHandedOver
<1>3. OpenIsLatest' /\ SentIsPast'
  BY DEF IInv, OpenIsLatest, SentIsPast
<1>4. BatchesAreComplete' /\ HandedOverInOrder'
  BY <1>1 DEF IInv, BatchesAreComplete, HandedOverInOrder
<1> QED
  BY <1>2, <1>3, <1>4 DEF IInv

LEMMA ClientStep ==
    ASSUME IInv, NEW r \in Relays,
           Client(r) \/ Disconnect(r) \/ Start(r) \/ Stop(r)
    PROVE  IInv'
<1> USE DEF table, loop, fate, clients
<1>1. TypeOK
  BY DEF IInv
<1>2. CASE Flush(r)
  <2>1. HandedOver' = HandedOver /\ TypeOK'
    BY <1>1, <1>2, FlushKeepsHandedOver DEF TypeOK, Flush
  <2> QED
    BY <1>2, <2>1, QuietStep DEF Flush
<1>3. CASE Disconnect(r)
  <2>1. HandedOver' = HandedOver /\ lost' \subseteq Ids /\ buffer' \in [Relays -> Seq(Ids)]
    BY <1>1, <1>3, DisconnectKeepsHandedOver
  <2>2. conn' \in [Relays -> Connection] /\ faults' \in 0 .. MaxFaults
    BY <1>1, <1>3, RelayAssumption DEF TypeOK, Disconnect, Connection, Fault
  <2>3. TypeOK'
    BY <1>1, <1>3, <2>1, <2>2 DEF TypeOK, Disconnect
  <2> QED
    BY <1>3, <2>1, <2>3, QuietStep DEF Disconnect
<1>4. ASSUME UNCHANGED <<arrived, lost, buffer>>
      PROVE  HandedOver' = HandedOver /\ lost' \subseteq Ids /\ buffer' \in [Relays -> Seq(Ids)]
  BY <1>1, <1>4 DEF TypeOK, HandedOver, Buffered
<1>5. CASE EndReconnecting(r)
  <2>1. HandedOver' = HandedOver /\ lost' \subseteq Ids /\ buffer' \in [Relays -> Seq(Ids)]
    BY <1>1, <1>4, <1>5, DiscardKeepsHandedOver DEF EndReconnecting
  <2>2. conn' \in [Relays -> Connection]
    BY <1>1, <1>5 DEF TypeOK, EndReconnecting, Connection
  <2>3. TypeOK'
    BY <1>1, <1>5, <2>1, <2>2 DEF TypeOK, EndReconnecting
  <2> QED
    BY <1>5, <2>1, <2>3, QuietStep DEF EndReconnecting
<1>6. CASE EndDraining(r)
  <2>1. HandedOver' = HandedOver /\ lost' \subseteq Ids /\ buffer' \in [Relays -> Seq(Ids)]
    BY <1>1, <1>6, DiscardKeepsHandedOver DEF EndDraining
  <2>2. conn' \in [Relays -> Connection]
    BY <1>1, <1>6 DEF TypeOK, EndDraining, Connection
  <2>3. TypeOK'
    BY <1>1, <1>6, <2>1, <2>2 DEF TypeOK, EndDraining
  <2> QED
    BY <1>6, <2>1, <2>3, QuietStep DEF EndDraining
<1>7. CASE Start(r)
  <2>1. HandedOver' = HandedOver
    BY <1>4, <1>7 DEF Start
  <2>2. conn' \in [Relays -> Connection] /\ proc' \in [Relays -> {"down", "running", "stopping"}]
    BY <1>1, <1>7 DEF TypeOK, Start, Connection
  <2>3. TypeOK'
    BY <1>1, <1>7, <2>2 DEF TypeOK, Start
  <2> QED
    BY <1>7, <2>1, <2>3, QuietStep DEF Start
<1>8. CASE Stop(r)
  <2>1. /\ UNCHANGED <<arrived, table, loop, rejected, sent>>
        /\ UNCHANGED <<buffer, lost>> \/ Discard(r)
        /\ conn' \in [Relays -> Connection]
    BY <1>1, <1>8 DEF Stop, TypeOK, Connection
  <2>2. HandedOver' = HandedOver /\ lost' \subseteq Ids /\ buffer' \in [Relays -> Seq(Ids)]
    BY <1>1, <1>4, <2>1, DiscardKeepsHandedOver
  <2>3. /\ proc' \in [Relays -> {"down", "running", "stopping"}]
        /\ faults' \in 0 .. MaxFaults
    BY <1>1, <1>8, RelayAssumption DEF TypeOK, Stop, Fault
  <2>4. TypeOK'
    BY <1>1, <2>1, <2>2, <2>3 DEF TypeOK
  <2> QED
    BY <2>1, <2>2, <2>4, QuietStep
<1> QED
  BY <1>2, <1>3, <1>5, <1>6, <1>7, <1>8 DEF Client

LEMMA InsertStep ==
    ASSUME IInv, NEW g \in Aggregates, InsertRow(g)
    PROVE  IInv'
<1> USE DEF loop, fate, clients
<1>1. PICK i \in Ids : /\ \A j \in Ids : status[j] = "none" <=> j >= i
                       /\ status' = [status EXCEPT ![i] = "open"]
                       /\ of' = [of EXCEPT ![i] = g]
  BY DEF InsertRow
<1>2. /\ TypeOK /\ HoldsRowLock(g)
      /\ UNCHANGED <<proc, conn, buffer, batch, at, arrived, lost, rejected, sent, faults>>
  BY DEF IInv, InsertRow
<1>3. HandedOver' = HandedOver
  BY <1>2 DEF HandedOver, Buffered
<1>4. status[i] = "none" /\ i \in Nat /\ Ids \subseteq Nat /\ None \notin Aggregates
  BY <1>1, RelayAssumption DEF Ids
<1>5. /\ status'[i] = "open" /\ of'[i] = g
      /\ \A j \in Ids \ {i} : status'[j] = status[j] /\ of'[j] = of[j]
  BY <1>1, <1>2 DEF TypeOK
<1>6. Committed' = Committed /\ i \notin Committed
  BY <1>4, <1>5 DEF Committed
<1>7. TypeOK'
  BY <1>1, <1>2 DEF TypeOK, Status
<1>8. BatchesAreCommitted' /\ OnlyCommittedLeave' /\ MarksFollow' /\ MarkedWasHandedOver'
  BY <1>2, <1>3, <1>5, <1>6
     DEF IInv, BatchesAreCommitted, OnlyCommittedLeave, MarksFollow, MarkedWasHandedOver
<1>9. OpenIsLatest'
  <2> SUFFICES ASSUME NEW k \in Ids
               PROVE  /\ status'[k] = "none" <=> of'[k] = None
                      /\ status'[k] = "open" => \A j \in Ids : of'[j] = of'[k] => j <= k
    BY DEF OpenIsLatest
  <2>1. CASE k = i
    <3>1. \A j \in Ids : j > i => of'[j] = None
      BY <1>1, <1>4, <1>5 DEF IInv, OpenIsLatest
    <3>2. \A j \in Ids : of'[j] = g => j <= i
      BY <3>1, <1>4
    <3> QED
      BY <2>1, <3>2, <1>4, <1>5
  <2>2. CASE k # i
    <3>1. status'[k] = status[k] /\ of'[k] = of[k]
      BY <2>2, <1>5
    <3>2. status[k] = "open" => of[k] # g
      BY <1>2 DEF HoldsRowLock
    <3> QED
      BY <3>1, <3>2, <1>5 DEF IInv, OpenIsLatest
  <2> QED
    BY <2>1, <2>2
<1>10. BatchesAreComplete'
  <2>1. \A r \in Relays : i \notin batch[r]
    BY <1>6 DEF IInv, BatchesAreCommitted
  <2>2. \A r \in Relays : batch[r] \subseteq Ids
    BY <1>2 DEF TypeOK
  <2> QED
    BY <1>2, <1>3, <1>5, <1>6, <2>1, <2>2 DEF IInv, BatchesAreComplete, Committed
<1>11. HandedOverInOrder'
  <2>1. i \notin HandedOver
    BY <1>6 DEF IInv, OnlyCommittedLeave
  <2> QED
    BY <1>2, <1>3, <1>5, <1>6, <2>1 DEF IInv, HandedOverInOrder
<1>12. SentIsPast'
  BY <1>2, <1>4, <1>5 DEF IInv, SentIsPast, TypeOK
<1> QED
  BY <1>7, <1>8, <1>9, <1>10, <1>11, <1>12 DEF IInv

LEMMA EndTransactionStep ==
    ASSUME IInv, NEW i \in Ids, EndTransaction(i)
    PROVE  IInv'
<1> USE DEF loop, fate, clients
<1>1. PICK end \in {"unpublished", "aborted"} : status' = [status EXCEPT ![i] = end]
  BY DEF EndTransaction
<1>2. /\ TypeOK /\ status[i] = "open"
      /\ UNCHANGED <<of, proc, conn, buffer, batch, at, arrived, lost, rejected, sent, faults>>
  BY DEF IInv, EndTransaction
<1>3. HandedOver' = HandedOver
  BY <1>2 DEF HandedOver, Buffered
<1>4. /\ status'[i] = end
      /\ \A j \in Ids \ {i} : status'[j] = status[j]
  BY <1>1, <1>2 DEF TypeOK
<1>5. Committed \subseteq Committed' /\ Committed' \subseteq Committed \union {i} /\ i \notin Committed
  BY <1>2, <1>4 DEF Committed
<1>6. TypeOK'
  BY <1>1, <1>2 DEF TypeOK, Status
<1>7. BatchesAreCommitted' /\ OnlyCommittedLeave' /\ MarksFollow' /\ MarkedWasHandedOver'
  BY <1>2, <1>3, <1>4, <1>5
     DEF IInv, BatchesAreCommitted, OnlyCommittedLeave, MarksFollow, MarkedWasHandedOver
<1>8. OpenIsLatest'
  BY <1>2, <1>4 DEF IInv, OpenIsLatest
\* A later event of its aggregate can neither be handed over nor in a batch.
<1>9. \A j \in Ids : i < j => of[j] # of[i]
  <2>1. Ids \subseteq Nat
    BY RelayAssumption DEF Ids
  <2> QED
    BY <1>2, <2>1 DEF IInv, OpenIsLatest
<1>10. BatchesAreComplete'
  <2>1. \A r \in Relays : batch[r] \subseteq Ids
    BY <1>2 DEF TypeOK
  <2> QED
    BY <1>2, <1>3, <1>5, <1>9, <2>1 DEF IInv, BatchesAreComplete
<1>11. HandedOverInOrder'
  BY <1>2, <1>3, <1>5, <1>9 DEF IInv, HandedOverInOrder
<1>12. SentIsPast'
  BY <1>2, <1>4 DEF IInv, SentIsPast, TypeOK
<1> QED
  BY <1>6, <1>7, <1>8, <1>10, <1>11, <1>12 DEF IInv

LEMMA ListStep ==
    ASSUME IInv, NEW r \in Relays, List(r)
    PROVE  IInv'
<1> USE DEF table, fate, clients
<1>1. /\ TypeOK /\ at[r] = "list" /\ batch[r] = {}
      /\ batch' = [batch EXCEPT ![r] = Oldest(Unpublished, BatchSize)]
      /\ at' = [at EXCEPT ![r] = "publish"]
      /\ UNCHANGED <<status, of, proc, conn, buffer, arrived, lost, rejected, sent, faults>>
  BY DEF IInv, List, TypeOK
<1>2. HandedOver' = HandedOver /\ Committed' = Committed
  BY <1>1 DEF HandedOver, Buffered, Committed
<1> DEFINE new == Oldest(Unpublished, BatchSize)
<1>3. Unpublished \in SUBSET Ids /\ Unpublished \subseteq Committed
  BY DEF Unpublished, Committed
<1>4. new \subseteq Unpublished
  BY DEF Oldest
<1>5. new # {}
  <2>1. /\ First(Unpublished) \in Unpublished
        /\ \A j \in Unpublished : First(Unpublished) <= j
    BY <1>3, FirstIsLeast DEF List
  <2>2. {j \in Unpublished : j < First(Unpublished)} = {}
    <3>1. Unpublished \subseteq Nat
      BY <1>3, RelayAssumption DEF Ids
    <3>2. First(Unpublished) \in Nat
      BY <2>1, <3>1
    <3>3. ASSUME NEW j \in Unpublished PROVE ~ (j < First(Unpublished))
      <4>1. j \in Nat /\ First(Unpublished) <= j
        BY <2>1, <3>1
      <4> QED
        BY <3>2, <4>1
    <3> QED
      BY <3>3
  <2>3. Cardinality({}) = 0
    BY FS_EmptySet
  <2> QED
    BY <2>1, <2>2, <2>3, RelayAssumption DEF Oldest
<1>6. /\ batch'[r] = new /\ at'[r] = "publish"
      /\ \A p \in Relays \ {r} : batch'[p] = batch[p] /\ at'[p] = at[p]
  BY <1>1 DEF TypeOK
<1>7. TypeOK'
  <2>1. /\ batch' \in [Relays -> SUBSET Ids]
        /\ at' \in [Relays -> {"list", "publish", "mark"}]
    BY <1>1, <1>3, <1>4 DEF TypeOK
  <2>2. \A p \in Relays : at'[p] = "list" <=> batch'[p] = {}
    BY <1>1, <1>5, <1>6 DEF TypeOK
  <2> QED
    BY <1>1, <2>1, <2>2 DEF TypeOK
<1>8. BatchesAreCommitted' /\ OnlyCommittedLeave' /\ MarksFollow' /\ MarkedWasHandedOver'
  BY <1>1, <1>2, <1>3, <1>4, <1>6
     DEF IInv, BatchesAreCommitted, OnlyCommittedLeave, MarksFollow, MarkedWasHandedOver
<1>9. OpenIsLatest' /\ HandedOverInOrder'
  BY <1>1, <1>2 DEF IInv, OpenIsLatest, HandedOverInOrder
<1>10. BatchesAreComplete'
  <2> SUFFICES ASSUME NEW p \in Relays, NEW j \in batch'[p], NEW i \in Committed,
                      i < j, of[i] = of[j]
               PROVE  i \in batch'[p] \union HandedOver \union rejected
    BY <1>1, <1>2 DEF BatchesAreComplete
  <2>1. CASE p # r
    BY <2>1, <1>6 DEF IInv, BatchesAreComplete
  <2>2. CASE p = r
    <3>1. j \in new
      BY <2>2, <1>6
    <3>2. CASE status[i] = "published"
      BY <3>2 DEF IInv, MarkedWasHandedOver, Committed
    <3>3. CASE status[i] = "unpublished"
      <4>1. i \in Unpublished
        BY <3>3 DEF Unpublished, Committed
      <4>2. i \in new
        BY <4>1, <3>1, <1>3, OldestIsPrefix
      <4> QED
        BY <4>2, <2>2, <1>6
    <3> QED
      BY <3>2, <3>3 DEF Committed
  <2> QED
    BY <2>1, <2>2
<1>11. SentIsPast'
  <2> SUFFICES ASSUME NEW p \in Relays, NEW i \in sent[p]
               PROVE  /\ i \in batch'[p] => at'[p] = "mark" /\ i = First(batch'[p])
                      /\ status[i] = "published" \/ (at'[p] = "mark" /\ i = First(batch'[p]))
    BY <1>1 DEF SentIsPast
  <2>1. CASE p # r
    <3>1. batch'[p] = batch[p] /\ at'[p] = at[p]
      BY <2>1, <1>6
    <3> QED
      BY <3>1 DEF IInv, SentIsPast
  <2>2. CASE p = r
    <3>1. status[i] = "published"
      BY <2>2, <1>1 DEF IInv, SentIsPast
    <3>2. i \notin new
      BY <3>1, <1>4 DEF Unpublished
    <3> QED
      BY <3>1, <3>2, <2>2, <1>6
  <2> QED
    BY <2>1, <2>2
<1> QED
  BY <1>7, <1>8, <1>9, <1>10, <1>11 DEF IInv

\* A relay that goes on with its batch after an event that was dealt with.
LEMMA AdvanceStep ==
    ASSUME IInv, NEW r \in Relays, at[r] # "list",
           Advance(r, First(batch[r])),
           First(batch[r]) \in HandedOver \union rejected',
           HandedOver' = HandedOver, rejected \subseteq rejected',
           Committed' = Committed, of' = of, sent' \in [Relays -> SUBSET Ids],
           \A i \in Ids : status[i] = "published" => status'[i] = "published",
           \A p \in Relays : sent'[p] \subseteq sent[p],
           First(batch[r]) \in sent'[r] => status'[First(batch[r])] = "published"
    PROVE  /\ batch' \in [Relays -> SUBSET Ids]
           /\ at' \in [Relays -> {"list", "publish", "mark"}]
           /\ \A p \in Relays : at'[p] = "list" <=> batch'[p] = {}
           /\ BatchesAreCommitted' /\ MarksFollow' /\ BatchesAreComplete'
           /\ SentIsPast'
<1> DEFINE e == First(batch[r])
           next == IF batch[r] \ {e} = {} THEN "list" ELSE "publish"
<1>1. TypeOK
  BY DEF IInv
<1>2. e \in batch[r] /\ e \in Ids
  BY <1>1, FirstIsLeast DEF TypeOK
<1>3. batch' = [batch EXCEPT ![r] = @ \ {e}] /\ at' = [at EXCEPT ![r] = next]
  BY DEF Advance
<1>4. /\ batch'[r] = batch[r] \ {e} /\ at'[r] = next
      /\ \A p \in Relays \ {r} : batch'[p] = batch[p] /\ at'[p] = at[p]
  BY <1>1, <1>3 DEF TypeOK
<1>5. /\ batch' \in [Relays -> SUBSET Ids]
      /\ at' \in [Relays -> {"list", "publish", "mark"}]
  BY <1>1, <1>3 DEF TypeOK
<1>6. \A p \in Relays : at'[p] = "list" <=> batch'[p] = {}
  BY <1>1, <1>4 DEF TypeOK
<1>7. BatchesAreCommitted'
  BY <1>4 DEF IInv, BatchesAreCommitted
<1>8. MarksFollow'
  <2> SUFFICES ASSUME NEW p \in Relays, at'[p] = "mark"
               PROVE  First(batch'[p]) \in HandedOver
    BY DEF MarksFollow
  <2>1. batch'[p] = batch[p] /\ at[p] = "mark"
    BY <1>4
  <2> QED
    BY <2>1 DEF IInv, MarksFollow
<1>9. BatchesAreComplete'
  <2> SUFFICES ASSUME NEW p \in Relays, NEW j \in batch'[p], NEW i \in Committed,
                      i < j, of[i] = of[j]
               PROVE  i \in batch'[p] \union HandedOver \union rejected'
    BY DEF BatchesAreComplete
  <2>1. j \in batch[p] /\ batch[p] \subseteq batch'[p] \union {e}
    BY <1>4
  <2>2. i \in batch[p] \union HandedOver \union rejected
    BY <2>1 DEF IInv, BatchesAreComplete
  <2> QED
    BY <1>4, <2>1, <2>2
<1>10. SentIsPast'
  <2> SUFFICES ASSUME NEW p \in Relays, NEW i \in sent'[p]
               PROVE  /\ i \in batch'[p] => at'[p] = "mark" /\ i = First(batch'[p])
                      /\ status'[i] = "published" \/ (at'[p] = "mark" /\ i = First(batch'[p]))
    BY DEF SentIsPast
  <2>1. i \in sent[p] /\ i \in Ids
    BY <1>1 DEF TypeOK
  <2>2. CASE p # r
    <3>1. batch'[p] = batch[p] /\ at'[p] = at[p]
      BY <2>2, <1>4
    <3> QED
      BY <2>1, <3>1 DEF IInv, SentIsPast
  <2>3. CASE p = r /\ i = e
    BY <2>3, <1>4
  <2>4. CASE p = r /\ i # e
    <3>1. status[i] = "published" /\ i \notin batch[r]
      BY <2>1, <2>4 DEF IInv, SentIsPast
    <3> QED
      BY <2>1, <2>4, <3>1, <1>4
  <2> QED
    BY <2>2, <2>3, <2>4
<1> QED
  BY <1>5, <1>6, <1>7, <1>8, <1>9, <1>10

LEMMA PublishStep ==
    ASSUME IInv, NEW r \in Relays, Publish(r)
    PROVE  IInv'
<1> USE DEF table
<1> DEFINE e == First(batch[r])
<1>1. /\ TypeOK /\ at[r] = "publish"
      /\ sent' = [sent EXCEPT ![r] = @ \union {e}]
      /\ at' = [at EXCEPT ![r] = "mark"]
      /\ UNCHANGED <<status, of, proc, conn, batch, arrived, rejected, faults>>
  BY DEF IInv, Publish
<1>2. /\ e \in batch[r] /\ e \in Ids
      /\ HandedOver' = HandedOver \union {e}
      /\ lost' \subseteq Ids
      /\ buffer' \in [Relays -> Seq(Ids)]
  BY <1>1, PublishHandsOver
<1>3. /\ at'[r] = "mark" /\ sent'[r] = sent[r] \union {e}
      /\ \A p \in Relays \ {r} : at'[p] = at[p] /\ sent'[p] = sent[p]
  BY <1>1 DEF TypeOK
<1>4. Committed' = Committed /\ e \in Committed
  BY <1>1, <1>2 DEF IInv, BatchesAreCommitted, Committed
<1>5. TypeOK'
  <2>1. \A p \in Relays : at'[p] = "list" <=> batch'[p] = {}
    BY <1>1, <1>3 DEF TypeOK
  <2>2. /\ at' \in [Relays -> {"list", "publish", "mark"}]
        /\ sent' \in [Relays -> SUBSET Ids]
    BY <1>1, <1>2 DEF TypeOK
  <2> QED
    BY <1>1, <1>2, <2>1, <2>2 DEF TypeOK
<1>6. BatchesAreCommitted' /\ OnlyCommittedLeave' /\ MarkedWasHandedOver' /\ OpenIsLatest'
  BY <1>1, <1>2, <1>4
     DEF IInv, BatchesAreCommitted, OnlyCommittedLeave, MarkedWasHandedOver, OpenIsLatest
<1>7. MarksFollow'
  BY <1>1, <1>2, <1>3 DEF IInv, MarksFollow
<1>8. BatchesAreComplete'
  BY <1>1, <1>2, <1>4 DEF IInv, BatchesAreComplete
\* The batch holds no earlier event than e, so that those of its aggregate are out.
<1>9. HandedOverInOrder'
  <2>1. \A i \in Committed : i < e /\ of[i] = of[e] => i \in HandedOver \union rejected
    <3>1. \A i \in batch[r] : ~ (i < e)
      <4>1. batch[r] \subseteq Nat /\ e \in Nat
        BY <1>1, <1>2, RelayAssumption DEF TypeOK, Ids
      <4>2. \A i \in batch[r] : e <= i
        BY <1>1, <1>2, FirstIsLeast DEF TypeOK
      <4> QED
        BY <4>1, <4>2
    <3> QED
      BY <1>2, <3>1 DEF IInv, BatchesAreComplete
  <2> QED
    BY <1>1, <1>2, <1>4, <2>1 DEF IInv, HandedOverInOrder
<1>10. SentIsPast'
  <2> SUFFICES ASSUME NEW p \in Relays, NEW i \in sent'[p]
               PROVE  /\ i \in batch[p] => at'[p] = "mark" /\ i = First(batch[p])
                      /\ status[i] = "published" \/ (at'[p] = "mark" /\ i = First(batch[p]))
    BY <1>1 DEF SentIsPast
  <2>1. CASE p # r
    BY <2>1, <1>3 DEF IInv, SentIsPast
  <2>2. CASE p = r /\ i = e
    BY <2>2, <1>3
  <2>3. CASE p = r /\ i # e
    <3>1. i \in sent[r] /\ at[r] # "mark"
      BY <2>3, <1>1, <1>3
    <3> QED
      BY <2>3, <3>1 DEF IInv, SentIsPast
  <2> QED
    BY <2>1, <2>2, <2>3
<1> QED
  BY <1>5, <1>6, <1>7, <1>8, <1>9, <1>10 DEF IInv

LEMMA PublishFailsStep ==
    ASSUME IInv, NEW r \in Relays, PublishFails(r)
    PROVE  IInv'
<1> USE DEF table, clients
<1> DEFINE e == First(batch[r])
<1>1. /\ TypeOK /\ at[r] = "publish" /\ Advance(r, e)
      /\ rejected' = rejected \union {e}
      /\ UNCHANGED <<status, of, proc, conn, buffer, arrived, lost, sent, faults>>
  BY DEF IInv, PublishFails
<1>2. HandedOver' = HandedOver /\ Committed' = Committed
  BY <1>1 DEF HandedOver, Buffered, Committed
<1>3. e \in batch[r] /\ e \in Ids
  BY <1>1, FirstIsLeast DEF TypeOK
<1>4. e \in Committed /\ e \notin sent[r]
  BY <1>1, <1>3 DEF IInv, BatchesAreCommitted, SentIsPast
<1>5. /\ batch' \in [Relays -> SUBSET Ids]
      /\ at' \in [Relays -> {"list", "publish", "mark"}]
      /\ \A p \in Relays : at'[p] = "list" <=> batch'[p] = {}
      /\ BatchesAreCommitted' /\ MarksFollow' /\ BatchesAreComplete'
      /\ SentIsPast'
  <2>1. sent' \in [Relays -> SUBSET Ids]
    BY <1>1 DEF TypeOK
  <2> QED
    BY <1>1, <1>2, <1>4, <2>1, AdvanceStep
<1>6. TypeOK'
  BY <1>1, <1>3, <1>5 DEF TypeOK
<1>7. OnlyCommittedLeave' /\ MarkedWasHandedOver' /\ OpenIsLatest' /\ HandedOverInOrder'
  BY <1>1, <1>2, <1>4
     DEF IInv, OnlyCommittedLeave, MarkedWasHandedOver, OpenIsLatest, HandedOverInOrder
<1> QED
  BY <1>5, <1>6, <1>7 DEF IInv

LEMMA MarkPublishedStep ==
    ASSUME IInv, NEW r \in Relays, MarkPublished(r)
    PROVE  IInv'
<1> USE DEF clients, fate
<1> DEFINE e == First(batch[r])
<1>1. /\ TypeOK /\ at[r] = "mark" /\ Advance(r, e)
      /\ status' = [status EXCEPT ![e] = "published"]
      /\ UNCHANGED <<of, proc, conn, buffer, arrived, lost, rejected, sent, faults>>
  BY DEF IInv, MarkPublished
<1>2. e \in batch[r] /\ e \in Ids
  BY <1>1, FirstIsLeast DEF TypeOK
<1>3. /\ status'[e] = "published"
      /\ \A i \in Ids \ {e} : status'[i] = status[i]
  BY <1>1, <1>2 DEF TypeOK
<1>4. e \in Committed /\ e \in HandedOver
  BY <1>1, <1>2 DEF IInv, BatchesAreCommitted, MarksFollow
<1>5. HandedOver' = HandedOver /\ Committed' = Committed
  BY <1>1, <1>3, <1>4 DEF HandedOver, Buffered, Committed
<1>6. /\ batch' \in [Relays -> SUBSET Ids]
      /\ at' \in [Relays -> {"list", "publish", "mark"}]
      /\ \A p \in Relays : at'[p] = "list" <=> batch'[p] = {}
      /\ BatchesAreCommitted' /\ MarksFollow' /\ BatchesAreComplete'
      /\ SentIsPast'
  <2>1. sent' \in [Relays -> SUBSET Ids]
    BY <1>1 DEF TypeOK
  <2>2. \A i \in Ids : status[i] = "published" => status'[i] = "published"
    BY <1>3
  <2> QED
    BY <1>1, <1>3, <1>4, <1>5, <2>1, <2>2, AdvanceStep
<1>7. TypeOK'
  <2>1. status' \in [Ids -> Status]
    BY <1>1, <1>2 DEF TypeOK, Status
  <2> QED
    BY <1>1, <1>6, <2>1 DEF TypeOK
<1>8. OnlyCommittedLeave' /\ MarkedWasHandedOver' /\ HandedOverInOrder'
  BY <1>1, <1>3, <1>4, <1>5
     DEF IInv, OnlyCommittedLeave, MarkedWasHandedOver, HandedOverInOrder
<1>9. OpenIsLatest'
  <2>1. status[e] # "none"
    BY <1>4 DEF Committed
  <2> QED
    BY <1>1, <1>2, <1>3, <2>1 DEF IInv, OpenIsLatest
<1> QED
  BY <1>6, <1>7, <1>8, <1>9 DEF IInv

LEMMA MarkFailsStep ==
    ASSUME IInv, NEW r \in Relays, MarkFails(r)
    PROVE  IInv'
<1> USE DEF table, clients
<1> DEFINE e == First(batch[r])
<1>1. /\ TypeOK /\ at[r] = "mark" /\ Advance(r, e)
      /\ sent' = [sent EXCEPT ![r] = @ \ {e}]
      /\ UNCHANGED <<status, of, proc, conn, buffer, arrived, lost, rejected>>
      /\ faults' = faults \/ Fault
  BY DEF IInv, MarkFails
<1>2. HandedOver' = HandedOver /\ Committed' = Committed /\ e \in HandedOver
  BY <1>1 DEF IInv, MarksFollow, HandedOver, Buffered, Committed
<1>3. /\ sent' \in [Relays -> SUBSET Ids]
      /\ \A p \in Relays : sent'[p] \subseteq sent[p]
      /\ e \notin sent'[r]
  BY <1>1 DEF TypeOK
<1>4. /\ batch' \in [Relays -> SUBSET Ids]
      /\ at' \in [Relays -> {"list", "publish", "mark"}]
      /\ \A p \in Relays : at'[p] = "list" <=> batch'[p] = {}
      /\ BatchesAreCommitted' /\ MarksFollow' /\ BatchesAreComplete'
      /\ SentIsPast'
  BY <1>1, <1>2, <1>3, AdvanceStep
<1>5. TypeOK'
  <2>1. faults' \in 0 .. MaxFaults
    BY <1>1, RelayAssumption DEF TypeOK, Fault
  <2> QED
    BY <1>1, <1>3, <1>4, <2>1 DEF TypeOK
<1>6. OnlyCommittedLeave' /\ MarkedWasHandedOver' /\ OpenIsLatest' /\ HandedOverInOrder'
  BY <1>1, <1>2
     DEF IInv, OnlyCommittedLeave, MarkedWasHandedOver, OpenIsLatest, HandedOverInOrder
<1> QED
  BY <1>4, <1>5, <1>6 DEF IInv

LEMMA ExitStep ==
    ASSUME IInv, NEW r \in Relays, Exit(r)
    PROVE  IInv'
<1> USE DEF table
<1> DEFINE e == First(batch[r])
           left == IF at[r] = "mark" THEN sent[r] \ {e} ELSE sent[r]
<1>1. /\ TypeOK /\ Discard(r)
      /\ proc' = [proc EXCEPT ![r] = "down"] /\ conn' = [conn EXCEPT ![r] = "closed"]
      /\ sent' = [sent EXCEPT ![r] = left]
      /\ batch' = [batch EXCEPT ![r] = {}] /\ at' = [at EXCEPT ![r] = "list"]
      /\ UNCHANGED <<status, of, arrived, rejected>>
      /\ faults' = faults \/ Fault
  BY DEF IInv, Exit
<1>2. HandedOver' = HandedOver /\ lost' \subseteq Ids /\ buffer' \in [Relays -> Seq(Ids)]
  BY <1>1, DiscardKeepsHandedOver
<1>3. Committed' = Committed
  BY <1>1 DEF Committed
<1>4. /\ batch'[r] = {} /\ at'[r] = "list" /\ sent'[r] = left
      /\ \A p \in Relays \ {r} : batch'[p] = batch[p] /\ at'[p] = at[p] /\ sent'[p] = sent[p]
  BY <1>1 DEF TypeOK
<1>5. TypeOK'
  <2>1. \A p \in Relays : at'[p] = "list" <=> batch'[p] = {}
    BY <1>1, <1>4 DEF TypeOK
  <2>2. faults' \in 0 .. MaxFaults
    BY <1>1, RelayAssumption DEF TypeOK, Fault
  <2>3. /\ proc' \in [Relays -> {"down", "running", "stopping"}]
        /\ conn' \in [Relays -> Connection]
    BY <1>1 DEF TypeOK, Connection
  <2>4. /\ batch' \in [Relays -> SUBSET Ids]
        /\ at' \in [Relays -> {"list", "publish", "mark"}]
        /\ sent' \in [Relays -> SUBSET Ids]
    BY <1>1 DEF TypeOK
  <2> QED
    BY <1>1, <1>2, <2>1, <2>2, <2>3, <2>4 DEF TypeOK
<1>6. BatchesAreCommitted' /\ BatchesAreComplete'
  BY <1>1, <1>2, <1>3, <1>4 DEF IInv, BatchesAreCommitted, BatchesAreComplete
<1>7. OnlyCommittedLeave' /\ MarkedWasHandedOver' /\ OpenIsLatest' /\ HandedOverInOrder'
  BY <1>1, <1>2, <1>3
     DEF IInv, OnlyCommittedLeave, MarkedWasHandedOver, OpenIsLatest, HandedOverInOrder
<1>8. MarksFollow'
  <2> SUFFICES ASSUME NEW p \in Relays, at'[p] = "mark"
               PROVE  First(batch'[p]) \in HandedOver
    BY <1>2 DEF MarksFollow
  <2>1. batch'[p] = batch[p] /\ at[p] = "mark"
    BY <1>4
  <2> QED
    BY <2>1 DEF IInv, MarksFollow
<1>9. SentIsPast'
  <2> SUFFICES ASSUME NEW p \in Relays, NEW i \in sent'[p]
               PROVE  /\ i \in batch'[p] => at'[p] = "mark" /\ i = First(batch'[p])
                      /\ status[i] = "published" \/ (at'[p] = "mark" /\ i = First(batch'[p]))
    BY <1>1 DEF SentIsPast
  <2>1. CASE p # r
    <3>1. batch'[p] = batch[p] /\ at'[p] = at[p] /\ sent'[p] = sent[p]
      BY <2>1, <1>4
    <3> QED
      BY <3>1 DEF IInv, SentIsPast
  <2>2. CASE p = r
    <3>1. i \in sent[r] /\ (at[r] = "mark" => i # e)
      BY <2>2, <1>4
    <3> QED
      BY <2>2, <3>1, <1>4 DEF IInv, SentIsPast
  <2> QED
    BY <2>1, <2>2
<1> QED
  BY <1>5, <1>6, <1>7, <1>8, <1>9 DEF IInv

LEMMA NextStep == IInv /\ [Next]_vars => IInv'
<1> SUFFICES ASSUME IInv, [Next]_vars PROVE IInv'
  OBVIOUS
<1>1. CASE \E g \in Aggregates : InsertRow(g)
  BY <1>1, InsertStep
<1>2. CASE \E i \in Ids : EndTransaction(i)
  BY <1>2, EndTransactionStep
<1>3. ASSUME NEW r \in Relays, Relay(r) \/ Client(r) \/ Disconnect(r) \/ Life(r)
      PROVE  IInv'
  BY <1>3, ListStep, PublishStep, PublishFailsStep, MarkPublishedStep, MarkFailsStep,
     ClientStep, ExitStep DEF Relay, Life
<1>4. CASE UNCHANGED vars
  <2>1. UNCHANGED <<status, of, proc, conn, buffer, batch, at, arrived, lost, rejected, sent, faults>>
    BY <1>4 DEF vars, table, clients, loop, fate
  <2>2. TypeOK' /\ HandedOver' = HandedOver
    BY <2>1 DEF IInv, TypeOK, HandedOver, Buffered
  <2> QED
    BY <2>1, <2>2, QuietStep DEF table, loop
<1> QED
  BY <1>1, <1>2, <1>3, <1>4 DEF Next
-------------------------------------------------------------------------------
(***************************************************************************)
(* Every step is a step of EventDelivery or none.                          *)
(***************************************************************************)

About == [i \in Ids |-> IF i \in Committed THEN of[i] ELSE None]

Marked == {i \in Ids : status[i] = "published"}

\* A committed event exists for its consumers.
LEMMA CommittedExist ==
    ASSUME OpenIsLatest, NEW i \in Ids
    PROVE  /\ Delivery!Exists(i) <=> i \in Committed
           /\ i \in Committed => About[i] = of[i]
<1>1. i \in Committed => of[i] # None
  BY DEF Committed, OpenIsLatest
<1> QED
  BY <1>1 DEF Delivery!Exists, About

\* A batch is dealt with from its first row, and it left out none that matters.
LEMMA FirstIsInLine ==
    ASSUME IInv, NEW r \in Relays, at[r] # "list"
    PROVE  /\ First(batch[r]) \in Ids
           /\ Delivery!Exists(First(batch[r])) /\ Delivery!InLine(First(batch[r]))
<1> DEFINE e == First(batch[r])
<1>1. batch[r] \in SUBSET Ids /\ batch[r] # {}
  BY DEF IInv, TypeOK
<1>2. e \in batch[r] /\ e \in Ids /\ e \in Committed
  BY <1>1, FirstIsLeast DEF IInv, BatchesAreCommitted
<1>3. ASSUME NEW i \in Committed, i < e, of[i] = of[e]
      PROVE  i \in HandedOver \union rejected
  <2>1. i \in Ids /\ Ids \subseteq Nat
    BY RelayAssumption DEF Committed, Ids
  <2>2. i \notin batch[r]
    <3>1. i \in Nat /\ e \in Nat
      BY <1>2, <2>1
    <3>2. i \in batch[r] => e <= i
      BY <1>1, FirstIsLeast
    <3> QED
      BY <1>3, <3>1, <3>2
  <2> QED
    BY <1>2, <1>3, <2>2 DEF IInv, BatchesAreComplete
<1>4. OpenIsLatest
  BY DEF IInv
<1>5. ASSUME NEW j \in Ids, j < e, About[j] = About[e]
      PROVE  j \in HandedOver \union rejected
  <2>1. About[e] = of[e] /\ of[e] # None
    BY <1>2, <1>4, CommittedExist DEF Delivery!Exists, About
  <2>2. j \in Committed /\ of[j] = of[e]
    BY <1>5, <2>1 DEF About
  <2> QED
    BY <1>3, <1>5, <2>2
<1> QED
  BY <1>2, <1>4, <1>5, CommittedExist
     DEF Delivery!InLine, Delivery!HandedOver, HandedOver, About

\* A client that drops or sends some of its messages lets go of them only.
LEMMA LettingGo ==
    ASSUME TypeOK, NEW r \in Relays, NEW b \in Seq(Ids), NEW S \in SUBSET Ids,
           buffer' = [buffer EXCEPT ![r] = b],
           Messages(buffer[r], Len(buffer[r])) = S \union Messages(b, Len(b))
    PROVE  S \subseteq Buffered /\ Delivery!LetGo(S)
<1>1. PICK rest \in SUBSET Ids :
        /\ Buffered = rest \union Messages(buffer[r], Len(buffer[r]))
        /\ Buffered' = rest \union Messages(b, Len(b))
  BY OneBuffer
<1> QED
  BY <1>1 DEF Delivery!LetGo

LEMMA DiscardLoses ==
    ASSUME TypeOK, NEW r \in Relays, Discard(r),
           UNCHANGED <<table, arrived, rejected>>
    PROVE  \E S \in SUBSET Ids : Delivery!Lose(S)
<1> DEFINE S == Messages(buffer[r], Len(buffer[r]))
<1>1. buffer[r] \in Seq(Ids) /\ <<>> \in Seq(Ids)
  BY DEF TypeOK
<1>2. S \in SUBSET Ids
  BY <1>1, MessagesOf
<1>3. S = S \union Messages(<<>>, Len(<<>>))
  BY DEF Messages
<1>4. S \subseteq Buffered /\ Delivery!LetGo(S)
  BY <1>1, <1>2, <1>3, LettingGo DEF Discard
<1>5. About' = About /\ Marked' = Marked
  BY DEF table, About, Marked, Committed
<1>6. lost' = lost \union S
  BY DEF Discard
<1> QED
  BY <1>2, <1>4, <1>5, <1>6 DEF Delivery!Lose, About, Marked

\* A step that touches neither rows nor buffers nor the fate of an event.
LEMMA NothingHappens ==
    ASSUME UNCHANGED <<About, Marked, buffer, arrived, lost, rejected>>
    PROVE  UNCHANGED Delivery!vars
<1>1. Buffered' = Buffered
  BY DEF Buffered
<1> QED
  BY <1>1 DEF Delivery!vars, About, Marked

LEMMA InsertRefines ==
    ASSUME IInv, NEW g \in Aggregates, InsertRow(g)
    PROVE  UNCHANGED Delivery!vars
<1>1. PICK i \in Ids : /\ status[i] = "none"
                       /\ status' = [status EXCEPT ![i] = "open"]
                       /\ of' = [of EXCEPT ![i] = g]
  <2>1. PICK i \in Ids : /\ \A j \in Ids : status[j] = "none" <=> j >= i
                         /\ status' = [status EXCEPT ![i] = "open"]
                         /\ of' = [of EXCEPT ![i] = g]
    BY DEF InsertRow
  <2>2. i \in Nat /\ i >= i
    BY RelayAssumption DEF Ids
  <2> QED
    BY <2>1, <2>2
<1>2. /\ status'[i] = "open"
      /\ \A j \in Ids \ {i} : status'[j] = status[j] /\ of'[j] = of[j]
  BY <1>1 DEF IInv, TypeOK
<1>3. \A j \in Ids : /\ j \in Committed' <=> j \in Committed
                     /\ j \in Committed => of'[j] = of[j]
                     /\ status'[j] = "published" <=> status[j] = "published"
  BY <1>1, <1>2 DEF Committed
<1>4. About' = About /\ Marked' = Marked
  BY <1>3 DEF About, Marked
<1> QED
  BY <1>4, NothingHappens DEF InsertRow, clients, fate

LEMMA EndTransactionRefines ==
    ASSUME IInv, NEW i \in Ids, EndTransaction(i)
    PROVE  \/ \E g \in Aggregates : Delivery!Commit(i, g)
           \/ UNCHANGED Delivery!vars
<1>1. PICK end \in {"unpublished", "aborted"} : status' = [status EXCEPT ![i] = end]
  BY DEF EndTransaction
<1>2. /\ status[i] = "open" /\ of' = of
      /\ UNCHANGED <<buffer, arrived, lost, rejected>>
  BY DEF EndTransaction, clients, fate
<1>3. /\ status'[i] = end
      /\ \A j \in Ids \ {i} : status'[j] = status[j]
  BY <1>1 DEF IInv, TypeOK
<1>4. /\ i \notin Committed
      /\ \A j \in Ids \ {i} : j \in Committed' <=> j \in Committed
  BY <1>2, <1>3 DEF Committed
<1>5. Marked' = Marked
  BY <1>2, <1>3 DEF Marked
<1>6. CASE end = "aborted"
  <2>1. i \notin Committed'
    BY <1>3, <1>6 DEF Committed
  <2>2. About' = About
    BY <1>2, <1>4, <2>1 DEF About
  <2> QED
    BY <1>2, <1>5, <2>2, NothingHappens
<1>7. CASE end = "unpublished"
  <2>1. i \in Committed'
    BY <1>3, <1>7 DEF Committed
  <2>2. About' = [About EXCEPT ![i] = of[i]]
    BY <1>2, <1>4, <2>1 DEF About
  <2>3. of[i] # None /\ of[i] \in Aggregates
    BY <1>2 DEF IInv, TypeOK, OpenIsLatest
  <2>4. ASSUME NEW j \in Ids, j > i PROVE About[j] # of[i]
    <3>1. i \in Nat /\ j \in Nat
      BY RelayAssumption DEF Ids
    <3>2. of[j] # of[i]
      BY <1>2, <2>4, <3>1 DEF IInv, OpenIsLatest
    <3> QED
      BY <2>3, <3>2 DEF About
  <2>5. About[i] = None
    BY <1>4 DEF About
  <2>6. Buffered' = Buffered
    BY <1>2 DEF Buffered
  <2> QED
    BY <1>2, <1>5, <2>2, <2>3, <2>4, <2>5, <2>6
       DEF Delivery!Commit, Delivery!Exists, About, Marked
<1> QED
  BY <1>6, <1>7

LEMMA PublishRefines ==
    ASSUME IInv, NEW r \in Relays, Publish(r)
    PROVE  \E i \in Ids : Delivery!HandOver(i)
<1> DEFINE e == First(batch[r])
           s == buffer[r]
<1>1. e \in Ids /\ Delivery!Exists(e) /\ Delivery!InLine(e)
  BY FirstIsInLine DEF Publish
<1>2. About' = About /\ Marked' = Marked /\ arrived' = arrived /\ rejected' = rejected
  BY DEF Publish, table, About, Marked, Committed
<1>3. CASE buffer' = [buffer EXCEPT ![r] = Append(s, e)] /\ lost' = lost
  <2>1. s \in Seq(Ids)
    BY DEF IInv, TypeOK
  <2>2. /\ Append(s, e) \in Seq(Ids)
        /\ Messages(Append(s, e), Len(Append(s, e))) = Messages(s, Len(s)) \union {e}
    BY <1>1, <2>1, MessagesOf
  <2>3. TypeOK
    BY DEF IInv
  <2>4. PICK rest \in SUBSET Ids :
          /\ Buffered = rest \union Messages(s, Len(s))
          /\ Buffered' = rest \union Messages(Append(s, e), Len(Append(s, e)))
    BY <1>3, <2>2, <2>3, OneBuffer
  <2>5. Buffered' = Buffered \union {e}
    BY <2>2, <2>4
  <2> QED
    BY <1>1, <1>2, <1>3, <2>5 DEF Delivery!HandOver, About, Marked
<1>4. CASE UNCHANGED buffer /\ lost' = lost \union {e}
  <2>1. Buffered' = Buffered
    BY <1>4 DEF Buffered
  <2> QED
    BY <1>1, <1>2, <1>4, <2>1 DEF Delivery!HandOver, About, Marked
<1> QED
  BY <1>3, <1>4 DEF Publish

LEMMA PublishFailsRefines ==
    ASSUME IInv, NEW r \in Relays, PublishFails(r)
    PROVE  \E i \in Ids : Delivery!Refuse(i)
<1> DEFINE e == First(batch[r])
<1>1. e \in Ids /\ Delivery!Exists(e) /\ Delivery!InLine(e)
  BY FirstIsInLine DEF PublishFails
<1>2. /\ rejected' = rejected \union {e}
      /\ UNCHANGED <<About, Marked, Buffered, arrived, lost>>
  BY DEF PublishFails, table, clients, About, Marked, Committed, Buffered
<1> QED
  BY <1>1, <1>2 DEF Delivery!Refuse, About, Marked

LEMMA MarkPublishedRefines ==
    ASSUME IInv, NEW r \in Relays, MarkPublished(r)
    PROVE  \E i \in Ids : Delivery!Mark(i)
<1> DEFINE e == First(batch[r])
<1>1. e \in Ids /\ e \in HandedOver /\ e \in Committed
  <2>1. e \in batch[r] /\ e \in Ids
    BY FirstIsLeast DEF IInv, TypeOK, MarkPublished
  <2> QED
    BY <2>1 DEF IInv, MarksFollow, BatchesAreCommitted, MarkPublished
<1>2. /\ status'[e] = "published"
      /\ \A i \in Ids \ {e} : status'[i] = status[i]
      /\ UNCHANGED <<of, buffer, arrived, lost, rejected>>
  BY <1>1 DEF IInv, TypeOK, MarkPublished, clients, fate
<1>3. Marked' = Marked \union {e}
  BY <1>1, <1>2 DEF Marked
<1>4. About' = About
  <2>1. Committed' = Committed
    BY <1>1, <1>2 DEF Committed
  <2> QED
    BY <1>2, <2>1 DEF About
<1>5. Buffered' = Buffered
  BY <1>2 DEF Buffered
<1> QED
  BY <1>1, <1>2, <1>3, <1>4, <1>5
     DEF Delivery!Mark, Delivery!HandedOver, HandedOver, About, Marked

LEMMA FlushRefines ==
    ASSUME IInv, NEW r \in Relays, Flush(r)
    PROVE  \E i \in Ids : Delivery!Arrive(i)
<1> DEFINE s == buffer[r]
<1>1. /\ s \in Seq(Ids) /\ s # <<>> /\ TypeOK
      /\ buffer' = [buffer EXCEPT ![r] = Tail(s)]
      /\ arrived' = arrived \union {Head(s)}
      /\ UNCHANGED <<About, Marked, lost, rejected>>
  BY DEF IInv, TypeOK, Flush, table, About, Marked, Committed
<1>2. /\ Len(s) \in Nat /\ 1 \in 0 .. Len(s) /\ Head(s) = s[1] /\ Head(s) \in Ids
      /\ Tail(s) = SubSeq(s, 1 + 1, Len(s)) /\ Len(Tail(s)) = Len(s) - 1
  BY <1>1
<1>3. /\ Tail(s) \in Seq(Ids)
      /\ Messages(s, Len(s)) = Messages(s, 1) \union Messages(Tail(s), Len(Tail(s)))
  <2>1. /\ SubSeq(s, 1 + 1, Len(s)) \in Seq(Ids)
        /\ Messages(s, Len(s)) =
             Messages(s, 1) \union Messages(SubSeq(s, 1 + 1, Len(s)), Len(s) - 1)
    BY <1>1, <1>2, MessagesSplit
  <2> QED
    BY <1>2, <2>1
<1>4. Messages(s, 1) = {Head(s)}
  BY <1>2 DEF Messages
<1>5. {Head(s)} \subseteq Buffered /\ Delivery!LetGo({Head(s)})
  BY <1>1, <1>2, <1>3, <1>4, LettingGo
<1> QED
  BY <1>1, <1>2, <1>5 DEF Delivery!Arrive, About, Marked

LEMMA DisconnectRefines ==
    ASSUME IInv, NEW r \in Relays, Disconnect(r)
    PROVE  \E S \in SUBSET Ids : Delivery!Lose(S)
<1> DEFINE s == buffer[r]
<1>1. s \in Seq(Ids) /\ TypeOK
  BY DEF IInv, TypeOK
<1>2. PICK n \in 0 .. Len(s) : /\ lost' = lost \union Messages(s, n)
                               /\ buffer' = [buffer EXCEPT ![r] = SubSeq(s, n + 1, Len(s))]
  BY DEF Disconnect
<1> DEFINE t == SubSeq(s, n + 1, Len(s))
           S == Messages(s, n)
<1>3. t \in Seq(Ids) /\ Messages(s, Len(s)) = S \union Messages(t, Len(t))
  BY <1>1, MessagesSplit
<1>4. S \in SUBSET Ids
  BY <1>1, <1>3, MessagesOf
<1>5. S \subseteq Buffered /\ Delivery!LetGo(S)
  BY <1>1, <1>2, <1>3, <1>4, LettingGo
<1>6. UNCHANGED <<About, Marked, arrived, rejected>>
  BY DEF Disconnect, table, About, Marked, Committed
<1> QED
  BY <1>2, <1>4, <1>5, <1>6 DEF Delivery!Lose, About, Marked

\* Clients and replicas: messages are sent, are lost, or stay where they are.
LEMMA ReplicaRefines ==
    ASSUME IInv, NEW r \in Relays, Client(r) \/ Disconnect(r) \/ Life(r)
    PROVE  Delivery!Next \/ UNCHANGED Delivery!vars
<1>1. CASE Flush(r)
  BY <1>1, FlushRefines DEF Delivery!Next
<1>2. CASE Disconnect(r)
  BY <1>2, DisconnectRefines DEF Delivery!Next
<1>3. CASE EndReconnecting(r) \/ EndDraining(r) \/ Start(r) \/ Stop(r) \/ Exit(r)
  <2>1. /\ Discard(r) \/ UNCHANGED <<buffer, lost>>
        /\ UNCHANGED <<table, arrived, rejected>>
    BY <1>3 DEF EndReconnecting, EndDraining, Start, Stop, Exit, fate
  <2>2. TypeOK /\ About' = About /\ Marked' = Marked
    BY <2>1 DEF IInv, table, About, Marked, Committed
  <2> QED
    BY <2>1, <2>2, DiscardLoses, NothingHappens DEF Delivery!Next
<1> QED
  BY <1>1, <1>2, <1>3 DEF Client, Life

LEMMA RelayRefines ==
    ASSUME IInv, NEW r \in Relays, Relay(r)
    PROVE  Delivery!Next \/ UNCHANGED Delivery!vars
<1>1. CASE List(r) \/ MarkFails(r)
  <2>1. UNCHANGED <<table, buffer, arrived, lost, rejected>>
    BY <1>1 DEF List, MarkFails, clients, fate
  <2> QED
    BY <2>1, NothingHappens DEF table, About, Marked, Committed
<1>2. CASE Publish(r)
  BY <1>2, PublishRefines DEF Delivery!Next
<1>3. CASE PublishFails(r)
  BY <1>3, PublishFailsRefines DEF Delivery!Next
<1>4. CASE MarkPublished(r)
  BY <1>4, MarkPublishedRefines DEF Delivery!Next
<1> QED
  BY <1>1, <1>2, <1>3, <1>4 DEF Relay

LEMMA StepRefines == IInv /\ [Next]_vars => [Delivery!Next]_(Delivery!vars)
<1> SUFFICES ASSUME IInv, [Next]_vars PROVE Delivery!Next \/ UNCHANGED Delivery!vars
  OBVIOUS
<1>1. CASE \E g \in Aggregates : InsertRow(g)
  BY <1>1, InsertRefines
<1>2. CASE \E i \in Ids : EndTransaction(i)
  BY <1>2, EndTransactionRefines DEF Delivery!Next
<1>3. CASE \E r \in Relays : Relay(r) \/ Client(r) \/ Disconnect(r) \/ Life(r)
  BY <1>3, RelayRefines, ReplicaRefines
<1>4. CASE UNCHANGED vars
  BY <1>4, NothingHappens DEF vars, table, clients, fate, About, Marked, Committed
<1> QED
  BY <1>1, <1>2, <1>3, <1>4 DEF Next

LEMMA InitRefines == Init => Delivery!Init
<1> SUFFICES ASSUME Init PROVE Delivery!Init
  OBVIOUS
<1>1. Committed = {} /\ Buffered = {} /\ Marked = {}
  BY DEF Init, Committed, Buffered, Messages, Marked
<1> QED
  BY <1>1 DEF Init, Delivery!Init, Marked
-------------------------------------------------------------------------------
(***************************************************************************)
(* The theorems.                                                           *)
(***************************************************************************)

\* The inductive invariant holds in every state of the relays and their clients.
THEOREM Invariance == Spec => []IInv
  BY InitInvariant, NextStep, PTL DEF Spec

\* Type correctness, with the fact that a relay is between two batches exactly when
\* it holds no row.
THEOREM TypeCorrect == Spec => []TypeOK
<1>1. IInv => TypeOK
  BY DEF IInv
<1> QED
  BY <1>1, Invariance, PTL

\* No event of a transaction that is open or rolled back reaches a NATS client.
THEOREM UncommittedStay == Spec => []OnlyCommittedLeave
<1>1. IInv => OnlyCommittedLeave
  BY DEF IInv
<1> QED
  BY <1>1, Invariance, PTL

\* A row gets its published_at only after its event was handed to a client.
THEOREM MarkingIsHonest == Spec => []MarkedWasHandedOver
<1>1. IInv => MarkedWasHandedOver
  BY DEF IInv
<1> QED
  BY <1>1, Invariance, PTL

\* Any number of relays on one table, without locks, keep the order of the events of
\* an aggregate, but for the events a client refused.
THEOREM OrderIsKept == Spec => []HandedOverInOrder
<1>1. IInv => HandedOverInOrder
  BY DEF IInv
<1> QED
  BY <1>1, Invariance, PTL

\* No relay hands over an event twice unless it failed to mark it in between.
THEOREM ResendsNeedAReason == Spec => []ResendsAreExcused
<1>1. IInv => ResendsAreExcused
  <2> SUFFICES ASSUME IInv, NEW r \in Relays, at[r] = "publish"
               PROVE  First(batch[r]) \notin sent[r]
    BY DEF ResendsAreExcused
  <2>1. batch[r] \in SUBSET Ids /\ batch[r] # {}
    BY DEF IInv, TypeOK
  <2>2. First(batch[r]) \in batch[r]
    BY <2>1, FirstIsLeast
  <2> QED
    BY <2>2 DEF IInv, SentIsPast
<1> QED
  BY <1>1, Invariance, PTL

\* The relays, their clients and their crashes are, to the consumers of the events,
\* the atomic deliveries of EventDelivery: no event leaves before its commit, events
\* of one aggregate are tried in order, none vanishes without being lost, and none is
\* marked that was not handed over.
THEOREM Refinement == Spec => ImplementsDelivery
  BY InitRefines, Invariance, StepRefines, PTL DEF Spec, ImplementsDelivery, Delivery!Spec
-------------------------------------------------------------------------------
(***************************************************************************)
(* The way of a row out of the table, on which EventuallyOut rests: a      *)
(* batch begins with the oldest rows, and comes to its end.                *)
(***************************************************************************)

\* A relay that lists takes the oldest unpublished row, and skips none.
ListsOldest ==
    \A r \in Relays : at[r] = "list" /\ at'[r] # "list" =>
        /\ Unpublished # {} /\ First(Unpublished) \in batch'[r]
        /\ batch'[r] \subseteq Unpublished
        /\ \A i \in Unpublished, j \in batch'[r] : i < j => i \in batch'[r]

\* A relay in its batch takes the next statement for a row, or leaves a row behind.
GoesThrough ==
    \A r \in Relays : at[r] # "list" =>
        \/ at'[r] = at[r] /\ batch'[r] = batch[r]
        \/ at[r] = "publish" /\ at'[r] = "mark" /\ batch'[r] = batch[r]
        \/ /\ batch'[r] \subseteq batch[r] /\ batch'[r] # batch[r]
           /\ at'[r] = IF batch'[r] = {} THEN "list" ELSE "publish"

LEMMA ListProgress ==
    ASSUME IInv, NEW r \in Relays, List(r)
    PROVE  ListsOldest /\ GoesThrough
<1>1. TypeOK
  BY DEF IInv
<1>2. PICK new \in SUBSET Unpublished : new = Oldest(Unpublished, BatchSize)
  BY DEF Oldest
<1>3. /\ at[r] = "list" /\ batch'[r] = new
      /\ \A p \in Relays \ {r} : at'[p] = at[p] /\ batch'[p] = batch[p]
  BY <1>1, <1>2 DEF List, TypeOK
<1>4. Unpublished \in SUBSET Ids /\ Unpublished # {}
  BY DEF List, Unpublished
<1>5. First(Unpublished) \in new
  <2>1. /\ First(Unpublished) \in Unpublished /\ Unpublished \subseteq Nat
        /\ \A j \in Unpublished : First(Unpublished) <= j
    BY <1>4, FirstIsLeast, RelayAssumption DEF Ids
  <2>2. PICK i \in Unpublished : i = First(Unpublished) /\ \A j \in Unpublished : i <= j
    BY <2>1
  <2>3. {j \in Unpublished : j < i} = {}
    <3>1. ASSUME NEW j \in Unpublished
          PROVE  ~(j < i)
      <4>1. i \in Nat /\ j \in Nat /\ i <= j
        BY <2>1, <2>2
      <4> QED BY <4>1
    <3> QED BY <3>1
  <2>4. Cardinality({j \in Unpublished : j < i}) < BatchSize
    BY <2>3, FS_EmptySet, RelayAssumption
  <2> QED BY <1>2, <2>2, <2>4 DEF Oldest
<1>6. \A i \in Unpublished, j \in new : i < j => i \in new
  BY <1>2, <1>4, OldestIsPrefix
<1> QED BY <1>3, <1>4, <1>5, <1>6 DEF ListsOldest, GoesThrough

LEMMA BatchProgress ==
    ASSUME IInv, NEW r \in Relays,
           \/ Publish(r) \/ PublishFails(r) \/ MarkPublished(r) \/ MarkFails(r) \/ Exit(r)
    PROVE  ListsOldest /\ GoesThrough
<1>1. /\ at \in [Relays -> {"list", "publish", "mark"}] /\ batch \in [Relays -> SUBSET Ids]
      /\ \A p \in Relays : at[p] = "list" <=> batch[p] = {}
  BY DEF IInv, TypeOK
<1>2. CASE Publish(r)
  <2>1. /\ at[r] = "publish" /\ at'[r] = "mark" /\ batch' = batch
        /\ \A p \in Relays \ {r} : at'[p] = at[p]
    BY <1>1, <1>2 DEF Publish
  <2> QED BY <2>1 DEF ListsOldest, GoesThrough
<1>3. CASE PublishFails(r) \/ MarkPublished(r) \/ MarkFails(r)
  <2>1. PICK e : e = First(batch[r])
    OBVIOUS
  <2>2. at[r] # "list" /\ Advance(r, e)
    BY <1>3, <2>1 DEF PublishFails, MarkPublished, MarkFails
  <2>3. e \in batch[r]
    BY <1>1, <2>1, <2>2, FirstIsLeast
  <2>4. /\ batch'[r] = batch[r] \ {e} /\ at'[r] = IF batch'[r] = {} THEN "list" ELSE "publish"
        /\ \A p \in Relays \ {r} : at'[p] = at[p] /\ batch'[p] = batch[p]
    BY <1>1, <2>2 DEF Advance
  <2> QED BY <2>2, <2>3, <2>4 DEF ListsOldest, GoesThrough
<1>4. CASE Exit(r)
  <2>1. /\ batch'[r] = {} /\ at'[r] = "list"
        /\ \A p \in Relays \ {r} : at'[p] = at[p] /\ batch'[p] = batch[p]
    BY <1>1, <1>4 DEF Exit
  <2> QED BY <1>1, <2>1 DEF ListsOldest, GoesThrough
<1> QED BY <1>2, <1>3, <1>4

LEMMA StepProgress == IInv /\ [Next]_vars => ListsOldest /\ GoesThrough
<1> SUFFICES ASSUME IInv, [Next]_vars
             PROVE  ListsOldest /\ GoesThrough
  OBVIOUS
<1> USE DEF loop
<1>1. CASE UNCHANGED <<batch, at>>
  BY <1>1 DEF ListsOldest, GoesThrough
<1>2. CASE \E r \in Relays : Relay(r) \/ Exit(r)
  BY <1>2, ListProgress, BatchProgress DEF Relay
<1>3. CASE \E r \in Relays : Client(r) \/ Disconnect(r) \/ Start(r) \/ Stop(r)
  BY <1>1, <1>3 DEF Client, Flush, EndReconnecting, EndDraining, Disconnect, Start, Stop
<1>4. CASE (\E g \in Aggregates : InsertRow(g)) \/ (\E i \in Ids : EndTransaction(i))
  BY <1>1, <1>4 DEF InsertRow, EndTransaction
<1>5. CASE UNCHANGED vars
  BY <1>1, <1>5 DEF vars
<1> QED BY <1>2, <1>3, <1>4, <1>5 DEF Next, Life

\* Each batch of each relay begins with the oldest row that is not published yet, and
\* holds every older one than those it holds: younger rows never starve an old one.
THEOREM NoRowIsSkipped == Spec => [][ListsOldest]_vars
<1>1. IInv /\ [Next]_vars => [ListsOldest]_vars
  BY StepProgress
<1> QED BY <1>1, Invariance, PTL DEF Spec

\* Whatever the client and the database answer, a relay never takes a row up again in
\* one batch, so that a tick ends after two statements for each row at most.
THEOREM BatchesEnd == Spec => [][GoesThrough]_vars
<1>1. IInv /\ [Next]_vars => [GoesThrough]_vars
  BY StepProgress
<1> QED BY <1>1, Invariance, PTL DEF Spec
=============================================================================
