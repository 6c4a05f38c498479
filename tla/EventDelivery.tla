---------------------------- MODULE EventDelivery ----------------------------
(***************************************************************************)
(* What the assessment service promises to the consumers of its events:    *)
(* an event exists from the commit of its transaction on; it is handed     *)
(* over or refused in the order of its quiz or attempt; once handed over   *)
(* it is under way, has arrived or was lost, and never vanishes otherwise; *)
(* and only an event that was handed over is ever marked.  There are no    *)
(* replicas, batches, buffers, connections or crashes here; OutboxRelay,   *)
(* which has them all, implements this module.                             *)
(*                                                                         *)
(* The promise is the one the code can keep: a refused event does not hold *)
(* up the later ones, an event may be handed over again after it arrived   *)
(* or was marked, and a marked event may be lost.                          *)
(***************************************************************************)
EXTENDS Naturals

CONSTANTS Ids,          \* ids of the outbox rows
          Aggregates,   \* quizzes and attempts
          None

VARIABLES about,        \* aggregate of each committed event; None before its commit
          underway,     \* events of which a client holds a message
          arrived,      \* events the broker has received
          lost,         \* events of which some message was lost
          refused,      \* events some client refused
          marked        \* events of which the row is marked as published

vars == <<about, underway, arrived, lost, refused, marked>>

Init ==
    /\ about = [i \in Ids |-> None]
    /\ underway = {} /\ arrived = {} /\ lost = {} /\ refused = {} /\ marked = {}

Exists(i) == about[i] # None

HandedOver == underway \union arrived \union lost

\* All earlier events of the same aggregate were handed over or refused.
InLine(i) ==
    \A j \in Ids : j < i /\ about[j] = about[i] => j \in HandedOver \union refused

\* Transactions about one aggregate commit in the order of their rows.
Commit(i, g) ==
    /\ ~Exists(i)
    /\ \A j \in Ids : j > i => about[j] # g
    /\ about' = [about EXCEPT ![i] = g]
    /\ UNCHANGED <<underway, arrived, lost, refused, marked>>

\* To a client, or to nobody.
HandOver(i) ==
    /\ Exists(i) /\ InLine(i)
    /\ \/ underway' = underway \union {i} /\ UNCHANGED lost
       \/ lost' = lost \union {i} /\ UNCHANGED underway
    /\ UNCHANGED <<about, arrived, refused, marked>>

Refuse(i) ==
    /\ Exists(i) /\ InLine(i)
    /\ refused' = refused \union {i}
    /\ UNCHANGED <<about, underway, arrived, lost, marked>>

Mark(i) ==
    /\ i \in HandedOver
    /\ marked' = marked \union {i}
    /\ UNCHANGED <<about, underway, arrived, lost, refused>>

\* Clients let go of messages about the events S, of which they may hold others.
LetGo(S) == underway' \subseteq underway /\ underway \ S \subseteq underway'

Arrive(i) ==
    /\ i \in underway
    /\ arrived' = arrived \union {i}
    /\ LetGo({i})
    /\ UNCHANGED <<about, lost, refused, marked>>

Lose(S) ==
    /\ S \subseteq underway
    /\ lost' = lost \union S
    /\ LetGo(S)
    /\ UNCHANGED <<about, arrived, refused, marked>>

Next ==
    \/ \E i \in Ids :
         \/ \E g \in Aggregates : Commit(i, g)
         \/ HandOver(i) \/ Refuse(i) \/ Mark(i) \/ Arrive(i)
    \/ \E S \in SUBSET Ids : Lose(S)

Spec == Init /\ [][Next]_vars
=============================================================================
