-------------------------- MODULE NotificationLedger --------------------------
(***************************************************************************)
(* What the notification service promises about the events it receives:    *)
(* every reception opens a job or is dropped at once; an open job is only  *)
(* ever closed by a notification in the gateway, as a dead letter or by    *)
(* being dropped; and no process of the gateway notifies a key twice.      *)
(* There are no replicas, channels, workers, retries or connections here;  *)
(* Notification, which has them all, implements this module.               *)
(*                                                                         *)
(* The promise is the one the code can keep: a POST outlives the patience  *)
(* of its sender, so that a dead letter or a dropped job may be notified   *)
(* after all, and a restarted gateway knows no key.                        *)
(***************************************************************************)
EXTENDS Sequences

CONSTANTS Recurring     \* keys that several receptions may have

VARIABLES received,     \* keys of all receptions
          open,         \* keys of jobs that are not closed yet
          late,         \* keys of POSTs nobody waits for, still under way
          unanswered,   \* keys of which some POST was never answered
          seen,         \* keys the gateway has accepted since it was started
          log,          \* its notifications, in their order
          ever,         \* keys any process of the gateway has accepted
          dlq,          \* keys of the dead letters
          forgone       \* keys of dropped jobs

gateway == <<seen, log, ever>>
vars    == <<received, open, late, unanswered, gateway, dlq, forgone>>

Init ==
    /\ received = {} /\ open = {} /\ late = {} /\ unanswered = {}
    /\ seen = {} /\ log = <<>> /\ ever = {} /\ dlq = {} /\ forgone = {}

\* Only events that carry their time have a key again.
Receive(k) ==
    /\ k \in received => k \in Recurring
    /\ received' = received \union {k}
    /\ \/ open' = open \union {k} /\ UNCHANGED forgone
       \/ forgone' = forgone \union {k} /\ UNCHANGED open
    /\ UNCHANGED <<late, unanswered, gateway, dlq>>

\* One job of each of these keys is closed; others may have a key that recurs.
Close(K) ==
    /\ K \subseteq open /\ open' \subseteq open
    /\ open \ K \subseteq open' /\ open' \intersect K \subseteq Recurring

Accept(k) ==
    /\ k \notin seen
    /\ seen' = seen \union {k}
    /\ log' = Append(log, k)
    /\ ever' = ever \union {k}

\* The gateway answers 200.
Notify(k) ==
    /\ Close({k})
    /\ Accept(k) \/ (k \in seen /\ UNCHANGED gateway)
    /\ UNCHANGED <<received, late, unanswered, dlq, forgone>>

\* The sender no longer waits for its POST.
GiveUp(k) ==
    /\ k \in open
    /\ late' = late \union {k} /\ unanswered' = unanswered \union {k}
    /\ UNCHANGED <<received, open, gateway, dlq, forgone>>

HandleLate(k) ==
    /\ k \in late
    /\ late' = late \ {k}
    /\ Accept(k) \/ UNCHANGED gateway
    /\ UNCHANGED <<received, open, unanswered, dlq, forgone>>

\* A dead letter was not notified, as far as answers and keys tell.
Bury(k) ==
    /\ Close({k})
    /\ k \in ever => k \in unanswered \union Recurring
    /\ dlq' = dlq \union {k}
    /\ UNCHANGED <<received, late, unanswered, gateway, forgone>>

\* Of these jobs, some have a POST under way.
Drop(K, sent) ==
    /\ Close(K)
    /\ forgone' = forgone \union K
    /\ late' = late \union sent /\ unanswered' = unanswered \union sent
    /\ UNCHANGED <<received, gateway, dlq>>

RestartGateway ==
    /\ seen' = {} /\ log' = <<>> /\ late' = {}
    /\ UNCHANGED <<received, open, unanswered, ever, dlq, forgone>>

Next ==
    \/ \E k \in received' : Receive(k)
    \/ \E k \in open : Notify(k) \/ GiveUp(k) \/ Bury(k)
    \/ \E k \in late : HandleLate(k)
    \/ \E K \in SUBSET open : \E sent \in SUBSET K : Drop(K, sent)
    \/ RestartGateway

Spec == Init /\ [][Next]_vars
=============================================================================
