--------------------------- MODULE PromisesProofs ---------------------------
(***************************************************************************)
(* What the three promises amount to: invariants of EventDelivery, of      *)
(* Accounts and of NotificationLedger, each proved of the abstract         *)
(* specification alone.  By the refinements of OutboxRelayProofs,          *)
(* AuthSessionsProofs and NotificationProofs they hold of the services,    *)
(* however many replicas, requests and failures these have.                *)
(***************************************************************************)
EXTENDS Naturals, Sequences, SequenceTheorems, TLAPS

CONSTANTS Ids, Aggregates, None,
          Users, Passwords, Sessions, Codes, Null,
          Recurring

VARIABLES about, underway, arrived, lost, refused, marked,
          users, sessions, codes, mailed, had, parent, changes,
          received, open, late, unanswered, seen, log, ever, dlq, forgone

Delivery == INSTANCE EventDelivery
Account == INSTANCE Accounts
Ledger == INSTANCE NotificationLedger
-----------------------------------------------------------------------------
(* The delivery of events.                                                 *)
Tried == Delivery!HandedOver \union refused

(* Only committed events were tried, and every earlier one of the same     *)
(* aggregate was tried before.                                             *)
InOrder ==
    /\ about \in [Ids -> Aggregates \union {None}]
    /\ Tried \subseteq {i \in Ids : about[i] # None}
    /\ \A i \in Tried, j \in Ids : j < i /\ about[j] = about[i] => j \in Tried
    /\ marked \subseteq Delivery!HandedOver

LEMMA CommitInOrder ==
    ASSUME InOrder, NEW i \in Ids, NEW g \in Aggregates, Delivery!Commit(i, g)
    PROVE  InOrder'
<1>1. Tried' = Tried /\ Delivery!HandedOver' = Delivery!HandedOver /\ marked' = marked
    BY DEF Delivery!Commit, Tried, Delivery!HandedOver
<1>2. about' = [about EXCEPT ![i] = g] /\ about[i] = None /\ i \notin Tried
    BY DEF Delivery!Commit, Delivery!Exists, InOrder
<1>3. ASSUME NEW k \in Tried, NEW j \in Ids, j < k, about'[j] = about'[k]
      PROVE  j \in Tried
    <2>1. k \in Ids /\ k # i /\ about'[k] = about[k] BY <1>2 DEF InOrder
    <2>2. j # i BY <1>2, <1>3, <2>1 DEF Delivery!Commit, InOrder
    <2>3. about[j] = about[k] BY <1>2, <1>3, <2>1, <2>2 DEF InOrder
    <2> QED BY <1>3, <2>3 DEF InOrder
<1>4. about' \in [Ids -> Aggregates \union {None}] BY <1>2 DEF InOrder
<1>5. Tried \subseteq {k \in Ids : about'[k] # None} BY <1>2 DEF InOrder
<1> QED BY <1>1, <1>3, <1>4, <1>5 DEF InOrder

(* What is tried next is in line, and nothing vanishes.                    *)
LEMMA TryInOrder ==
    ASSUME InOrder, about' = about, NEW i \in Ids,
           about[i] # None, Delivery!InLine(i), Tried' = Tried \union {i},
           marked' \subseteq Delivery!HandedOver'
    PROVE  InOrder'
<1>1. \A j \in Ids : j < i /\ about[j] = about[i] => j \in Tried
    BY DEF Delivery!InLine, Tried
<1> QED BY <1>1 DEF InOrder

LEMMA DeliveryStep == InOrder /\ [Delivery!Next]_(Delivery!vars) => InOrder'
<1> SUFFICES ASSUME InOrder, [Delivery!Next]_(Delivery!vars) PROVE InOrder'
    OBVIOUS
<1> USE DEF Tried, Delivery!HandedOver
<1>1. ASSUME NEW i \in Ids, NEW g \in Aggregates, Delivery!Commit(i, g) PROVE InOrder'
    BY <1>1, CommitInOrder
<1>2. ASSUME NEW i \in Ids, Delivery!HandOver(i) \/ Delivery!Refuse(i) PROVE InOrder'
    <2>1. /\ about' = about /\ Tried' = Tried \union {i}
        BY <1>2 DEF Delivery!HandOver, Delivery!Refuse
    <2>2. about[i] # None /\ Delivery!InLine(i)
        BY <1>2 DEF Delivery!HandOver, Delivery!Refuse, Delivery!Exists
    <2>3. marked' \subseteq Delivery!HandedOver'
        BY <1>2 DEF Delivery!HandOver, Delivery!Refuse, InOrder
    <2> HIDE DEF Tried, Delivery!HandedOver
    <2> QED BY <2>1, <2>2, <2>3, TryInOrder
<1>3. ASSUME NEW i \in Ids, Delivery!Mark(i) PROVE InOrder'
    BY <1>3 DEF Delivery!Mark, InOrder
<1>4. ASSUME NEW i \in Ids, Delivery!Arrive(i) PROVE InOrder'
    <2>1. Delivery!HandedOver' = Delivery!HandedOver /\ UNCHANGED <<about, refused, marked>>
        BY <1>4 DEF Delivery!Arrive, Delivery!LetGo
    <2> QED BY <2>1 DEF InOrder
<1>5. ASSUME NEW S \in SUBSET Ids, Delivery!Lose(S) PROVE InOrder'
    <2>1. Delivery!HandedOver' = Delivery!HandedOver /\ UNCHANGED <<about, refused, marked>>
        BY <1>5 DEF Delivery!Lose, Delivery!LetGo
    <2> QED BY <2>1 DEF InOrder
<1>6. CASE UNCHANGED Delivery!vars BY <1>6 DEF Delivery!vars, InOrder
<1> QED BY <1>1, <1>2, <1>3, <1>4, <1>5, <1>6 DEF Delivery!Next

(* Whoever implements EventDelivery tries only committed events, those of  *)
(* an aggregate in the order of their rows, and marks none before.         *)
THEOREM DeliveryInOrder == Delivery!Spec => []InOrder
<1>1. Delivery!Init => InOrder BY DEF Delivery!Init, InOrder, Tried, Delivery!HandedOver
<1> QED BY <1>1, DeliveryStep, PTL DEF Delivery!Spec
-----------------------------------------------------------------------------
(* The accounts.                                                           *)
UserRows == [password : Passwords, verified : BOOLEAN]
SessionRows == [user : Users, revoked : BOOLEAN]
CodeRows == [user : Users, kind : {"email", "password_reset"}, used : BOOLEAN]

NullIsNoRow == Null \notin UserRows \union SessionRows \union CodeRows \union Sessions

AccountRows ==
    /\ users \in [Users -> UserRows \union {Null}]
    /\ sessions \in [Sessions -> SessionRows \union {Null}]
    /\ codes \in [Codes -> CodeRows \union {Null}]
    /\ had \in [Users -> SUBSET Passwords]
    /\ parent \in [Sessions -> Sessions \union {Null}]

ChangeOK(r) ==
    /\ r.user \in Users
    /\ \A s \in r.ends : s \in Sessions /\ sessions[s] # Null /\ sessions[s].user = r.user

(* An address is verified by a code that was used, and a code is used that *)
(* was mailed; a password is one its user has chosen; sessions and codes   *)
(* have owners; an exchanged token is dead and of the same user; a change  *)
(* of a password ends sessions of its own user.                            *)
Earned ==
    /\ AccountRows
    /\ \A r \in changes : ChangeOK(r)
    /\ \A u \in Users : users[u] # Null =>
          users[u].password \in had[u] /\ (users[u].verified => Account!Proven(u))
    /\ \A c \in Codes : codes[c] # Null =>
          users[codes[c].user] # Null /\ (codes[c].used => c \in mailed)
    /\ \A s \in Sessions : sessions[s] # Null => users[sessions[s].user] # Null
    /\ \A s \in Sessions : parent[s] # Null =>
          /\ sessions[s] # Null /\ sessions[parent[s]] # Null
          /\ sessions[parent[s]].revoked
          /\ sessions[parent[s]].user = sessions[s].user

(* What every step leaves of the rows of sessions and codes.               *)
RowsStay ==
    /\ \A s \in Sessions : sessions[s] # Null =>
          /\ sessions'[s] # Null /\ sessions'[s].user = sessions[s].user
          /\ sessions[s].revoked => sessions'[s].revoked
    /\ \A c \in Codes : codes[c] # Null =>
          /\ codes'[c] # Null /\ codes'[c].user = codes[c].user
          /\ codes'[c].kind = codes[c].kind /\ (codes[c].used => codes'[c].used)

LEMMA ProvenStays ==
    ASSUME RowsStay, NEW u, Account!Proven(u) PROVE Account!Proven(u)'
BY DEF RowsStay, Account!Proven

LEMMA RevokeRows ==
    ASSUME NullIsNoRow, AccountRows, NEW S \in SUBSET Sessions, Account!Revoke(S),
           \A s \in S : sessions[s] # Null
    PROVE  /\ sessions' \in [Sessions -> SessionRows \union {Null}]
           /\ \A s \in Sessions :
                 /\ sessions'[s] = Null <=> sessions[s] = Null
                 /\ sessions[s] # Null =>
                       /\ sessions'[s].user = sessions[s].user
                       /\ sessions[s].revoked => sessions'[s].revoked
<1>1. ASSUME NEW s \in Sessions
      PROVE  /\ sessions'[s] \in SessionRows \union {Null}
             /\ sessions'[s] = Null <=> sessions[s] = Null
             /\ sessions[s] # Null =>
                   /\ sessions'[s].user = sessions[s].user
                   /\ sessions[s].revoked => sessions'[s].revoked
    <2>1. CASE s \notin S BY <2>1 DEF Account!Revoke, AccountRows
    <2>2. CASE s \in S
        <3>1. sessions'[s] = [sessions[s] EXCEPT !.revoked = TRUE]
            BY <2>2 DEF Account!Revoke
        <3>2. sessions[s] \in SessionRows BY <2>2 DEF AccountRows
        <3>3. sessions'[s] \in SessionRows /\ sessions'[s].user = sessions[s].user
              /\ sessions'[s].revoked
            BY <3>1, <3>2 DEF SessionRows
        <3> QED BY <3>2, <3>3 DEF NullIsNoRow
    <2> QED BY <2>1, <2>2
<1>2. sessions' = [s \in Sessions |-> sessions'[s]] BY DEF Account!Revoke
<1> QED BY <1>1, <1>2

LEMMA SpendRows ==
    ASSUME NullIsNoRow, AccountRows, NEW c \in Codes, NEW u, NEW k, Account!Spend(c, u, k)
    PROVE  /\ codes' \in [Codes -> CodeRows \union {Null}]
           /\ \A d \in Codes :
                 /\ codes'[d] = Null <=> codes[d] = Null
                 /\ codes[d] # Null =>
                       /\ codes'[d].user = codes[d].user /\ codes'[d].kind = codes[d].kind
                       /\ codes[d].used => codes'[d].used
                       /\ codes'[d].used => codes[d].used \/ d \in mailed
<1>1. codes[c] \in CodeRows /\ c \in mailed BY DEF Account!Spend, AccountRows
<1>2. codes' = [codes EXCEPT ![c].used = TRUE] BY DEF Account!Spend
<1>3. /\ codes'[c] \in CodeRows /\ codes'[c].user = codes[c].user
      /\ codes'[c].kind = codes[c].kind /\ codes'[c].used
    BY <1>1, <1>2 DEF AccountRows, CodeRows
<1>4. \A d \in Codes : d # c => codes'[d] = codes[d] BY <1>2 DEF AccountRows
<1>5. codes' \in [Codes -> CodeRows \union {Null}] BY <1>2, <1>3 DEF AccountRows
<1> QED BY <1>1, <1>3, <1>4, <1>5 DEF NullIsNoRow

(* A step adds only what is earned: to the rows of users, of codes and of  *)
(* sessions, and to the exchanged tokens.                                  *)
UsersFollow ==
    \A u \in Users :
        /\ had[u] \subseteq had'[u]
        /\ users[u] # Null => users'[u] # Null
        /\ \/ users'[u] = users[u]
           \/ /\ users'[u].password \in had'[u]
              /\ users'[u].verified => Account!Proven(u)'

CodesFollow ==
    /\ mailed \subseteq mailed'
    /\ \A c \in Codes : codes'[c] # Null =>
          \/ codes[c] # Null /\ codes'[c].user = codes[c].user
             /\ (codes'[c].used => codes[c].used \/ c \in mailed)
          \/ users[codes'[c].user] # Null /\ ~codes'[c].used

SessionsFollow ==
    \A s \in Sessions : sessions'[s] # Null =>
        sessions[s] # Null \/ users[sessions'[s].user] # Null

ParentsFollow ==
    \A s \in Sessions : parent'[s] # Null =>
        \/ parent'[s] = parent[s]
        \/ /\ sessions'[s] # Null /\ sessions[parent'[s]] # Null
           /\ sessions[parent'[s]].revoked
           /\ sessions[parent'[s]].user = sessions'[s].user

ChangesFollow == \A r \in changes' : r \in changes \/ ChangeOK(r)

LEMMA EarnedKept ==
    ASSUME Earned, RowsStay, AccountRows',
           UsersFollow, CodesFollow, SessionsFollow, ParentsFollow, ChangesFollow
    PROVE  Earned'
<1>1. (\A u \in Users : users[u] # Null =>
          users[u].password \in had[u] /\ (users[u].verified => Account!Proven(u)))'
    BY ProvenStays DEF Earned, AccountRows, UsersFollow
<1>2. \A c \in Codes : codes[c] # Null => codes[c].user \in Users
    BY DEF Earned, AccountRows, CodeRows
<1>3. \A c \in Codes : codes'[c] # Null => codes'[c].user \in Users
    BY DEF AccountRows, CodeRows
<1>4. (\A c \in Codes : codes[c] # Null =>
          users[codes[c].user] # Null /\ (codes[c].used => c \in mailed))'
    BY <1>2, <1>3 DEF Earned, RowsStay, UsersFollow, CodesFollow
<1>5. \A s \in Sessions : sessions'[s] # Null => sessions'[s].user \in Users
    BY DEF AccountRows, SessionRows
<1>6. (\A s \in Sessions : sessions[s] # Null => users[sessions[s].user] # Null)'
    BY <1>5 DEF Earned, RowsStay, UsersFollow, SessionsFollow
<1>7. \A s \in Sessions : parent'[s] # Null => parent'[s] \in Sessions
    BY DEF AccountRows
<1>8. (\A s \in Sessions : parent[s] # Null =>
          /\ sessions[s] # Null /\ sessions[parent[s]] # Null
          /\ sessions[parent[s]].revoked
          /\ sessions[parent[s]].user = sessions[s].user)'
    BY <1>7 DEF Earned, RowsStay, ParentsFollow
<1>9. ASSUME NEW r \in changes' PROVE ChangeOK(r)'
    <2>1. ChangeOK(r) BY DEF Earned, ChangesFollow
    <2> QED BY <2>1 DEF ChangeOK, RowsStay
<1> QED BY <1>1, <1>4, <1>6, <1>8, <1>9 DEF Earned

(* A row of a user is written.                                             *)
LEMMA WriteRows ==
    ASSUME NullIsNoRow, AccountRows, NEW u \in Users, NEW row \in UserRows,
           Account!Write(u, row), RowsStay
    PROVE  /\ users' \in [Users -> UserRows \union {Null}]
           /\ \A v \in Users : users[v] # Null => users'[v] # Null
           /\ \A v \in Users : v # u => users'[v] = users[v]
           /\ users'[u] = row /\ (row.verified => Account!Proven(u)')
BY ProvenStays DEF Account!Write, AccountRows, NullIsNoRow

LEMMA ChooseHad ==
    ASSUME AccountRows, NEW u \in Users, NEW p \in Passwords, Account!Choose(u, p)
    PROVE  /\ had' \in [Users -> SUBSET Passwords] /\ p \in had'[u]
           /\ \A v \in Users : had[v] \subseteq had'[v]
BY DEF Account!Choose, AccountRows

LEMMA SignUpEarned ==
    ASSUME NullIsNoRow, Earned, NEW u \in Users, NEW p \in Passwords, Account!SignUp(u, p)
    PROVE  Earned' /\ RowsStay
<1>0. AccountRows BY DEF Earned
<1> DEFINE row == [password |-> p, verified |-> FALSE]
<1>1. row \in UserRows BY DEF UserRows
<1>2. users' = [users EXCEPT ![u] = row] /\ Account!Choose(u, p) /\ users[u] = Null
      /\ UNCHANGED <<sessions, codes, mailed, parent, changes>>
    BY DEF Account!SignUp
<1>3. RowsStay BY <1>2 DEF RowsStay
<1>4. had' \in [Users -> SUBSET Passwords] /\ p \in had'[u]
      /\ \A v \in Users : had[v] \subseteq had'[v]
    BY <1>0, <1>2, ChooseHad
<1>5. users'[u] = row /\ \A v \in Users : v # u => users'[v] = users[v]
    BY <1>0, <1>2 DEF AccountRows
<1>6. AccountRows' BY <1>0, <1>1, <1>2, <1>4 DEF AccountRows
<1>7. row.password = p /\ ~row.verified OBVIOUS
<1> HIDE DEF row
<1>8. row # Null BY <1>1 DEF NullIsNoRow
<1>9. UsersFollow BY <1>2, <1>4, <1>5, <1>7, <1>8 DEF UsersFollow
<1>10. CodesFollow /\ SessionsFollow /\ ParentsFollow /\ ChangesFollow
    BY <1>2 DEF CodesFollow, SessionsFollow, ParentsFollow, ChangesFollow
<1> QED BY <1>3, <1>6, <1>9, <1>10, EarnedKept

LEMMA RewriteEarned ==
    ASSUME NullIsNoRow, Earned, NEW u \in Users, NEW row \in UserRows, Account!Rewrite(u, row)
    PROVE  Earned' /\ RowsStay
<1>0. AccountRows BY DEF Earned
<1>1. Account!Write(u, row) /\ row.password \in had[u]
      /\ UNCHANGED <<sessions, codes, mailed, had, parent, changes>>
    BY DEF Account!Rewrite
<1>2. RowsStay BY <1>1 DEF RowsStay
<1>3. /\ users' \in [Users -> UserRows \union {Null}]
      /\ \A v \in Users : users[v] # Null => users'[v] # Null
      /\ \A v \in Users : v # u => users'[v] = users[v]
      /\ users'[u] = row /\ (row.verified => Account!Proven(u)')
    BY <1>0, <1>1, <1>2, WriteRows
<1>4. AccountRows' BY <1>0, <1>1, <1>3 DEF AccountRows
<1>5. UsersFollow BY <1>1, <1>3 DEF UsersFollow
<1>6. CodesFollow /\ SessionsFollow /\ ParentsFollow /\ ChangesFollow
    BY <1>1 DEF CodesFollow, SessionsFollow, ParentsFollow, ChangesFollow
<1> QED BY <1>2, <1>4, <1>5, <1>6, EarnedKept

(* A change of a password begins, or is given up.                          *)
LEMMA StartEarned ==
    ASSUME NullIsNoRow, Earned, NEW u \in Users,
           \/ \E s \in Sessions : Account!StartChange(u, s)
           \/ \E c \in Codes : Account!StartReset(u, c)
    PROVE  Earned' /\ RowsStay
<1>1. PICK r : Account!Start(r) /\ ChangeOK(r)
    <2>1. \A t \in Account!LiveSessionsOf(u) :
              t \in Sessions /\ sessions[t] # Null /\ sessions[t].user = u
        BY DEF Account!LiveSessionsOf
    <2>2. ASSUME NEW s \in Sessions, Account!StartChange(u, s)
          PROVE  \E r : Account!Start(r) /\ ChangeOK(r)
        <3> DEFINE r == [user |-> u, ends |-> Account!LiveSessionsOf(u) \ {s}, code |-> Null]
        <3>1. Account!Start(r) BY <2>2 DEF Account!StartChange
        <3>2. r.user = u /\ r.ends = Account!LiveSessionsOf(u) \ {s} OBVIOUS
        <3> HIDE DEF r
        <3>3. ChangeOK(r) BY <2>1, <3>2 DEF ChangeOK
        <3> QED BY <3>1, <3>3
    <2>3. ASSUME NEW c \in Codes, Account!StartReset(u, c)
          PROVE  \E r : Account!Start(r) /\ ChangeOK(r)
        <3> DEFINE r == [user |-> u, ends |-> Account!LiveSessionsOf(u), code |-> c]
        <3>1. Account!Start(r) BY <2>3 DEF Account!StartReset
        <3>2. r.user = u /\ r.ends = Account!LiveSessionsOf(u) OBVIOUS
        <3> HIDE DEF r
        <3>3. ChangeOK(r) BY <2>1, <3>2 DEF ChangeOK
        <3> QED BY <3>1, <3>3
    <2> QED BY <2>2, <2>3
<1>2. /\ changes' = changes \union {r}
      /\ UNCHANGED <<users, sessions, codes, mailed, had, parent>>
    BY <1>1 DEF Account!Start, Account!tables
<1>3. RowsStay BY <1>2 DEF RowsStay
<1>4. AccountRows' BY <1>2 DEF Earned, AccountRows
<1>5. UsersFollow /\ CodesFollow /\ SessionsFollow /\ ParentsFollow /\ ChangesFollow
    BY <1>1, <1>2 DEF UsersFollow, CodesFollow, SessionsFollow, ParentsFollow, ChangesFollow
<1> QED BY <1>3, <1>4, <1>5, EarnedKept

LEMMA AbortEarned ==
    ASSUME NullIsNoRow, Earned, NEW r \in changes, Account!Abort(r)
    PROVE  Earned' /\ RowsStay
<1>1. /\ changes' = changes \ {r}
      /\ UNCHANGED <<users, sessions, codes, mailed, had, parent>>
    BY DEF Account!Abort, Account!tables
<1>2. RowsStay BY <1>1 DEF RowsStay
<1>3. AccountRows' BY <1>1 DEF Earned, AccountRows
<1>4. UsersFollow /\ CodesFollow /\ SessionsFollow /\ ParentsFollow /\ ChangesFollow
    BY <1>1 DEF UsersFollow, CodesFollow, SessionsFollow, ParentsFollow, ChangesFollow
<1> QED BY <1>2, <1>3, <1>4, EarnedKept

(* A password changes: with the sessions, and with the code that is spent. *)
LEMMA FinishEarned ==
    ASSUME NullIsNoRow, Earned, NEW r \in changes, NEW row \in UserRows,
           Account!ChangePassword(r, row) \/ Account!ResetPassword(r, row)
    PROVE  Earned' /\ RowsStay
<1>0. AccountRows /\ row.password \in Passwords BY DEF Earned, UserRows
<1>1. PICK u \in Users : u = r.user BY DEF Earned, ChangeOK
<1>2. /\ Account!Write(u, row) /\ Account!Choose(u, row.password) /\ Account!Revoke(r.ends)
      /\ changes' = changes \ {r} /\ UNCHANGED <<mailed, parent>>
    BY <1>1 DEF Account!ChangePassword, Account!ResetPassword, Account!Finish
<1>3. /\ sessions' \in [Sessions -> SessionRows \union {Null}]
      /\ \A t \in Sessions :
            /\ sessions'[t] = Null <=> sessions[t] = Null
            /\ sessions[t] # Null =>
                  /\ sessions'[t].user = sessions[t].user
                  /\ sessions[t].revoked => sessions'[t].revoked
    <2>1. r.ends \in SUBSET Sessions /\ \A t \in r.ends : sessions[t] # Null
        BY DEF Earned, ChangeOK
    <2> QED BY <1>0, <1>2, <2>1, RevokeRows
<1>4. /\ codes' \in [Codes -> CodeRows \union {Null}]
      /\ \A d \in Codes :
            /\ codes'[d] = Null <=> codes[d] = Null
            /\ codes[d] # Null =>
                  /\ codes'[d].user = codes[d].user /\ codes'[d].kind = codes[d].kind
                  /\ codes[d].used => codes'[d].used
                  /\ codes'[d].used => codes[d].used \/ d \in mailed
    <2>1. CASE Account!ChangePassword(r, row)
        <3>1. codes' = codes BY <2>1 DEF Account!ChangePassword
        <3>2. \A d \in Codes : codes[d] # Null => (codes[d].used => d \in mailed)
            BY DEF Earned
        <3> QED BY <1>0, <3>1, <3>2 DEF AccountRows
    <2>2. CASE Account!ResetPassword(r, row)
        <3>1. r.code \in Codes /\ Account!Spend(r.code, r.user, "password_reset")
            BY <2>2 DEF Account!ResetPassword
        <3> QED BY <1>0, <3>1, SpendRows
    <2> QED BY <2>1, <2>2
<1>5. RowsStay BY <1>3, <1>4 DEF RowsStay
<1>6. /\ users' \in [Users -> UserRows \union {Null}]
      /\ \A v \in Users : users[v] # Null => users'[v] # Null
      /\ \A v \in Users : v # u => users'[v] = users[v]
      /\ users'[u] = row /\ (row.verified => Account!Proven(u)')
    BY <1>0, <1>2, <1>5, WriteRows
<1>7. had' \in [Users -> SUBSET Passwords] /\ row.password \in had'[u]
      /\ \A v \in Users : had[v] \subseteq had'[v]
    BY <1>0, <1>2, ChooseHad
<1>8. AccountRows' BY <1>0, <1>2, <1>3, <1>4, <1>6, <1>7 DEF AccountRows
<1>9. UsersFollow BY <1>6, <1>7 DEF UsersFollow
<1>10. CodesFollow BY <1>2, <1>4 DEF CodesFollow
<1>11. SessionsFollow /\ ParentsFollow /\ ChangesFollow
    BY <1>2, <1>3 DEF SessionsFollow, ParentsFollow, ChangesFollow
<1> QED BY <1>5, <1>8, <1>9, <1>10, <1>11, EarnedKept

LEMMA CodesEarned ==
    ASSUME NullIsNoRow, Earned, NEW c \in Codes, NEW u \in Users,
           \/ \E kind \in {"email", "password_reset"} : Account!Issue(c, u, kind)
           \/ Account!Verify(c, u)
           \/ Account!Mail(c)
    PROVE  Earned' /\ RowsStay
<1>0. AccountRows BY DEF Earned
<1>1. UNCHANGED <<users, sessions, had, parent, changes>> /\ mailed \subseteq mailed'
    BY DEF Account!Issue, Account!Verify, Account!Mail
<1>2. ASSUME codes' \in [Codes -> CodeRows \union {Null}],
             \A d \in Codes :
               \/ codes'[d] = codes[d]
               \/ /\ codes[d] # Null /\ codes'[d] # Null
                  /\ codes'[d].user = codes[d].user /\ codes'[d].kind = codes[d].kind
                  /\ codes[d].used => codes'[d].used
                  /\ codes'[d].used => codes[d].used \/ d \in mailed
               \/ codes[d] = Null /\ users[codes'[d].user] # Null /\ ~codes'[d].used
      PROVE  Earned' /\ RowsStay
    <2>1. RowsStay BY <1>1, <1>2 DEF RowsStay
    <2>2. AccountRows' BY <1>0, <1>1, <1>2 DEF AccountRows
    <2>3. UsersFollow /\ SessionsFollow /\ ParentsFollow /\ ChangesFollow
        BY <1>1 DEF UsersFollow, SessionsFollow, ParentsFollow, ChangesFollow
    <2>4. CodesFollow BY <1>1, <1>2 DEF CodesFollow
    <2> QED BY <2>1, <2>2, <2>3, <2>4, EarnedKept
<1>3. ASSUME NEW kind \in {"email", "password_reset"}, Account!Issue(c, u, kind)
      PROVE  Earned' /\ RowsStay
    <2> DEFINE row == [user |-> u, kind |-> kind, used |-> FALSE]
    <2>1. codes' = [codes EXCEPT ![c] = row] /\ codes[c] = Null /\ users[u] # Null
        BY <1>3 DEF Account!Issue
    <2>2. row \in CodeRows /\ row.user = u /\ ~row.used BY DEF CodeRows
    <2> HIDE DEF row
    <2>3. codes' \in [Codes -> CodeRows \union {Null}] /\ codes'[c] = row
          /\ \A d \in Codes : d # c => codes'[d] = codes[d]
        BY <1>0, <2>1, <2>2 DEF AccountRows
    <2> QED BY <1>2, <2>1, <2>2, <2>3
<1>4. CASE Account!Verify(c, u)
    <2>1. Account!Spend(c, u, "email") BY <1>4 DEF Account!Verify
    <2>2. /\ codes' \in [Codes -> CodeRows \union {Null}]
          /\ \A d \in Codes :
                /\ codes'[d] = Null <=> codes[d] = Null
                /\ codes[d] # Null =>
                      /\ codes'[d].user = codes[d].user /\ codes'[d].kind = codes[d].kind
                      /\ codes[d].used => codes'[d].used
                      /\ codes'[d].used => codes[d].used \/ d \in mailed
        BY <1>0, <2>1, SpendRows
    <2> QED BY <1>2, <2>2
<1>5. CASE Account!Mail(c)
    <2>1. codes' = codes BY <1>5 DEF Account!Mail
    <2> QED BY <1>0, <1>2, <2>1 DEF AccountRows
<1> QED BY <1>3, <1>4, <1>5

LEMMA InsertRows ==
    ASSUME NullIsNoRow, AccountRows, NEW s \in Sessions, NEW u \in Users, Account!Insert(s, u)
    PROVE  /\ sessions' \in [Sessions -> SessionRows \union {Null}]
           /\ sessions[s] = Null /\ sessions'[s] # Null /\ sessions'[s].user = u
           /\ users[u] # Null
           /\ \A t \in Sessions : t # s => sessions'[t] = sessions[t]
<1> DEFINE row == [user |-> u, revoked |-> FALSE]
<1>1. row \in SessionRows /\ row.user = u BY DEF SessionRows
<1>2. sessions' = [sessions EXCEPT ![s] = row] /\ sessions[s] = Null /\ users[u] # Null
    BY DEF Account!Insert
<1> HIDE DEF row
<1>3. row # Null BY <1>1 DEF NullIsNoRow
<1> QED BY <1>1, <1>2, <1>3 DEF AccountRows

LEMMA SessionEarned ==
    ASSUME NullIsNoRow, Earned, NEW s \in Sessions, Account!Session(s)
    PROVE  Earned' /\ RowsStay
<1>0. AccountRows BY DEF Earned
<1>1. UNCHANGED <<users, codes, mailed, had, changes>>
    BY DEF Account!Session, Account!Open, Account!Renew, Account!End
<1>2. ASSUME NEW u \in Users, Account!Open(s, u) PROVE Earned' /\ RowsStay
    <2>1. /\ sessions' \in [Sessions -> SessionRows \union {Null}]
          /\ sessions[s] = Null /\ sessions'[s] # Null /\ sessions'[s].user = u
          /\ users[u] # Null
          /\ \A t \in Sessions : t # s => sessions'[t] = sessions[t]
        BY <1>0, <1>2, InsertRows DEF Account!Open
    <2>2. parent' = parent BY <1>2 DEF Account!Open
    <2>3. RowsStay BY <1>1, <2>1 DEF RowsStay
    <2>4. AccountRows' BY <1>0, <1>1, <2>1, <2>2 DEF AccountRows
    <2>5. UsersFollow /\ CodesFollow /\ ChangesFollow
        BY <1>1 DEF UsersFollow, CodesFollow, ChangesFollow
    <2>6. SessionsFollow /\ ParentsFollow
        BY <2>1, <2>2 DEF SessionsFollow, ParentsFollow
    <2> QED BY <2>3, <2>4, <2>5, <2>6, EarnedKept
<1>3. ASSUME NEW old \in Sessions, Account!Renew(s, old) PROVE Earned' /\ RowsStay
    <2>1. sessions[old] # Null /\ sessions[old].revoked /\ sessions[old].user \in Users
        BY <1>0, <1>3 DEF Account!Renew, AccountRows, SessionRows
    <2>2. /\ sessions' \in [Sessions -> SessionRows \union {Null}]
          /\ sessions[s] = Null /\ sessions'[s] # Null
          /\ sessions'[s].user = sessions[old].user
          /\ users[sessions[old].user] # Null
          /\ \A t \in Sessions : t # s => sessions'[t] = sessions[t]
        BY <1>0, <1>3, <2>1, InsertRows DEF Account!Renew
    <2>3. parent' = [parent EXCEPT ![s] = old] BY <1>3 DEF Account!Renew
    <2>4. RowsStay BY <1>1, <2>2 DEF RowsStay
    <2>5. AccountRows' BY <1>0, <1>1, <2>2, <2>3 DEF AccountRows
    <2>6. parent'[s] = old /\ \A t \in Sessions : t # s => parent'[t] = parent[t]
        BY <1>0, <2>3 DEF AccountRows
    <2>7. UsersFollow /\ CodesFollow /\ ChangesFollow
        BY <1>1 DEF UsersFollow, CodesFollow, ChangesFollow
    <2>8. SessionsFollow BY <2>2 DEF SessionsFollow
    <2>9. ParentsFollow BY <2>1, <2>2, <2>6 DEF ParentsFollow
    <2> QED BY <2>4, <2>5, <2>7, <2>8, <2>9, EarnedKept
<1>4. CASE Account!End(s)
    <2>1. /\ sessions' \in [Sessions -> SessionRows \union {Null}]
          /\ \A t \in Sessions :
                /\ sessions'[t] = Null <=> sessions[t] = Null
                /\ sessions[t] # Null =>
                      /\ sessions'[t].user = sessions[t].user
                      /\ sessions[t].revoked => sessions'[t].revoked
        BY <1>0, <1>4, RevokeRows DEF Account!End
    <2>2. parent' = parent BY <1>4 DEF Account!End
    <2>3. RowsStay BY <1>1, <2>1 DEF RowsStay
    <2>4. AccountRows' BY <1>0, <1>1, <2>1, <2>2 DEF AccountRows
    <2>5. UsersFollow /\ CodesFollow /\ ChangesFollow
        BY <1>1 DEF UsersFollow, CodesFollow, ChangesFollow
    <2>6. SessionsFollow /\ ParentsFollow
        BY <2>1, <2>2 DEF SessionsFollow, ParentsFollow
    <2> QED BY <2>3, <2>4, <2>5, <2>6, EarnedKept
<1> QED BY <1>2, <1>3, <1>4 DEF Account!Session

LEMMA AccountStep ==
    ASSUME NullIsNoRow
    PROVE  Earned /\ [Account!Next]_(Account!vars) => Earned' /\ [RowsStay]_(Account!vars)
<1> SUFFICES ASSUME Earned, Account!Next PROVE Earned' /\ RowsStay
    BY DEF Account!vars, Account!tables, Earned, AccountRows, ChangeOK, Account!Proven
<1>1. ASSUME NEW u \in Users, Account!Account(u) PROVE Earned' /\ RowsStay
    <2>1. ASSUME NEW p \in Passwords, Account!SignUp(u, p) PROVE Earned' /\ RowsStay
        BY <2>1, SignUpEarned
    <2>2. ASSUME NEW row \in UserRows, Account!Rewrite(u, row) PROVE Earned' /\ RowsStay
        BY <2>2, RewriteEarned
    <2>3. ASSUME NEW c \in Codes,
                 \/ \E kind \in {"email", "password_reset"} : Account!Issue(c, u, kind)
                 \/ Account!Verify(c, u)
          PROVE  Earned' /\ RowsStay
        BY <2>3, CodesEarned
    <2> QED BY <1>1, <2>1, <2>2, <2>3, StartEarned DEF Account!Account, Account!Rows, UserRows
<1>2. ASSUME NEW c \in Codes, Account!Mail(c) PROVE Earned' /\ RowsStay
    <2>1. codes[c] # Null BY <1>2 DEF Account!Mail
    <2>2. codes[c].user \in Users BY <2>1 DEF Earned, AccountRows, CodeRows
    <2> QED BY <1>2, <2>2, CodesEarned
<1>3. ASSUME NEW r \in changes, Account!Change(r) PROVE Earned' /\ RowsStay
    BY <1>3, AbortEarned, FinishEarned DEF Account!Change, Account!Rows, UserRows
<1> QED BY <1>1, <1>2, <1>3, SessionEarned DEF Account!Next

(* Whoever implements Accounts verifies no address and changes no password *)
(* without what the owner has shown, and keeps no exchanged token alive;   *)
(* what is revoked, used or owned stays so.                                *)
THEOREM AccountsAreEarned ==
    ASSUME NullIsNoRow
    PROVE  Account!Spec => []Earned /\ [][RowsStay]_(Account!vars)
<1>1. Account!Init => Earned
    BY DEF Account!Init, Earned, AccountRows
<1>2. Earned /\ [Account!Next]_(Account!vars) => Earned' /\ [RowsStay]_(Account!vars)
    BY AccountStep
<1> QED BY <1>1, <1>2, PTL DEF Account!Spec
-----------------------------------------------------------------------------
(* The notifications.                                                      *)
(* Every key received is open, notified, a dead letter or dropped, and no  *)
(* other key is known anywhere; a key in two of these places recurs or was *)
(* left unanswered; the gateway's log lists what it has seen, each once.   *)
Accounted ==
    /\ received = open \union ever \union dlq \union forgone
    /\ unanswered \subseteq received
    /\ seen \subseteq ever /\ late \subseteq unanswered
    /\ open \intersect (dlq \union forgone) \subseteq Recurring
    /\ ever \intersect (open \union dlq) \subseteq unanswered \union Recurring

LogIsSeen ==
    /\ log \in Seq(seen)
    /\ \A k \in seen : \E i \in 1 .. Len(log) : log[i] = k
    /\ \A i, j \in 1 .. Len(log) : log[i] = log[j] => i = j

(* What is recorded stays, and only a key that recurs is opened again.     *)
RecordsStay ==
    /\ received \subseteq received' /\ unanswered \subseteq unanswered'
    /\ ever \subseteq ever' /\ dlq \subseteq dlq' /\ forgone \subseteq forgone'
    /\ (received \ open) \intersect open' \subseteq Recurring

LEMMA AcceptLogs ==
    ASSUME LogIsSeen, NEW k, Ledger!Accept(k) PROVE LogIsSeen'
<1>1. k \notin seen /\ seen' = seen \union {k} /\ log' = Append(log, k)
    BY DEF Ledger!Accept
<1>2. log \in Seq(seen') /\ log \in Seq(seen)
    BY <1>1, SeqMonotonic DEF LogIsSeen
<1>3. /\ log' \in Seq(seen') /\ Len(log') = Len(log) + 1 /\ log'[Len(log) + 1] = k
      /\ \A i \in 1 .. Len(log) : log'[i] = log[i]
    BY <1>1, <1>2, AppendProperties
<1>4. Len(log) \in Nat /\ \A i \in 1 .. Len(log) : log[i] \in seen
    BY <1>2, LenProperties, ElementOfSeq
<1>5. \A q \in seen' : \E i \in 1 .. Len(log') : log'[i] = q
    <2>1. ASSUME NEW q \in seen PROVE \E i \in 1 .. Len(log') : log'[i] = q
        <3>1. PICK i \in 1 .. Len(log) : log[i] = q BY DEF LogIsSeen
        <3>2. i \in 1 .. Len(log') /\ log'[i] = q BY <1>3, <1>4, <3>1
        <3> QED BY <3>2
    <2>2. Len(log) + 1 \in 1 .. Len(log') BY <1>3, <1>4
    <2> QED BY <1>1, <1>3, <2>1, <2>2
<1>6. ASSUME NEW i \in 1 .. Len(log'), NEW j \in 1 .. Len(log'), log'[i] = log'[j]
      PROVE  i = j
    <2>1. CASE i \in 1 .. Len(log) /\ j \in 1 .. Len(log)
        BY <1>3, <1>6, <2>1 DEF LogIsSeen
    <2>2. CASE i \in 1 .. Len(log) /\ j = Len(log) + 1
        BY <1>1, <1>3, <1>4, <1>6, <2>2
    <2>3. CASE i = Len(log) + 1 /\ j \in 1 .. Len(log)
        BY <1>1, <1>3, <1>4, <1>6, <2>3
    <2>4. (i \in 1 .. Len(log) \/ i = Len(log) + 1) /\ (j \in 1 .. Len(log) \/ j = Len(log) + 1)
        BY <1>3, <1>4
    <2> QED BY <2>1, <2>2, <2>3, <2>4
<1> QED BY <1>3, <1>5, <1>6 DEF LogIsSeen

(* The log changes when a key is accepted and when the gateway is restarted. *)
LEMMA LogStep == LogIsSeen /\ [Ledger!Next]_(Ledger!vars) => LogIsSeen'
<1> SUFFICES ASSUME LogIsSeen, [Ledger!Next]_(Ledger!vars) PROVE LogIsSeen'
    OBVIOUS
<1> USE DEF Ledger!gateway
<1>1. ASSUME NEW k, Ledger!Notify(k) \/ Ledger!HandleLate(k) PROVE LogIsSeen'
    <2>1. Ledger!Accept(k) \/ UNCHANGED <<seen, log>>
        BY <1>1 DEF Ledger!Notify, Ledger!HandleLate
    <2> QED BY <2>1, AcceptLogs DEF LogIsSeen
<1>2. CASE Ledger!RestartGateway
    <2>1. seen' = {} /\ log' = << >> BY <1>2 DEF Ledger!RestartGateway
    <2>2. log' \in Seq(seen') /\ Len(log') = 0 BY <2>1, EmptySeq
    <2> QED BY <2>1, <2>2 DEF LogIsSeen
<1>3. ASSUME UNCHANGED <<seen, log>> PROVE LogIsSeen'
    BY <1>3 DEF LogIsSeen
<1>4. ASSUME NEW k, Ledger!Receive(k) \/ Ledger!GiveUp(k) \/ Ledger!Bury(k)
      PROVE  LogIsSeen'
    BY <1>3, <1>4 DEF Ledger!Receive, Ledger!GiveUp, Ledger!Bury
<1>5. ASSUME NEW K, NEW sent, Ledger!Drop(K, sent) PROVE LogIsSeen'
    BY <1>3, <1>5 DEF Ledger!Drop
<1>6. CASE UNCHANGED Ledger!vars BY <1>3, <1>6 DEF Ledger!vars
<1> QED BY <1>1, <1>2, <1>4, <1>5, <1>6 DEF Ledger!Next

LEMMA LedgerStep ==
    Accounted /\ [Ledger!Next]_(Ledger!vars) => Accounted' /\ [RecordsStay]_(Ledger!vars)
<1> SUFFICES ASSUME Accounted, Ledger!Next PROVE Accounted' /\ RecordsStay
    BY DEF Ledger!vars, Ledger!gateway, Accounted
<1> USE DEF Ledger!gateway, Ledger!Close, Ledger!Accept, Accounted, RecordsStay
<1>1. ASSUME NEW k, Ledger!Receive(k) PROVE Accounted' /\ RecordsStay
    BY <1>1 DEF Ledger!Receive
<1>2. ASSUME NEW k \in open, Ledger!Notify(k) PROVE Accounted' /\ RecordsStay
    BY <1>2 DEF Ledger!Notify
<1>3. ASSUME NEW k \in open, Ledger!GiveUp(k) PROVE Accounted' /\ RecordsStay
    BY <1>3 DEF Ledger!GiveUp
<1>4. ASSUME NEW k \in open, Ledger!Bury(k) PROVE Accounted' /\ RecordsStay
    BY <1>4 DEF Ledger!Bury
<1>5. ASSUME NEW k \in late, Ledger!HandleLate(k) PROVE Accounted' /\ RecordsStay
    BY <1>5 DEF Ledger!HandleLate
<1>6. ASSUME NEW K \in SUBSET open, NEW sent \in SUBSET K, Ledger!Drop(K, sent)
      PROVE  Accounted' /\ RecordsStay
    BY <1>6 DEF Ledger!Drop
<1>7. CASE Ledger!RestartGateway BY <1>7 DEF Ledger!RestartGateway
<1> QED BY <1>1, <1>2, <1>3, <1>4, <1>5, <1>6, <1>7 DEF Ledger!Next

(* Whoever implements NotificationLedger can say of every event received   *)
(* what became of it, notifies no key twice in one life of the gateway,    *)
(* and opens no settled key again unless it recurs.                        *)
THEOREM LedgerAccountsForAll ==
    Ledger!Spec => [](Accounted /\ LogIsSeen) /\ [][RecordsStay]_(Ledger!vars)
<1>1. Ledger!Init => Accounted BY DEF Ledger!Init, Accounted
<1>2. Ledger!Init => LogIsSeen
    <2> SUFFICES ASSUME Ledger!Init PROVE LogIsSeen OBVIOUS
    <2>1. seen = {} /\ log = << >> BY DEF Ledger!Init
    <2>2. log \in Seq(seen) /\ Len(log) = 0 BY <2>1, EmptySeq
    <2> QED BY <2>1, <2>2 DEF LogIsSeen
<1> QED BY <1>1, <1>2, LedgerStep, LogStep, PTL DEF Ledger!Spec
=============================================================================
