------------------------------- MODULE Accounts -------------------------------
(***************************************************************************)
(* What the auth service promises to users and to everyone who reads its   *)
(* tables: every change of an account, a session or a one-time code is one *)
(* atomic step, made of rows that exist, by the rules below.  There are no *)
(* requests, copies, caches or failures here; AuthSessions, which has them *)
(* all, implements this module.                                            *)
(*                                                                         *)
(* The promise is the one the code can keep.  It is weaker than a reader   *)
(* of the API would guess in three places.  Two are consequences of rows   *)
(* read in one statement and written in another: Rewrite may put back an   *)
(* earlier password or take back a verification, and Renew, Verify and     *)
(* ResetPassword may spend a token or a code that is already spent.  The   *)
(* third is one of transactions that are READ COMMITTED: a new password    *)
(* ends the sessions that were live when its change began, not those       *)
(* opened while it was under way.                                          *)
(***************************************************************************)
CONSTANTS Users, Passwords, Sessions, Codes, Null

VARIABLES users,        \* rows of the users, or Null
          sessions,     \* rows of the sessions, or Null
          codes,        \* rows of the one-time codes, or Null
          mailed,       \* codes that were mailed to their user
          had,          \* passwords each user has chosen so far
          parent,       \* session whose token was exchanged for a session's, or Null
          changes       \* password changes under way: the user, the sessions it will
                        \* end, and the reset code it will spend, or Null

tables == <<users, sessions, codes, mailed, had, parent>>
vars == <<tables, changes>>

Init ==
    /\ users = [u \in Users |-> Null]
    /\ sessions = [s \in Sessions |-> Null]
    /\ codes = [c \in Codes |-> Null]
    /\ mailed = {}
    /\ had = [u \in Users |-> {}]
    /\ parent = [s \in Sessions |-> Null]
    /\ changes = {}

LiveSessionsOf(u) ==
    {s \in Sessions : sessions[s] # Null /\ sessions[s].user = u /\ ~sessions[s].revoked}

Changing(u) == \E r \in changes : r.user = u

Revoke(S) ==
    sessions' = [s \in Sessions |-> IF s \in S THEN [sessions[s] EXCEPT !.revoked = TRUE]
                                    ELSE sessions[s]]

\* Code c of this kind was created for u, mailed, and is used now.
Spend(c, u, kind) ==
    /\ codes[c] # Null /\ c \in mailed
    /\ codes[c].user = u /\ codes[c].kind = kind
    /\ codes' = [codes EXCEPT ![c].used = TRUE]

Proven(u) ==
    \E c \in Codes : /\ codes[c] # Null /\ codes[c].user = u
                     /\ codes[c].kind = "email" /\ codes[c].used

Choose(u, p) == had' = [had EXCEPT ![u] = @ \union {p}]

\* A row replaces another of the same user; no row is verified without a used code.
Write(u, row) ==
    /\ users[u] # Null
    /\ users' = [users EXCEPT ![u] = row]
    /\ row.verified => Proven(u)
-------------------------------------------------------------------------------
SignUp(u, p) ==
    /\ users[u] = Null
    /\ users' = [users EXCEPT ![u] = [password |-> p, verified |-> FALSE]]
    /\ Choose(u, p)
    /\ UNCHANGED <<sessions, codes, mailed, parent, changes>>

Rewrite(u, row) ==
    /\ Write(u, row) /\ row.password \in had[u]
    /\ ~Changing(u)
    /\ UNCHANGED <<sessions, codes, mailed, parent, had, changes>>

\* One change of a user's password is under way at a time.
Start(r) ==
    /\ UNCHANGED tables
    /\ ~Changing(r.user)
    /\ changes' = changes \union {r}

\* All live sessions will end, but for the one in which it is done.
StartChange(u, s) ==
    Start([user |-> u, ends |-> LiveSessionsOf(u) \ {s}, code |-> Null])

StartReset(u, c) ==
    Start([user |-> u, ends |-> LiveSessionsOf(u), code |-> c])

Abort(r) ==
    /\ UNCHANGED tables
    /\ changes' = changes \ {r}

\* The password, the verification with it, and the sessions change in one step.
Finish(r, row) ==
    /\ changes' = changes \ {r}
    /\ Write(r.user, row) /\ Choose(r.user, row.password)
    /\ Revoke(r.ends)
    /\ UNCHANGED <<mailed, parent>>

ChangePassword(r, row) ==
    /\ r.code = Null
    /\ Finish(r, row)
    /\ UNCHANGED codes

ResetPassword(r, row) ==
    /\ r.code \in Codes
    /\ Spend(r.code, r.user, "password_reset")
    /\ Finish(r, row)

Issue(c, u, kind) ==
    /\ users[u] # Null
    /\ codes[c] = Null
    /\ codes' = [codes EXCEPT ![c] = [user |-> u, kind |-> kind, used |-> FALSE]]
    /\ UNCHANGED <<users, sessions, mailed, had, parent, changes>>

Mail(c) ==
    /\ codes[c] # Null
    /\ mailed' = mailed \union {c}
    /\ UNCHANGED <<users, sessions, codes, had, parent, changes>>

Verify(c, u) ==
    /\ Spend(c, u, "email")
    /\ UNCHANGED <<users, sessions, mailed, had, parent, changes>>

\* The new session is of user u.
Insert(s, u) ==
    /\ users[u] # Null
    /\ sessions[s] = Null
    /\ sessions' = [sessions EXCEPT ![s] = [user |-> u, revoked |-> FALSE]]

Open(s, u) ==
    /\ Insert(s, u)
    /\ UNCHANGED <<users, codes, mailed, had, parent, changes>>

\* The exchanged token is dead by now.
Renew(s, old) ==
    /\ sessions[old] # Null /\ sessions[old].revoked
    /\ Insert(s, sessions[old].user)
    /\ parent' = [parent EXCEPT ![s] = old]
    /\ UNCHANGED <<users, codes, mailed, had, changes>>

End(s) ==
    /\ sessions[s] # Null
    /\ Revoke({s})
    /\ UNCHANGED <<users, codes, mailed, had, parent, changes>>
-------------------------------------------------------------------------------
Rows == [password : Passwords, verified : BOOLEAN]

Account(u) ==
    \/ \E p \in Passwords : SignUp(u, p)
    \/ \E row \in Rows : Rewrite(u, row)
    \/ \E s \in Sessions : StartChange(u, s)
    \/ \E c \in Codes :
         \/ StartReset(u, c) \/ Verify(c, u)
         \/ \E kind \in {"email", "password_reset"} : Issue(c, u, kind)

Change(r) ==
    \/ Abort(r)
    \/ \E row \in Rows : ChangePassword(r, row) \/ ResetPassword(r, row)

Session(s) ==
    \/ \E u \in Users : Open(s, u)
    \/ \E old \in Sessions : Renew(s, old)
    \/ End(s)

Next ==
    \/ \E u \in Users : Account(u)
    \/ \E r \in changes : Change(r)
    \/ \E s \in Sessions : Session(s)
    \/ \E c \in Codes : Mail(c)

Spec == Init /\ [][Next]_vars
=============================================================================
