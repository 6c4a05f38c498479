----------------------------- MODULE AuthSessions -----------------------------
(***************************************************************************)
(* services/auth: the twelve RPC handlers of the auth service, run         *)
(* concurrently over the tables users, sessions and verification_codes and *)
(* a Redis cache of users.  As in Assessment, each database statement or   *)
(* transaction, cache command, event and mail of a handler is a step of    *)
(* its own, and what a goroutine holds between its steps is req[h].        *)
(*                                                                         *)
(* An e-mail address is unique, so that a user is its address.  A row      *)
(* keeps the two columns on which access depends; the profile columns are  *)
(* written back with them, and nothing here tells one profile from         *)
(* another.  A refresh token is its session: it is found by its hash.  An  *)
(* access token names a user and a session and is trusted until it         *)
(* expires, whatever becomes of the session (interceptors/auth.go).        *)
(*                                                                         *)
(* There is no clock: that a token or a code has expired makes the service *)
(* refuse a request it would have accepted, and any request may end at any *)
(* statement (Fail).  ListSessions only reads and is no step.              *)
(***************************************************************************)
EXTENDS FiniteSets

CONSTANTS Users,        \* e-mail addresses
          Passwords,
          Sessions,     \* UUIDs sessions may get
          Codes,        \* one-time codes
          Handlers,     \* goroutines serving requests
          Workload,     \* the operations requested in this instance
          Null

VARIABLES users,        \* table users:    users[u] = Null if there is no row
          sessions,     \* table sessions
          codes,        \* table verification_codes
          cache,        \* Redis user:<id>
          mailed,       \* codes whose mail was sent
          req,          \* the request each goroutine is serving
          had,          \* passwords a user has chosen so far
          parent,       \* session whose token was exchanged for a session's, or Null
          uses          \* which goroutine has exchanged a token or spent a code

tables == <<users, sessions, codes>>
ghosts == <<had, parent, uses>>
vars == <<tables, cache, mailed, req, ghosts>>

Operations == {"Register", "Login", "RefreshToken", "Logout", "VerifyEmail",
               "RequestPasswordReset", "ConfirmPasswordReset", "ChangePassword",
               "GetMe", "UpdateProfile", "RevokeSession", "Expire", "Fail"}

UserRow == [password : Passwords, verified : BOOLEAN]

\* The cached copy is the whole row; nobody reads the password of it.
CachedUser == [verified : BOOLEAN]

SessionRow == [user : Users, revoked : BOOLEAN]

Kinds == {"email", "password_reset"}

CodeRow == [user : Users, kind : Kinds, used : BOOLEAN]

EventTypes == {"user.registered", "user.verified", "user.updated", "session.revoked",
               "password.reset_requested", "password.changed"}

\* Type (without "auth.") and entity_id; password events all have the entity "user".
Event == [type : EventTypes, of : Users \union Sessions \union {Null}]

\* What a goroutine does next.
Steps == {"idle", "code.create", "mail", "publish",
          "login.create", "login.evict", "refresh.revoke", "refresh.create",
          "session.revoke", "verify.mark", "verify.load", "verify.update",
          "reset.load", "reset.update", "reset.commit", "change.update", "change.commit",
          "profile.update", "profile.evict", "me.fill"}

\* The statements of a password transaction are done, its COMMIT is not: it holds the
\* locks of the rows it has updated.
Committing == {"change.commit", "reset.commit"}

Request == [at       : Steps,
            user     : Users \union {Null},
            session  : Sessions \union {Null},
            code     : Codes \union {Null},
            row      : UserRow \union {Null},
            secret   : Passwords \union {Null},
            ends     : SUBSET Sessions,
            event    : Event \union {Null}]

NoRequest == [at |-> "idle", user |-> Null, session |-> Null, code |-> Null,
              row |-> Null, secret |-> Null, ends |-> {}, event |-> Null]

ASSUME AuthAssumption ==
    /\ Workload \subseteq Operations
    /\ Sessions \intersect Codes = {}
    /\ Null \notin UserRow /\ Null \notin SessionRow /\ Null \notin CodeRow
    /\ Null \notin Sessions

CopySteps == {"verify.update", "reset.update", "reset.commit", "change.update",
              "change.commit", "profile.update", "me.fill"}

\* The variables of a handler that its next step uses are set.
ReadsSetFields(r) ==
    /\ r.at \notin {"idle", "publish", "mail"} => r.user \in Users
    /\ r.at \in {"refresh.revoke", "refresh.create", "session.revoke", "change.update",
                "change.commit"} => r.session \in Sessions
    /\ r.at \in {"mail", "verify.mark", "verify.load", "verify.update", "reset.load",
                "reset.update", "reset.commit"} => r.code \in Codes
    /\ r.at \in CopySteps <=> r.row # Null
    /\ r.at \in {"reset.load", "change.update", "change.commit"} => r.secret \in Passwords
    /\ r.at \in {"code.create", "mail", "publish", "profile.update", "profile.evict"} =>
         r.event \in Event

TypeOK ==
    /\ users \in [Users -> UserRow \union {Null}]
    /\ sessions \in [Sessions -> SessionRow \union {Null}]
    /\ codes \in [Codes -> CodeRow \union {Null}]
    /\ cache \in [Users -> CachedUser \union {Null}]
    /\ mailed \subseteq {c \in Codes : codes[c] # Null}
    /\ req \in [Handlers -> Request]
    /\ \A h \in Handlers : ReadsSetFields(req[h])
    /\ had \in [Users -> SUBSET Passwords]
    /\ parent \in [Sessions -> Sessions \union {Null}]
    /\ uses \subseteq (Sessions \union Codes) \X Handlers

Init ==
    /\ users = [u \in Users |-> Null]
    /\ sessions = [s \in Sessions |-> Null]
    /\ codes = [c \in Codes |-> Null]
    /\ cache = [u \in Users |-> Null]
    /\ mailed = {}
    /\ req = [h \in Handlers |-> NoRequest]
    /\ had = [u \in Users |-> {}]
    /\ parent = [s \in Sessions |-> Null]
    /\ uses = {}
-------------------------------------------------------------------------------
Idle(h) == req[h].at = "idle"

Begin(h, op) == op \in Workload /\ Idle(h)

Become(h, r) == req' = [req EXCEPT ![h] = r]

Done(h) == Become(h, NoRequest)

Only(type, x) == [type |-> type, of |-> x]

\* The request has done its work and has an event to publish.
Announce(h, event) ==
    Become(h, [NoRequest EXCEPT !.at = "publish", !.event = event])

\* READ COMMITTED: an UPDATE waits for the transaction that has updated its row.  The
\* UPDATE of users leaves the key alone, so that an INSERT that refers to the row, of
\* a session or a code, does not wait.
Locked(u) == \E k \in Handlers : req[k].at \in Committing /\ req[k].user = u

EndLocked(s) == \E k \in Handlers : req[k].at \in Committing /\ s \in req[k].ends

CodeLocked(c) ==
    \E k \in Handlers : req[k].at \in {"reset.update", "reset.commit"} /\ req[k].code = c

SessionsOf(u) == {s \in Sessions : sessions[s] # Null /\ sessions[s].user = u}

\* An access token that names a user proves only that a session was once opened.
HasToken(u) == SessionsOf(u) # {}

\* Mutant: revoked_at is not looked at.
KnownSession(s) == sessions[s] # Null

Live(s) == sessions[s] # Null /\ ~sessions[s].revoked

\* UPDATE sessions SET revoked_at = ... WHERE ... AND revoked_at IS NULL.
Revoked(S) ==
    [s \in Sessions |-> IF s \in S THEN [sessions[s] EXCEPT !.revoked = TRUE]
                        ELSE sessions[s]]

\* Mutant: the kind of the code is not compared.
AnyKind(c, kind) == TRUE

IsKind(c, kind) == codes[c].kind = kind

\* GetByCodeHash (... AND used_at IS NULL) and the checks that follow it.  Nobody
\* can send a code that was not mailed.
Usable(c, kind) ==
    /\ c \in mailed
    /\ ~codes[c].used
    /\ IsKind(c, kind)

\* Mutant: bcrypt's result is not looked at.
KnowsNothing(u, p) == users[u] # Null

Knows(u, p) == users[u] # Null /\ users[u].password = p
-------------------------------------------------------------------------------
(***************************************************************************)
(* Accounts and codes.                                                     *)
(***************************************************************************)

\* Inserts the user; the e-mail address is UNIQUE.
Register(h, u, p) ==
    /\ Begin(h, "Register")
    /\ users[u] = Null
    /\ users' = [users EXCEPT ![u] = [password |-> p, verified |-> FALSE]]
    /\ had' = [had EXCEPT ![u] = {p}]
    /\ Become(h, [NoRequest EXCEPT !.at = "code.create", !.user = u,
                                   !.event = Only("user.registered", u)])
    /\ UNCHANGED <<sessions, codes, cache, mailed, parent, uses>>

RequestPasswordReset(h, u) ==
    /\ Begin(h, "RequestPasswordReset")
    /\ users[u] # Null
    /\ Become(h, [NoRequest EXCEPT !.at = "code.create", !.user = u,
                                   !.event = Only("password.reset_requested", Null)])
    /\ UNCHANGED <<tables, cache, mailed, ghosts>>

\* Mutant: a kind the CHECK constraint does not know.
KindOfEvent(event) == event.type

KindFor(event) ==
    IF event.type = "user.registered" THEN "email" ELSE "password_reset"

\* Register publishes before it mails, RequestPasswordReset after.
CreateCode(h, c) ==
    /\ req[h].at = "code.create"
    /\ codes[c] = Null
    /\ codes' = [codes EXCEPT ![c] = [user |-> req[h].user, used |-> FALSE,
                                      kind |-> KindFor(req[h].event)]]
    /\ Become(h, [NoRequest EXCEPT !.at = IF codes'[c].kind = "email" THEN "publish"
                                          ELSE "mail",
                                   !.code = c, !.event = req[h].event])
    /\ UNCHANGED <<users, sessions, cache, mailed, ghosts>>

\* Mails, evictions and events are best effort: after an error the request goes on
\* and leaves nothing behind that it does not leave after a failure (Fail), since
\* the broker is not part of this model.
Mail(h) ==
    /\ req[h].at = "mail"
    /\ mailed' = mailed \union {req[h].code}
    /\ IF req[h].event.type = "user.registered" THEN Done(h)
       ELSE Announce(h, req[h].event)
    /\ UNCHANGED <<tables, cache, ghosts>>

Publish(h) ==
    /\ req[h].at = "publish"
    /\ IF req[h].event.type = "user.registered"
       THEN Become(h, [req[h] EXCEPT !.at = "mail"]) ELSE Done(h)
    /\ UNCHANGED <<tables, cache, mailed, ghosts>>

\* Mutant: the UPDATE leaves out password_hash.
UpdateProfileColumns(u, row) == [users EXCEPT ![u].verified = row.verified]

\* userRepository.Update: all columns of the copy replace the row's.
Update(u, row) == [users EXCEPT ![u] = row]

VerifyEmailRead(h, c) ==
    /\ Begin(h, "VerifyEmail")
    /\ Usable(c, "email")
    /\ Become(h, [NoRequest EXCEPT !.at = "verify.mark", !.user = codes[c].user, !.code = c])
    /\ UNCHANGED <<tables, cache, mailed, ghosts>>

\* verificationCodeRepository.MarkUsed: whether it was used by now or not.
MarkUsed(c) == [codes EXCEPT ![c].used = TRUE]

VerifyEmailMark(h) ==
    /\ req[h].at = "verify.mark"
    /\ codes' = MarkUsed(req[h].code)
    /\ Become(h, [req[h] EXCEPT !.at = "verify.load"])
    /\ UNCHANGED <<users, sessions, cache, mailed, ghosts>>

VerifyEmailLoad(h) ==
    /\ req[h].at = "verify.load"
    /\ users[req[h].user] # Null
    /\ Become(h, [req[h] EXCEPT !.at = "verify.update",
                                !.row = [users[req[h].user] EXCEPT !.verified = TRUE]])
    /\ UNCHANGED <<tables, cache, mailed, ghosts>>

VerifyEmailUpdate(h) ==
    /\ req[h].at = "verify.update"
    /\ ~Locked(req[h].user)
    /\ users' = Update(req[h].user, req[h].row)
    /\ uses' = uses \union {<<req[h].code, h>>}
    /\ Announce(h, Only("user.verified", req[h].user))
    /\ UNCHANGED <<sessions, codes, cache, mailed, had, parent>>

UpdateProfileRead(h, u) ==
    /\ Begin(h, "UpdateProfile")
    /\ HasToken(u) /\ users[u] # Null
    /\ Become(h, [NoRequest EXCEPT !.at = "profile.update", !.user = u, !.row = users[u],
                                   !.event = Only("user.updated", u)])
    /\ UNCHANGED <<tables, cache, mailed, ghosts>>

UpdateProfileUpdate(h) ==
    /\ req[h].at = "profile.update"
    /\ ~Locked(req[h].user)
    /\ users' = Update(req[h].user, req[h].row)
    /\ Become(h, [req[h] EXCEPT !.at = "profile.evict", !.row = Null])
    /\ UNCHANGED <<sessions, codes, cache, mailed, ghosts>>

\* Also the last step of Login.
Evict(h) ==
    /\ req[h].at \in {"profile.evict", "login.evict"}
    /\ cache' = [cache EXCEPT ![req[h].user] = Null]
    /\ IF req[h].at = "profile.evict" THEN Announce(h, req[h].event) ELSE Done(h)
    /\ UNCHANGED <<tables, mailed, ghosts>>

\* A hit is an answer and no step.  A miss reads the row, and so does an error of
\* Redis, whatever the cache holds.
GetMeRead(h, u) ==
    /\ Begin(h, "GetMe")
    /\ HasToken(u) /\ users[u] # Null
    /\ Become(h, [NoRequest EXCEPT !.at = "me.fill", !.user = u, !.row = users[u]])
    /\ UNCHANGED <<tables, cache, mailed, ghosts>>

GetMeFill(h) ==
    /\ req[h].at = "me.fill"
    /\ cache' = [cache EXCEPT ![req[h].user] = [verified |-> req[h].row.verified]]
    /\ Done(h)
    /\ UNCHANGED <<tables, mailed, ghosts>>

\* Redis drops a key when its TTL has run out.
Expire(u) ==
    /\ "Expire" \in Workload
    /\ cache[u] # Null
    /\ cache' = [cache EXCEPT ![u] = Null]
    /\ UNCHANGED <<tables, mailed, req, ghosts>>
-------------------------------------------------------------------------------
(***************************************************************************)
(* Sessions.                                                               *)
(***************************************************************************)

LoginRead(h, u, p) ==
    /\ Begin(h, "Login")
    /\ Knows(u, p)
    /\ Become(h, [NoRequest EXCEPT !.at = "login.create", !.user = u])
    /\ UNCHANGED <<tables, cache, mailed, ghosts>>

\* INSERT INTO sessions.
Create(h, s) ==
    /\ sessions[s] = Null
    /\ sessions' = [sessions EXCEPT ![s] = [user |-> req[h].user, revoked |-> FALSE]]

LoginCreate(h, s) ==
    /\ req[h].at = "login.create"
    /\ Create(h, s)
    /\ Become(h, [NoRequest EXCEPT !.at = "login.evict", !.user = req[h].user])
    /\ UNCHANGED <<users, codes, cache, mailed, had, parent, uses>>

\* Looks the token up, checks it, and reads its user.
RefreshTokenRead(h, s) ==
    /\ Begin(h, "RefreshToken")
    /\ Live(s)
    /\ Become(h, [NoRequest EXCEPT !.at = "refresh.revoke", !.user = sessions[s].user,
                                   !.session = s])
    /\ UNCHANGED <<tables, cache, mailed, ghosts>>

\* Mutant: the old session is left to expire.
RefreshTokenKeepOld(h) ==
    /\ req[h].at = "refresh.revoke"
    /\ Become(h, [req[h] EXCEPT !.at = "refresh.create"])
    /\ UNCHANGED <<tables, cache, mailed, ghosts>>

RefreshTokenRevoke(h) ==
    /\ req[h].at = "refresh.revoke"
    /\ ~EndLocked(req[h].session)
    /\ sessions' = Revoked({req[h].session})
    /\ Become(h, [req[h] EXCEPT !.at = "refresh.create"])
    /\ UNCHANGED <<users, codes, cache, mailed, ghosts>>

RefreshTokenCreate(h, s) ==
    /\ req[h].at = "refresh.create"
    /\ Create(h, s)
    /\ parent' = [parent EXCEPT ![s] = req[h].session]
    /\ uses' = uses \union {<<req[h].session, h>>}
    /\ Done(h)
    /\ UNCHANGED <<users, codes, cache, mailed, had>>

\* The caller has the refresh token.
LogoutRead(h, s) ==
    /\ Begin(h, "Logout")
    /\ Live(s)
    /\ Become(h, [NoRequest EXCEPT !.at = "session.revoke", !.user = sessions[s].user,
                                   !.session = s])
    /\ UNCHANGED <<tables, cache, mailed, ghosts>>

\* Mutant: the owner of the session is not compared with the caller.
BelongsToAnyone(s, u) == Live(s)

BelongsTo(s, u) == Live(s) /\ sessions[s].user = u

\* The caller has an access token.
RevokeSessionRead(h, u, s) ==
    /\ Begin(h, "RevokeSession")
    /\ HasToken(u)
    /\ BelongsTo(s, u)
    /\ Become(h, [NoRequest EXCEPT !.at = "session.revoke", !.user = u, !.session = s])
    /\ UNCHANGED <<tables, cache, mailed, ghosts>>

\* Mutant: the event is published although nothing was revoked.
AnnounceOnly(h) ==
    /\ req[h].at = "session.revoke"
    /\ Announce(h, Only("session.revoked", req[h].session))
    /\ UNCHANGED <<tables, cache, mailed, ghosts>>

\* The second statement of Logout and of RevokeSession.
SessionRevoke(h) ==
    /\ req[h].at = "session.revoke"
    /\ ~EndLocked(req[h].session)
    /\ sessions' = Revoked({req[h].session})
    /\ Announce(h, Only("session.revoked", req[h].session))
    /\ UNCHANGED <<users, codes, cache, mailed, ghosts>>
-------------------------------------------------------------------------------
(***************************************************************************)
(* Passwords.                                                              *)
(***************************************************************************)

\* The caller has an access token of session s and knows the old password; the copy
\* of the row is taken outside the transaction.
ChangePasswordRead(h, s, old, new) ==
    /\ Begin(h, "ChangePassword")
    /\ sessions[s] # Null
    /\ Knows(sessions[s].user, old)
    /\ Become(h, [NoRequest EXCEPT !.at = "change.update", !.user = sessions[s].user,
                    !.session = s, !.secret = old,
                    !.row = [users[sessions[s].user] EXCEPT !.password = new]])
    /\ UNCHANGED <<tables, cache, mailed, ghosts>>

\* The two UPDATE statements of a transaction that changes a password, the one of users
\* and the one of the sessions that are live when it runs, but for the session kept.
\* The first only takes the lock of the user's row.  A session inserted after the
\* second is not among those that end.
UpdateInTransaction(h, next, kept) ==
    /\ ~Locked(req[h].user)
    /\ Become(h, [req[h] EXCEPT !.at = next,
                    !.ends = {s \in SessionsOf(req[h].user) : Live(s)} \ kept])
    /\ UNCHANGED <<tables, cache, mailed, ghosts>>

\* The COMMIT shows the whole row, and the end of the sessions.
CommitPassword(h) ==
    LET r == req[h] IN
    /\ users' = Update(r.user, r.row)
    /\ sessions' = Revoked(r.ends)
    /\ had' = [had EXCEPT ![r.user] = @ \union {r.row.password}]
    /\ Announce(h, Only("password.changed", Null))

ChangePasswordUpdate(h) ==
    /\ req[h].at = "change.update"
    /\ UpdateInTransaction(h, "change.commit", {req[h].session})

ChangePasswordCommit(h) ==
    /\ req[h].at = "change.commit"
    /\ CommitPassword(h)
    /\ UNCHANGED <<codes, cache, mailed, parent, uses>>

\* The code is checked outside the transaction.
ConfirmPasswordResetRead(h, c, new) ==
    /\ Begin(h, "ConfirmPasswordReset")
    /\ Usable(c, "password_reset")
    /\ Become(h, [NoRequest EXCEPT !.at = "reset.load", !.user = codes[c].user,
                                   !.code = c, !.secret = new])
    /\ UNCHANGED <<tables, cache, mailed, ghosts>>

\* In the transaction MarkUsed locks the code's row, and the user is read.  Other
\* transactions may commit before this one does (read committed).
ConfirmPasswordResetLoad(h) ==
    /\ req[h].at = "reset.load"
    /\ users[req[h].user] # Null
    /\ ~CodeLocked(req[h].code)
    /\ Become(h, [req[h] EXCEPT !.at = "reset.update", !.secret = Null,
                    !.row = [users[req[h].user] EXCEPT !.password = req[h].secret]])
    /\ UNCHANGED <<tables, cache, mailed, ghosts>>

ConfirmPasswordResetUpdate(h) ==
    /\ req[h].at = "reset.update"
    /\ UpdateInTransaction(h, "reset.commit", {})

\* All or nothing: the code is used from now on, too.
ConfirmPasswordResetCommit(h) ==
    /\ req[h].at = "reset.commit"
    /\ CommitPassword(h)
    /\ codes' = MarkUsed(req[h].code)
    /\ uses' = uses \union {<<req[h].code, h>>}
    /\ UNCHANGED <<cache, mailed, parent>>
-------------------------------------------------------------------------------
\* The next step of a request fails, is refused or never runs: an error return, a
\* cancelled context or a crash.  An open transaction has no effect.
Fail(h) ==
    /\ "Fail" \in Workload
    /\ ~Idle(h)
    /\ Done(h)
    /\ UNCHANGED <<tables, cache, mailed, ghosts>>

Account(h) ==
    \/ \E u \in Users :
         \/ \E p \in Passwords : Register(h, u, p)
         \/ RequestPasswordReset(h, u) \/ UpdateProfileRead(h, u) \/ GetMeRead(h, u)
    \/ \E c \in Codes : CreateCode(h, c) \/ VerifyEmailRead(h, c)
    \/ Mail(h) \/ Publish(h)
    \/ VerifyEmailMark(h) \/ VerifyEmailLoad(h) \/ VerifyEmailUpdate(h)
    \/ UpdateProfileUpdate(h) \/ Evict(h) \/ GetMeFill(h)

Session(h) ==
    \/ \E u \in Users, p \in Passwords : LoginRead(h, u, p)
    \/ \E s \in Sessions :
         \/ LoginCreate(h, s)
         \/ RefreshTokenRead(h, s) \/ RefreshTokenCreate(h, s)
         \/ LogoutRead(h, s)
         \/ \E u \in Users : RevokeSessionRead(h, u, s)
    \/ RefreshTokenRevoke(h) \/ SessionRevoke(h)

Password(h) ==
    \/ \E s \in Sessions, old, new \in Passwords : ChangePasswordRead(h, s, old, new)
    \/ \E c \in Codes, new \in Passwords : ConfirmPasswordResetRead(h, c, new)
    \/ ChangePasswordUpdate(h) \/ ChangePasswordCommit(h)
    \/ ConfirmPasswordResetLoad(h) \/ ConfirmPasswordResetUpdate(h)
    \/ ConfirmPasswordResetCommit(h)

Next ==
    \/ \E h \in Handlers : Account(h) \/ Session(h) \/ Password(h) \/ Fail(h)
    \/ \E u \in Users : Expire(u)

Spec == Init /\ [][Next]_vars
-------------------------------------------------------------------------------
(***************************************************************************)
(* Properties.                                                             *)
(***************************************************************************)

\* The change of a password that a transaction is about to commit.
Change(r) == [user |-> r.user, ends |-> r.ends,
              code |-> IF r.at = "reset.commit" THEN r.code ELSE Null]

Changes == {Change(req[h]) : h \in {k \in Handlers : req[k].at \in Committing}}

\* What users and readers of the tables see of all this.
Promise == INSTANCE Accounts WITH changes <- Changes

\* The handlers, with their copies, cache, transactions and failures, keep the promise
\* of Accounts: each of their statements is one atomic change of an account, a session
\* or a code that the rules allow, or none; and a password that changes ends, with the
\* same step, every session that was live when its transaction came to the sessions.
ImplementsAccounts == Promise!Spec

\* A token that was exchanged is dead, and so is every token it was derived from:
\* whatever fails between the revocation and the new session, at most the newest of
\* a chain of tokens works, and all are of one user.
RotationRevokes ==
    \A s \in Sessions : sessions[s] # Null /\ parent[s] # Null =>
        /\ sessions[parent[s]] # Null /\ sessions[parent[s]].revoked
        /\ sessions[parent[s]].user = sessions[s].user

Holds(h, x) ==
    \/ req[h].at \in {"refresh.revoke", "refresh.create"} /\ req[h].session = x
    \/ /\ req[h].at \in {"verify.mark", "verify.load", "verify.update",
                         "reset.load", "reset.update", "reset.commit"}
       /\ req[h].code = x

\* Tokens and codes are checked in one statement and spent in another, so that two
\* requests may use one twice; but only requests that overlap: whoever comes back
\* after a use is refused.
ReplaysOverlap ==
    \A h \in Handlers, x \in Sessions \union Codes : Holds(h, x) => <<x, h>> \notin uses

\* The user has used an e-mail code.
Proven(u) ==
    \E c \in Codes : /\ codes[c] # Null /\ codes[c].user = u
                     /\ codes[c].kind = "email" /\ codes[c].used

\* Nobody is verified without the code that was mailed to the address, in the table,
\* in the cache or in a copy that is about to be written to one of them.
VerifiedIsProven ==
    /\ \A u \in Users : users[u] # Null /\ users[u].verified => Proven(u)
    /\ \A u \in Users : cache[u] # Null /\ cache[u].verified => Proven(u)
    /\ \A h \in Handlers :
         req[h].row # Null /\ req[h].row.verified => Proven(req[h].user)

\* A user gets a new password only by a request that has shown an earlier one or
\* spends a reset code of the user in the same transaction.
NewPasswordsAreProven ==
    [][\A u \in Users : users[u] # Null /\ had'[u] # had[u] =>
         \E h \in Handlers :
           /\ req[h].user = u
           /\ \/ req[h].at = "change.commit" /\ req[h].secret \in had[u]
              \/ /\ req[h].at = "reset.commit"
                 /\ codes[req[h].code].kind = "password_reset"
                 /\ codes[req[h].code].user = u
                 /\ codes'[req[h].code].used]_vars

\* A session ends only by a request of its own user: one that has its refresh token,
\* that names it with the user's access token, or that changes the user's password.
\* The user of a request is fixed at its first step, the session is revoked at a later
\* one.
OwnersRevoke ==
    [][\A s \in Sessions : Live(s) /\ sessions'[s].revoked =>
         \E h \in Handlers :
           /\ req[h].user = sessions[s].user /\ req'[h] # req[h]
           /\ req[h].at \in {"refresh.revoke", "session.revoke", "change.commit",
                             "reset.commit"}]_vars

\* A session event is published only when the session is dead for good, a
\* verification only when a code was used, a registration when there is a code.
EventsAreTrue ==
    \A h \in Handlers : req[h].at = "publish" =>
        LET e == req[h].event IN
        /\ e.type = "session.revoked" => sessions[e.of] # Null /\ sessions[e.of].revoked
        /\ e.type = "user.verified" => Proven(e.of)
        /\ e.type = "user.registered" =>
             \E c \in Codes : /\ codes[c] # Null
                              /\ codes[c].user = e.of /\ codes[c].kind = "email"

\* update_profile_test.go:67: UpdateProfile changes only what it is given: no password
\* changes but by ChangePassword and ConfirmPasswordReset.
OnlyPasswordRequests ==
    [][\A u \in Users : users[u] # Null /\ users'[u].password # users[u].password =>
         \E h \in Handlers : req[h].at \in Committing]_vars
=============================================================================
