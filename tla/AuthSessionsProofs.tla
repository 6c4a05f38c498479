-------------------------- MODULE AuthSessionsProofs --------------------------
(***************************************************************************)
(* Proofs about the auth service, for any number of users, passwords,      *)
(* sessions, codes and goroutines and for every workload.                  *)
(*                                                                         *)
(* The tables only grow: a session stays revoked, a code stays used, and a *)
(* user's past passwords stay past.  What a goroutine has once checked and *)
(* holds on to is stated in such terms (Fits), so that it stays true while *)
(* all others go on; what it checks is enough for what it writes.          *)
(***************************************************************************)
EXTENDS AuthSessions, TLAPS

\* Types of everything but the requests.
TablesTyped ==
    /\ users \in [Users -> UserRow \union {Null}]
    /\ sessions \in [Sessions -> SessionRow \union {Null}]
    /\ codes \in [Codes -> CodeRow \union {Null}]
    /\ cache \in [Users -> CachedUser \union {Null}]
    /\ mailed \subseteq {c \in Codes : codes[c] # Null}
    /\ had \in [Users -> SUBSET Passwords]
    /\ parent \in [Sessions -> Sessions \union {Null}]
    /\ uses \subseteq (Sessions \union Codes) \X Handlers

\* Passwords and verification of rows and of cached rows have a history.
AccountsOK ==
    /\ \A u \in Users : users[u] # Null =>
         users[u].password \in had[u] /\ (users[u].verified => Proven(u))
    /\ \A u \in Users : had[u] # {} => users[u] # Null
    /\ \A u \in Users : cache[u] # Null /\ cache[u].verified => Proven(u)

\* x is a dead session or a used code.
Spent(x) ==
    \/ x \in Sessions /\ sessions[x] # Null /\ sessions[x].revoked
    \/ x \in Codes /\ codes[x] # Null /\ codes[x].used

UsesAreFinal == \A h \in Handlers, x \in Sessions \union Codes : <<x, h>> \in uses => Spent(x)

\* The chains of tokens; a session that does not exist has no parent.
ChainsOK ==
    /\ RotationRevokes
    /\ \A s \in Sessions : sessions[s] = Null => parent[s] = Null

TablesOK == TablesTyped /\ AccountsOK /\ ChainsOK /\ UsesAreFinal

VerifySteps == {"verify.mark", "verify.load", "verify.update"}
ResetSteps == {"reset.load", "reset.update", "reset.commit"}

\* What a request knows of the session it found.
SessionFits(r) ==
    /\ r.at \in {"refresh.revoke", "refresh.create", "session.revoke"} =>
         sessions[r.session] # Null /\ sessions[r.session].user = r.user
    /\ r.at = "refresh.create" => sessions[r.session].revoked
    /\ r.at \in Committing =>
         \A s \in r.ends : sessions[s] # Null /\ sessions[s].user = r.user

\* What a request knows of the code it created or found.
CodeFits(r) ==
    /\ r.at = "mail" => codes[r.code] # Null
    /\ r.at = "publish" /\ r.event.type = "user.registered" =>
         r.code \in Codes /\ codes[r.code] # Null
    /\ r.at \in VerifySteps =>
         codes[r.code] # Null /\ codes[r.code].user = r.user /\ codes[r.code].kind = "email"
    /\ r.at \in {"verify.load", "verify.update"} => codes[r.code].used
    /\ r.at \in ResetSteps =>
         /\ codes[r.code] # Null /\ codes[r.code].user = r.user
         /\ codes[r.code].kind = "password_reset"

\* What the copy of a user's row is worth.
RowFits(r) ==
    /\ r.row # Null /\ r.row.verified => Proven(r.user)
    /\ r.at \in {"verify.update", "profile.update"} => r.row.password \in had[r.user]
    /\ r.at \in {"change.update", "change.commit"} => r.secret \in had[r.user]

EventIsTrue(e) ==
    /\ e.type = "session.revoked" => sessions[e.of] # Null /\ sessions[e.of].revoked
    /\ e.type = "user.verified" => Proven(e.of)
    /\ e.type = "user.registered" =>
         \E c \in Codes : codes[c] # Null /\ codes[c].user = e.of /\ codes[c].kind = "email"

\* An event is true when the request comes to publish it, and e.of is what it is about.
EventFits(r) ==
    /\ r.at \in {"code.create", "mail"} =>
         r.event.type \in {"user.registered", "password.reset_requested"}
    /\ r.at = "code.create" /\ r.event.type = "user.registered" => r.event.of = r.user
    /\ r.at \in {"profile.update", "profile.evict"} => r.event.type = "user.updated"
    /\ r.at = "publish" =>
         /\ r.event.type = "session.revoked" => r.event.of \in Sessions
         /\ r.event.type \in {"user.verified", "user.registered"} => r.event.of \in Users
         /\ EventIsTrue(r.event)

Fits(r) == ReadsSetFields(r) /\ SessionFits(r) /\ CodeFits(r) /\ RowFits(r) /\ EventFits(r)

\* Request r of goroutine h is about to spend x.
RequestHolds(r, x) ==
    \/ r.at \in {"refresh.revoke", "refresh.create"} /\ r.session = x
    \/ r.at \in VerifySteps \union ResetSteps /\ r.code = x

\* What a goroutine is about to spend it has not spent before.
Unspent(h, r) ==
    \A x \in Sessions \union Codes : RequestHolds(r, x) => <<x, h>> \notin uses

IInv ==
    /\ TablesOK
    /\ req \in [Handlers -> Request]
    /\ \A h \in Handlers : Fits(req[h]) /\ Unspent(h, req[h])

\* What no step undoes.
Grows ==
    /\ \A s \in Sessions : sessions[s] # Null =>
         /\ sessions'[s] # Null /\ sessions'[s].user = sessions[s].user
         /\ sessions[s].revoked => sessions'[s].revoked
    /\ \A c \in Codes : codes[c] # Null =>
         /\ codes'[c] # Null /\ codes'[c].user = codes[c].user
         /\ codes'[c].kind = codes[c].kind
         /\ codes[c].used => codes'[c].used
    /\ \A u \in Users : had[u] \subseteq had'[u]
-------------------------------------------------------------------------------
LEMMA NullFacts ==
    /\ Null \notin UserRow /\ Null \notin SessionRow /\ Null \notin CodeRow
    /\ Null \notin Sessions
    /\ Sessions \intersect Codes = {}
BY AuthAssumption

LEMMA ProvenGrows ==
    ASSUME Grows, NEW u \in Users, Proven(u)
    PROVE  Proven(u)'
BY DEF Grows, Proven

LEMMA SpentGrows ==
    ASSUME Grows, NEW x \in Sessions \union Codes, Spent(x)
    PROVE  Spent(x)'
BY DEF Grows, Spent

\* What a waiting goroutine knows stays true.
LEMMA FitsGrows ==
    ASSUME Grows, NEW r \in Request, Fits(r)
    PROVE  Fits(r)'
<1> USE DEF Fits
<1>1. ReadsSetFields(r)'
  BY DEF ReadsSetFields, CopySteps
<1>2. SessionFits(r)'
  BY DEF ReadsSetFields, SessionFits, Committing, Request, Grows
<1>3. CodeFits(r)'
  BY DEF ReadsSetFields, CodeFits, Grows, VerifySteps, ResetSteps
<1>4. RowFits(r)'
  BY ProvenGrows DEF ReadsSetFields, CopySteps, RowFits, Grows
<1>5. EventFits(r)'
  BY ProvenGrows DEF ReadsSetFields, EventFits, EventIsTrue, Grows
<1> QED BY <1>1, <1>2, <1>3, <1>4, <1>5

\* One goroutine moves to request r, the others wait.
LEMMA MoveKeepsIInv ==
    ASSUME IInv, TablesOK', Grows,
           NEW h \in Handlers, NEW r \in Request, Become(h, r),
           Fits(r)', Unspent(h, r)',
           uses' \subseteq uses \union (Sessions \union Codes) \X {h}
    PROVE  IInv'
<1>1. req' \in [Handlers -> Request] /\ req'[h] = r
  BY DEF IInv, Become
<1>2. ASSUME NEW k \in Handlers
      PROVE  Fits(req[k])' /\ Unspent(k, req[k])'
  <2>1. CASE k = h
    BY <1>1, <2>1 DEF Fits, ReadsSetFields, SessionFits, Committing, CodeFits, RowFits, EventFits,
       EventIsTrue, Proven, Unspent, RequestHolds
  <2>2. CASE k # h
    <3>1. PICK q \in Request : q = req[k] /\ q = req'[k]
      BY <2>2 DEF IInv, Become
    <3>2. Fits(q) /\ Unspent(k, q)
      BY <3>1 DEF IInv
    <3>3. Fits(q)'
      BY <3>2, FitsGrows
    <3>4. Unspent(k, q)'
      BY <2>2, <3>2 DEF Unspent
    <3> QED BY <3>1, <3>3, <3>4 DEF Fits, ReadsSetFields, SessionFits, Committing, CodeFits, RowFits,
              EventFits, EventIsTrue, Proven, Unspent, RequestHolds
  <2> QED BY <2>1, <2>2
<1> QED BY <1>1, <1>2 DEF IInv

\* All goroutines wait.
LEMMA WaitKeepsIInv ==
    ASSUME IInv, TablesOK', Grows, uses' = uses, req' = req
    PROVE  IInv'
<1>1. ASSUME NEW h \in Handlers
      PROVE  Fits(req[h])' /\ Unspent(h, req[h])'
  <2>1. PICK r \in Request : r = req[h] /\ Fits(r) /\ Unspent(h, r)
    BY DEF IInv
  <2>2. Fits(r)' /\ Unspent(h, r)'
    BY <2>1, FitsGrows DEF Unspent
  <2> QED BY <2>1, <2>2 DEF Fits, ReadsSetFields, SessionFits, Committing, CodeFits, RowFits,
            EventFits, EventIsTrue, Proven, Unspent, RequestHolds
<1> QED BY <1>1 DEF IInv

LEMMA IdleFits ==
    /\ NoRequest \in Request
    /\ Fits(NoRequest)' /\ \A h \in Handlers : Unspent(h, NoRequest)'
<1>1. NoRequest \in Request
  BY DEF NoRequest, Request, Steps
<1>2. Fits(NoRequest)'
  BY DEF NoRequest, Fits, ReadsSetFields, CopySteps, SessionFits, Committing, CodeFits, RowFits, EventFits,
     VerifySteps, ResetSteps
<1> QED BY <1>1, <1>2 DEF NoRequest, Unspent, RequestHolds, VerifySteps, ResetSteps

\* Nothing in the tables changes.
LEMMA StillTables ==
    ASSUME IInv, UNCHANGED <<tables, cache, mailed, ghosts>>
    PROVE  TablesOK' /\ Grows
<1>1. TablesOK'
  BY DEF IInv, tables, ghosts, TablesOK, TablesTyped, AccountsOK, Proven, ChainsOK,
     RotationRevokes, UsesAreFinal, Spent
<1>2. Grows
  BY DEF tables, ghosts, Grows, IInv, TablesOK, TablesTyped
<1> QED BY <1>1, <1>2

\* A step that only reads.
LEMMA ReadKeepsIInv ==
    ASSUME IInv, UNCHANGED <<tables, cache, mailed, ghosts>>,
           NEW h \in Handlers, NEW r \in Request, Become(h, r), Fits(r), Unspent(h, r)
    PROVE  IInv'
<1>1. TablesOK' /\ Grows
  BY StillTables
<1>2. Fits(r)' /\ Unspent(h, r)'
  BY <1>1, FitsGrows DEF Unspent, ghosts
<1> QED BY <1>1, <1>2, MoveKeepsIInv DEF ghosts

\* A step that writes and ends the request.
LEMMA DoneKeepsIInv ==
    ASSUME IInv, TablesOK', Grows, NEW h \in Handlers, Done(h),
           uses' \subseteq uses \union (Sessions \union Codes) \X {h}
    PROVE  IInv'
<1>1. PICK r \in Request : r = NoRequest
  BY IdleFits
<1>2. Fits(r)' /\ Unspent(h, r)'
  BY <1>1, IdleFits
<1>3. Become(h, r)
  BY <1>1 DEF Done
<1> QED BY <1>2, <1>3, MoveKeepsIInv
-------------------------------------------------------------------------------
(***************************************************************************)
(* Steps that read.                                                        *)
(***************************************************************************)

LEMMA RowFacts ==
    ASSUME IInv
    PROVE  /\ \A u \in Users : users[u] # Null =>
                /\ users[u] \in UserRow /\ users[u].password \in had[u]
                /\ users[u].verified => Proven(u)
           /\ \A s \in Sessions : sessions[s] # Null => sessions[s] \in SessionRow
           /\ \A c \in Codes : codes[c] # Null => codes[c] \in CodeRow
BY DEF IInv, TablesOK, TablesTyped, AccountsOK

Spending == {"refresh.revoke", "refresh.create"} \union VerifySteps \union ResetSteps

LEMMA NothingToSpend ==
    ASSUME NEW h \in Handlers, NEW r \in Request, r.at \notin Spending
    PROVE  Unspent(h, r) /\ Unspent(h, r)'
BY DEF Unspent, RequestHolds, Spending

LEMMA AccountReads ==
    ASSUME IInv, NEW h \in Handlers, NEW u \in Users,
           \/ RequestPasswordReset(h, u)
           \/ UpdateProfileRead(h, u)
           \/ GetMeRead(h, u)
           \/ \E p \in Passwords : LoginRead(h, u, p)
    PROVE  IInv'
<1> USE DEF Fits, ReadsSetFields, SessionFits, Committing, CodeFits, RowFits, EventFits,
            VerifySteps, ResetSteps, CopySteps, Spending
<1>1. CASE RequestPasswordReset(h, u)
  <2>1. PICK e \in Event : e = Only("password.reset_requested", Null)
    BY DEF Only, Event, EventTypes
  <2>2. PICK r : r = [NoRequest EXCEPT !.at = "code.create", !.user = u, !.event = e]
    OBVIOUS
  <2>3. r \in Request /\ Fits(r) /\ r.at \notin Spending
    BY <2>1, <2>2 DEF Only, NoRequest, Request, Steps
  <2>4. Become(h, r)
    BY <1>1, <2>1, <2>2 DEF RequestPasswordReset
  <2> QED BY <1>1, <2>3, <2>4, NothingToSpend, ReadKeepsIInv DEF RequestPasswordReset
<1>2. CASE UpdateProfileRead(h, u)
  <2>1. PICK e \in Event : e = Only("user.updated", u)
    BY DEF Only, Event, EventTypes
  <2>2. users[u] \in UserRow /\ users[u].password \in had[u] /\ (users[u].verified => Proven(u))
    BY <1>2, RowFacts DEF UpdateProfileRead
  <2>3. PICK r : r = [NoRequest EXCEPT !.at = "profile.update", !.user = u,
                                       !.row = users[u], !.event = e]
    OBVIOUS
  <2>4. r \in Request /\ Fits(r) /\ r.at \notin Spending
    BY <2>1, <2>2, <2>3, NullFacts DEF Only, NoRequest, Request, Steps
  <2>5. Become(h, r)
    BY <1>2, <2>1, <2>3 DEF UpdateProfileRead
  <2> QED BY <1>2, <2>4, <2>5, NothingToSpend, ReadKeepsIInv DEF UpdateProfileRead
<1>3. CASE GetMeRead(h, u)
  <2>1. users[u] \in UserRow /\ (users[u].verified => Proven(u))
    BY <1>3, RowFacts DEF GetMeRead
  <2>2. PICK r : r = [NoRequest EXCEPT !.at = "me.fill", !.user = u, !.row = users[u]]
    OBVIOUS
  <2>3. r \in Request /\ Fits(r) /\ r.at \notin Spending
    BY <2>1, <2>2, NullFacts DEF NoRequest, Request, Steps
  <2>4. Become(h, r)
    BY <1>3, <2>2 DEF GetMeRead
  <2> QED BY <1>3, <2>3, <2>4, NothingToSpend, ReadKeepsIInv DEF GetMeRead
<1>4. CASE \E p \in Passwords : LoginRead(h, u, p)
  <2>1. PICK r : r = [NoRequest EXCEPT !.at = "login.create", !.user = u]
    OBVIOUS
  <2>2. r \in Request /\ Fits(r) /\ r.at \notin Spending
    BY <2>1 DEF NoRequest, Request, Steps
  <2>3. Become(h, r)
    BY <1>4, <2>1 DEF LoginRead
  <2> QED BY <1>4, <2>2, <2>3, NothingToSpend, ReadKeepsIInv DEF LoginRead
<1> QED BY <1>1, <1>2, <1>3, <1>4

\* Whoever finds a session live, or a code unused, has not spent it.
LEMMA FreshUnspent ==
    ASSUME IInv, NEW h \in Handlers, NEW x \in Sessions \union Codes, ~Spent(x)
    PROVE  <<x, h>> \notin uses
BY DEF IInv, TablesOK, UsesAreFinal

LEMMA SessionReads ==
    ASSUME IInv, NEW h \in Handlers, NEW s \in Sessions,
           \/ RefreshTokenRead(h, s)
           \/ LogoutRead(h, s)
           \/ \E u \in Users : RevokeSessionRead(h, u, s)
           \/ \E old, new \in Passwords : ChangePasswordRead(h, s, old, new)
    PROVE  IInv'
<1> USE DEF Fits, ReadsSetFields, SessionFits, Committing, CodeFits, RowFits, EventFits,
            VerifySteps, ResetSteps, CopySteps, Spending
<1>1. CASE RefreshTokenRead(h, s)
  <2>1. sessions[s] # Null /\ ~sessions[s].revoked /\ sessions[s].user \in Users
    BY <1>1, RowFacts DEF RefreshTokenRead, Live, SessionRow
  <2>2. PICK r : r = [NoRequest EXCEPT !.at = "refresh.revoke", !.user = sessions[s].user,
                                       !.session = s]
    OBVIOUS
  <2>3. r \in Request /\ Fits(r)
    BY <2>1, <2>2 DEF NoRequest, Request, Steps
  <2>4. Unspent(h, r)
    <3>1. ~Spent(s)
      BY <2>1, NullFacts DEF Spent
    <3>2. \A x : RequestHolds(r, x) => x = s
      BY <2>2 DEF RequestHolds, NoRequest
    <3> QED BY <3>1, <3>2, FreshUnspent DEF Unspent
  <2>5. Become(h, r)
    BY <1>1, <2>2 DEF RefreshTokenRead
  <2> QED BY <1>1, <2>3, <2>4, <2>5, ReadKeepsIInv DEF RefreshTokenRead
<1>2. CASE LogoutRead(h, s)
  <2>1. sessions[s] # Null /\ sessions[s].user \in Users
    BY <1>2, RowFacts DEF LogoutRead, Live, SessionRow
  <2>2. PICK r : r = [NoRequest EXCEPT !.at = "session.revoke", !.user = sessions[s].user,
                                       !.session = s]
    OBVIOUS
  <2>3. r \in Request /\ Fits(r) /\ r.at \notin Spending
    BY <2>1, <2>2 DEF NoRequest, Request, Steps
  <2>4. Become(h, r)
    BY <1>2, <2>2 DEF LogoutRead
  <2> QED BY <1>2, <2>3, <2>4, NothingToSpend, ReadKeepsIInv DEF LogoutRead
<1>3. ASSUME NEW u \in Users, RevokeSessionRead(h, u, s)
      PROVE  IInv'
  <2>1. sessions[s] # Null /\ sessions[s].user = u
    BY <1>3 DEF RevokeSessionRead, BelongsTo, Live
  <2>2. PICK r : r = [NoRequest EXCEPT !.at = "session.revoke", !.user = u, !.session = s]
    OBVIOUS
  <2>3. r \in Request /\ Fits(r) /\ r.at \notin Spending
    BY <2>1, <2>2 DEF NoRequest, Request, Steps
  <2>4. Become(h, r)
    BY <1>3, <2>2 DEF RevokeSessionRead
  <2> QED BY <1>3, <2>3, <2>4, NothingToSpend, ReadKeepsIInv DEF RevokeSessionRead
<1>4. ASSUME NEW old \in Passwords, NEW new \in Passwords, ChangePasswordRead(h, s, old, new)
      PROVE  IInv'
  <2>1. PICK u \in Users : u = sessions[s].user
    BY <1>4, RowFacts DEF ChangePasswordRead, SessionRow
  <2>2. /\ users[u] \in UserRow /\ old \in had[u]
        /\ users[u].verified => Proven(u)
    BY <1>4, <2>1, RowFacts DEF ChangePasswordRead, Knows
  <2>3. PICK row : row = [users[u] EXCEPT !.password = new]
    OBVIOUS
  <2>4. row \in UserRow /\ (row.verified => Proven(u))
    BY <2>2, <2>3 DEF UserRow
  <2>5. PICK r : r = [NoRequest EXCEPT !.at = "change.update", !.user = u,
                                       !.session = s, !.secret = old, !.row = row]
    OBVIOUS
  <2>6. r \in Request /\ Fits(r) /\ r.at \notin Spending
    BY <2>2, <2>4, <2>5, NullFacts DEF NoRequest, Request, Steps
  <2>7. Become(h, r)
    BY <1>4, <2>1, <2>3, <2>5 DEF ChangePasswordRead
  <2> QED BY <1>4, <2>6, <2>7, NothingToSpend, ReadKeepsIInv DEF ChangePasswordRead
<1> QED BY <1>1, <1>2, <1>3, <1>4

LEMMA CodeReads ==
    ASSUME IInv, NEW h \in Handlers, NEW c \in Codes,
           \/ VerifyEmailRead(h, c)
           \/ \E new \in Passwords : ConfirmPasswordResetRead(h, c, new)
    PROVE  IInv'
<1> USE DEF Fits, ReadsSetFields, SessionFits, Committing, CodeFits, RowFits, EventFits,
            VerifySteps, ResetSteps, CopySteps, Spending
<1>1. Usable(c, "email") \/ Usable(c, "password_reset")
  BY DEF VerifyEmailRead, ConfirmPasswordResetRead
<1>2. codes[c] # Null /\ codes[c].user \in Users /\ ~codes[c].used
  BY <1>1, RowFacts DEF Usable, IInv, TablesOK, TablesTyped, CodeRow
<1>3. ASSUME NEW r \in Request, r.at \in VerifySteps \union ResetSteps, r.code = c
      PROVE  Unspent(h, r)
  <2>1. ~Spent(c)
    BY <1>2, NullFacts DEF Spent
  <2>2. \A x : RequestHolds(r, x) => x = c
    BY <1>3 DEF RequestHolds
  <2> QED BY <2>1, <2>2, FreshUnspent DEF Unspent
<1>4. CASE VerifyEmailRead(h, c)
  <2>1. PICK r : r = [NoRequest EXCEPT !.at = "verify.mark", !.user = codes[c].user,
                                       !.code = c]
    OBVIOUS
  <2>2. codes[c].kind = "email"
    BY <1>4 DEF VerifyEmailRead, Usable, IsKind
  <2>3. r \in Request /\ Fits(r)
    BY <1>2, <2>1, <2>2 DEF NoRequest, Request, Steps
  <2>4. Unspent(h, r)
    BY <1>3, <2>1, <2>3 DEF NoRequest
  <2>5. Become(h, r)
    BY <1>4, <2>1 DEF VerifyEmailRead
  <2> QED BY <1>4, <2>3, <2>4, <2>5, ReadKeepsIInv DEF VerifyEmailRead
<1>5. ASSUME NEW new \in Passwords, ConfirmPasswordResetRead(h, c, new)
      PROVE  IInv'
  <2>1. PICK r : r = [NoRequest EXCEPT !.at = "reset.load", !.user = codes[c].user,
                                       !.code = c, !.secret = new]
    OBVIOUS
  <2>2. codes[c].kind = "password_reset"
    BY <1>5 DEF ConfirmPasswordResetRead, Usable, IsKind
  <2>3. r \in Request /\ Fits(r)
    BY <1>2, <2>1, <2>2 DEF NoRequest, Request, Steps
  <2>4. Unspent(h, r)
    BY <1>3, <2>1, <2>3 DEF NoRequest
  <2>5. Become(h, r)
    BY <1>5, <2>1 DEF ConfirmPasswordResetRead
  <2> QED BY <1>5, <2>3, <2>4, <2>5, ReadKeepsIInv DEF ConfirmPasswordResetRead
<1> QED BY <1>4, <1>5

LEMMA LaterReads ==
    ASSUME IInv, NEW h \in Handlers,
           VerifyEmailLoad(h) \/ ConfirmPasswordResetLoad(h) \/ Publish(h)
    PROVE  IInv'
<1> USE DEF Fits, ReadsSetFields, SessionFits, Committing, CodeFits, RowFits, EventFits,
            VerifySteps, ResetSteps, CopySteps, Spending
<1>1. PICK old \in Request : old = req[h] /\ Fits(old) /\ Unspent(h, old)
  BY DEF IInv
<1>2. ASSUME NEW r \in Request, r.at \in VerifySteps \union ResetSteps,
             old.at \in VerifySteps \union ResetSteps, r.code = old.code
      PROVE  Unspent(h, r)
  BY <1>1, <1>2 DEF Unspent, RequestHolds
<1>3. CASE VerifyEmailLoad(h)
  <2>1. PICK u \in Users : u = old.user /\ users[u] # Null
    BY <1>1, <1>3 DEF VerifyEmailLoad
  <2>2. users[u] \in UserRow /\ users[u].password \in had[u]
    BY <2>1, RowFacts
  <2>3. Proven(u) /\ old.at = "verify.load"
    BY <1>1, <1>3, <2>1 DEF VerifyEmailLoad, Proven
  <2>4. PICK row : row = [users[u] EXCEPT !.verified = TRUE]
    OBVIOUS
  <2>5. row \in UserRow /\ row.password \in had[u]
    BY <2>2, <2>4 DEF UserRow
  <2>6. PICK r : r = [old EXCEPT !.at = "verify.update", !.row = row]
    OBVIOUS
  <2>7. r \in Request /\ r.code = old.code /\ r.at = "verify.update"
    BY <2>5, <2>6 DEF Request, Steps
  <2>8. Fits(r)
    BY <1>1, <2>1, <2>3, <2>5, <2>6, NullFacts DEF Request
  <2>9. Unspent(h, r)
    BY <1>2, <2>3, <2>7
  <2>10. Become(h, r)
    BY <1>1, <1>3, <2>1, <2>4, <2>6 DEF VerifyEmailLoad
  <2> QED BY <1>3, <2>7, <2>8, <2>9, <2>10, ReadKeepsIInv DEF VerifyEmailLoad
<1>4. CASE ConfirmPasswordResetLoad(h)
  <2>1. PICK u \in Users : u = old.user /\ users[u] # Null
    BY <1>1, <1>4 DEF ConfirmPasswordResetLoad
  <2>2. /\ users[u] \in UserRow /\ (users[u].verified => Proven(u))
        /\ old.at = "reset.load" /\ old.secret \in Passwords
    BY <1>1, <1>4, <2>1, RowFacts DEF ConfirmPasswordResetLoad
  <2>3. PICK row : row = [users[u] EXCEPT !.password = old.secret]
    OBVIOUS
  <2>4. row \in UserRow /\ (row.verified => Proven(u))
    BY <2>2, <2>3 DEF UserRow
  <2>5. PICK r : r = [old EXCEPT !.at = "reset.update", !.secret = Null, !.row = row]
    OBVIOUS
  <2>6. r \in Request /\ r.code = old.code /\ r.at = "reset.update"
    BY <2>4, <2>5 DEF Request, Steps
  <2>7. Fits(r)
    BY <1>1, <2>1, <2>2, <2>4, <2>5, NullFacts DEF Request
  <2>8. Unspent(h, r)
    BY <1>2, <2>2, <2>6
  <2>9. Become(h, r)
    BY <1>1, <1>4, <2>1, <2>3, <2>5 DEF ConfirmPasswordResetLoad
  <2> QED BY <1>4, <2>6, <2>7, <2>8, <2>9, ReadKeepsIInv DEF ConfirmPasswordResetLoad
<1>5. CASE Publish(h)
  <2>1. old.at = "publish" /\ UNCHANGED <<tables, cache, mailed, ghosts>>
    BY <1>1, <1>5 DEF Publish
  <2>2. CASE old.event.type = "user.registered"
    <3>1. PICK r : r = [old EXCEPT !.at = "mail"]
      OBVIOUS
    <3>2. r \in Request /\ r.at \notin Spending
      BY <3>1 DEF Request, Steps
    <3>3. Fits(r)
      BY <1>1, <2>1, <2>2, <3>1, NullFacts DEF Request
    <3>4. Become(h, r)
      BY <1>1, <1>5, <2>2, <3>1 DEF Publish
    <3> QED BY <2>1, <3>2, <3>3, <3>4, NothingToSpend, ReadKeepsIInv
  <2>3. CASE old.event.type # "user.registered"
    <3>1. Done(h) /\ uses' = uses
      BY <1>1, <1>5, <2>3 DEF Publish, ghosts
    <3> QED BY <2>1, <3>1, StillTables, DoneKeepsIInv
  <2> QED BY <2>2, <2>3
<1> QED BY <1>3, <1>4, <1>5

\* The statements of a transaction before its COMMIT show nothing.
LEMMA UpdateStep ==
    ASSUME IInv, NEW h \in Handlers, ChangePasswordUpdate(h) \/ ConfirmPasswordResetUpdate(h)
    PROVE  IInv'
<1>1. PICK old \in Request : old = req[h] /\ Fits(old) /\ Unspent(h, old)
  BY DEF IInv
<1>2. PICK next \in Committing, kept \in SUBSET Sessions :
        /\ UpdateInTransaction(h, next, kept)
        /\ \/ old.at = "change.update" /\ next = "change.commit"
           \/ old.at = "reset.update" /\ next = "reset.commit"
  <2>1. CASE ChangePasswordUpdate(h)
    <3>1. old.at = "change.update" /\ {old.session} \in SUBSET Sessions
      BY <1>1, <2>1 DEF ChangePasswordUpdate, Fits, ReadsSetFields
    <3> QED BY <1>1, <2>1, <3>1 DEF ChangePasswordUpdate, Committing
  <2>2. CASE ConfirmPasswordResetUpdate(h)
    BY <1>1, <2>2 DEF ConfirmPasswordResetUpdate, Committing
  <2> QED BY <2>1, <2>2
<1>3. PICK E \in SUBSET Sessions :
        /\ E = {s \in SessionsOf(old.user) : Live(s)} \ kept
        /\ \A s \in E : sessions[s] # Null /\ sessions[s].user = old.user
  <2>1. PICK E : E = {s \in SessionsOf(old.user) : Live(s)} \ kept
    OBVIOUS
  <2>2. \A s \in E : s \in Sessions /\ sessions[s] # Null /\ sessions[s].user = old.user
    BY <2>1 DEF SessionsOf
  <2> QED BY <2>1, <2>2
<1>4. PICK r : r = [old EXCEPT !.at = next, !.ends = E]
  OBVIOUS
<1>5. /\ r \in Request /\ r.at = next /\ r.ends = E /\ r.code = old.code /\ r.user = old.user
      /\ r.session = old.session /\ r.row = old.row /\ r.secret = old.secret
      /\ r.event = old.event
  BY <1>4 DEF Request, Steps, Committing
<1>6. Fits(r)
  BY <1>1, <1>2, <1>3, <1>5 DEF Fits, ReadsSetFields, SessionFits, Committing, CodeFits, RowFits,
     EventFits, VerifySteps, ResetSteps, CopySteps
<1>7. Unspent(h, r)
  BY <1>1, <1>2, <1>5 DEF Unspent, RequestHolds, VerifySteps, ResetSteps
<1>8. Become(h, r)
  BY <1>1, <1>2, <1>3, <1>4 DEF UpdateInTransaction
<1> QED BY <1>2, <1>5, <1>6, <1>7, <1>8, ReadKeepsIInv DEF UpdateInTransaction
-------------------------------------------------------------------------------
(***************************************************************************)
(* Steps that write users, codes or the cache.                             *)
(***************************************************************************)

\* A request that announces an event fits if the event is true.
LEMMA AnnounceKeepsIInv ==
    ASSUME IInv, TablesOK', Grows, NEW h \in Handlers, NEW e \in Event,
           e.type # "user.registered",
           e.type = "session.revoked" => e.of \in Sessions,
           e.type = "user.verified" => e.of \in Users,
           EventIsTrue(e)', Announce(h, e),
           uses' \subseteq uses \union (Sessions \union Codes) \X {h}
    PROVE  IInv'
<1>1. PICK r : r = [NoRequest EXCEPT !.at = "publish", !.event = e]
  OBVIOUS
<1>2. r \in Request /\ r.at \notin Spending
  BY <1>1 DEF NoRequest, Request, Steps, Spending, VerifySteps, ResetSteps
<1>3. Fits(r)'
  BY <1>1 DEF NoRequest, Fits, ReadsSetFields, SessionFits, Committing, CodeFits, RowFits, EventFits,
     VerifySteps, ResetSteps, CopySteps
<1>4. Become(h, r)
  BY <1>1 DEF Announce
<1> QED BY <1>2, <1>3, <1>4, NothingToSpend, MoveKeepsIInv

LEMMA UsesStay ==
    ASSUME IInv, Grows, uses' = uses
    PROVE  UsesAreFinal'
BY SpentGrows DEF IInv, TablesOK, UsesAreFinal

LEMMA AccountsStay ==
    ASSUME IInv, Grows, UNCHANGED <<users, cache, had>>
    PROVE  AccountsOK'
BY ProvenGrows DEF IInv, TablesOK, AccountsOK

LEMMA SessionsStay ==
    ASSUME IInv, UNCHANGED <<sessions, parent>>
    PROVE  ChainsOK'
BY DEF IInv, TablesOK, ChainsOK, RotationRevokes

LEMMA RegisterStep ==
    ASSUME IInv, NEW h \in Handlers, NEW u \in Users, NEW p \in Passwords, Register(h, u, p)
    PROVE  IInv'
<1>1. PICK row : row = [password |-> p, verified |-> FALSE]
  OBVIOUS
<1>2. row \in UserRow /\ row.password = p /\ ~row.verified
  BY <1>1 DEF UserRow
<1>3. /\ users' = [users EXCEPT ![u] = row] /\ had' = [had EXCEPT ![u] = {p}]
      /\ UNCHANGED <<sessions, codes, cache, mailed, parent, uses>>
  BY <1>1 DEF Register
<1>4. had[u] = {}
  BY DEF Register, IInv, TablesOK, AccountsOK
<1>5. Grows
  BY <1>3, <1>4 DEF Grows, IInv, TablesOK, TablesTyped
<1>6. TablesTyped'
  BY <1>2, <1>3 DEF IInv, TablesOK, TablesTyped
<1>7. AccountsOK'
  <2>1. ASSUME NEW v \in Users
        PROVE  /\ users'[v] # Null => /\ users'[v].password \in had'[v]
                                      /\ users'[v].verified => Proven(v)'
               /\ had'[v] # {} => users'[v] # Null
               /\ cache'[v] # Null /\ cache'[v].verified => Proven(v)'
    <3>1. CASE v = u
      <4>1. users'[v] = row /\ had'[v] = {p} /\ cache'[v] = cache[v]
        BY <1>3, <3>1 DEF IInv, TablesOK, TablesTyped
      <4> QED BY <1>2, <1>5, <4>1, ProvenGrows, NullFacts DEF IInv, TablesOK, AccountsOK
    <3>2. CASE v # u
      <4>1. users'[v] = users[v] /\ had'[v] = had[v] /\ cache'[v] = cache[v]
        BY <1>3, <3>2 DEF IInv, TablesOK, TablesTyped
      <4> QED BY <1>5, <4>1, ProvenGrows DEF IInv, TablesOK, AccountsOK
    <3> QED BY <3>1, <3>2
  <2> QED BY <2>1 DEF AccountsOK
<1>8. TablesOK'
  BY <1>3, <1>5, <1>6, <1>7, UsesStay, SessionsStay DEF TablesOK
<1>9. PICK e \in Event : e = Only("user.registered", u)
  BY DEF Only, Event, EventTypes
<1>10. PICK r : r = [NoRequest EXCEPT !.at = "code.create", !.user = u, !.event = e]
  OBVIOUS
<1>11. r \in Request /\ Fits(r)' /\ r.at \notin Spending
  BY <1>9, <1>10 DEF Only, NoRequest, Request, Steps, Fits, ReadsSetFields, SessionFits, Committing,
     CodeFits, RowFits, EventFits, VerifySteps, ResetSteps, CopySteps, Spending
<1>12. Become(h, r)
  BY <1>9, <1>10 DEF Register
<1> QED BY <1>3, <1>5, <1>8, <1>11, <1>12, NothingToSpend, MoveKeepsIInv

LEMMA CreateCodeStep ==
    ASSUME IInv, NEW h \in Handlers, NEW c \in Codes, CreateCode(h, c)
    PROVE  IInv'
<1>1. PICK old \in Request : old = req[h] /\ Fits(old)
  BY DEF IInv
<1>2. PICK u \in Users, e \in Event :
        /\ old.at = "code.create" /\ u = old.user /\ e = old.event
        /\ e.type \in {"user.registered", "password.reset_requested"}
        /\ e.type = "user.registered" => e.of = u
  BY <1>1 DEF CreateCode, Fits, ReadsSetFields, EventFits
<1>3. PICK row : row = [user |-> u, used |-> FALSE, kind |-> KindFor(e)]
  OBVIOUS
<1>4. /\ row \in CodeRow /\ row.user = u /\ row.kind = KindFor(e)
  BY <1>3 DEF CodeRow, Kinds, KindFor
<1>5. /\ codes[c] = Null /\ codes' = [codes EXCEPT ![c] = row] /\ codes'[c] = row
      /\ UNCHANGED <<users, sessions, cache, mailed, ghosts>>
  BY <1>1, <1>2, <1>3 DEF CreateCode, IInv, TablesOK, TablesTyped
<1>6. Grows
  BY <1>5 DEF Grows, ghosts, IInv, TablesOK, TablesTyped
<1>7. TablesTyped'
  BY <1>4, <1>5, NullFacts DEF ghosts, IInv, TablesOK, TablesTyped
<1>8. TablesOK'
  BY <1>5, <1>6, <1>7, AccountsStay, UsesStay, SessionsStay DEF TablesOK, ghosts
<1>9. PICK at : at = IF row.kind = "email" THEN "publish" ELSE "mail"
  OBVIOUS
<1>10. PICK r : r = [NoRequest EXCEPT !.at = at, !.code = c, !.event = e]
  OBVIOUS
<1>11. r \in Request /\ r.at \notin Spending /\ Become(h, r)
  BY <1>1, <1>2, <1>5, <1>9, <1>10 DEF CreateCode, NoRequest, Request, Steps, Spending,
     VerifySteps, ResetSteps
<1>12. EventIsTrue(e)' /\ (e.type = "user.registered" <=> row.kind = "email")
  BY <1>2, <1>4, <1>5, NullFacts DEF EventIsTrue, KindFor
<1>13. Fits(r)'
  BY <1>2, <1>4, <1>5, <1>9, <1>10, <1>12, NullFacts DEF NoRequest, Fits, ReadsSetFields,
     SessionFits, Committing, CodeFits, RowFits, EventFits, VerifySteps, ResetSteps, CopySteps
<1> QED BY <1>5, <1>6, <1>8, <1>11, <1>13, NothingToSpend, MoveKeepsIInv DEF ghosts

LEMMA MailStep ==
    ASSUME IInv, NEW h \in Handlers, Mail(h)
    PROVE  IInv'
<1>1. PICK old \in Request : old = req[h] /\ Fits(old)
  BY DEF IInv
<1>2. /\ old.at = "mail" /\ old.code \in Codes /\ codes[old.code] # Null /\ old.event \in Event
      /\ old.event.type \in {"user.registered", "password.reset_requested"}
  BY <1>1 DEF Mail, Fits, ReadsSetFields, CodeFits, EventFits
<1>3. /\ mailed' = mailed \union {old.code} /\ UNCHANGED <<tables, cache, ghosts>>
  BY <1>1 DEF Mail
<1>4. Grows
  BY <1>3 DEF Grows, tables, ghosts, IInv, TablesOK, TablesTyped
<1>5. TablesTyped'
  BY <1>2, <1>3 DEF tables, ghosts, IInv, TablesOK, TablesTyped
<1>6. TablesOK' /\ uses' = uses
  BY <1>3, <1>4, <1>5, AccountsStay, UsesStay, SessionsStay DEF TablesOK, tables, ghosts
<1>7. CASE old.event.type = "user.registered"
  <2>1. Done(h)
    BY <1>1, <1>7 DEF Mail
  <2> QED BY <1>4, <1>6, <2>1, DoneKeepsIInv
<1>8. CASE old.event.type = "password.reset_requested"
  <2>1. Announce(h, old.event)
    BY <1>1, <1>8 DEF Mail
  <2>2. EventIsTrue(old.event)'
    BY <1>8 DEF EventIsTrue
  <2> QED BY <1>2, <1>4, <1>6, <1>8, <2>1, <2>2, AnnounceKeepsIInv
<1> QED BY <1>2, <1>7, <1>8

\* What marking a code as used does to the table.
LEMMA MarkedCodes ==
    ASSUME IInv, NEW c \in Codes, codes[c] # Null, codes' = MarkUsed(c)
    PROVE  /\ codes' \in [Codes -> CodeRow \union {Null}]
           /\ \A d \in Codes : codes[d] # Null =>
                /\ codes'[d] # Null /\ codes'[d].user = codes[d].user
                /\ codes'[d].kind = codes[d].kind
                /\ codes[d].used => codes'[d].used
           /\ codes'[c].used
<1>1. PICK row : row = [codes[c] EXCEPT !.used = TRUE]
  OBVIOUS
<1>2. /\ codes[c] \in CodeRow /\ row \in CodeRow /\ row.used
      /\ row.user = codes[c].user /\ row.kind = codes[c].kind
  BY <1>1, RowFacts DEF CodeRow
<1>3. codes \in [Codes -> CodeRow \union {Null}] /\ codes' = [codes EXCEPT ![c] = row]
  BY <1>1 DEF MarkUsed, IInv, TablesOK, TablesTyped
<1> QED BY <1>2, <1>3, NullFacts

LEMMA VerifyMarkStep ==
    ASSUME IInv, NEW h \in Handlers, VerifyEmailMark(h)
    PROVE  IInv'
<1>1. PICK old \in Request : old = req[h] /\ Fits(old) /\ Unspent(h, old)
  BY DEF IInv
<1>2. PICK c \in Codes : c = old.code /\ codes[c] # Null
  BY <1>1 DEF VerifyEmailMark, Fits, ReadsSetFields, CodeFits, VerifySteps
<1>3. /\ codes' = MarkUsed(c) /\ UNCHANGED <<users, sessions, cache, mailed, ghosts>>
      /\ old.at = "verify.mark"
  BY <1>1, <1>2 DEF VerifyEmailMark
<1>4. Grows
  BY <1>2, <1>3, MarkedCodes DEF Grows, ghosts, IInv, TablesOK, TablesTyped
<1>5. TablesTyped'
  BY <1>2, <1>3, MarkedCodes DEF ghosts, IInv, TablesOK, TablesTyped
<1>6. TablesOK' /\ uses' = uses
  BY <1>3, <1>4, <1>5, AccountsStay, UsesStay, SessionsStay DEF TablesOK, ghosts
<1>7. PICK r : r = [old EXCEPT !.at = "verify.load"]
  OBVIOUS
<1>8. /\ r \in Request /\ r.at = "verify.load" /\ r.code = c
      /\ r.user = old.user /\ r.row = old.row /\ r.event = old.event
  BY <1>2, <1>7 DEF Request, Steps
<1>9. Fits(r)'
  <2>1. Fits(old)'
    BY <1>1, <1>4, FitsGrows
  <2>2. codes'[c].used
    BY <1>2, <1>3, MarkedCodes
  <2> QED BY <1>2, <1>3, <1>8, <2>1, <2>2 DEF Fits, ReadsSetFields, SessionFits, Committing, CodeFits,
             RowFits, EventFits, VerifySteps, ResetSteps, CopySteps
<1>10. Unspent(h, r)'
  BY <1>1, <1>2, <1>3, <1>6, <1>8 DEF Unspent, RequestHolds, VerifySteps, ResetSteps
<1>11. Become(h, r)
  BY <1>1, <1>7 DEF VerifyEmailMark
<1> QED BY <1>4, <1>6, <1>8, <1>9, <1>10, <1>11, MoveKeepsIInv

\* A row whose password the user has had and whose verification is earned.
Deserved(u, row) ==
    row \in UserRow /\ row.password \in had'[u] /\ (row.verified => Proven(u)')

LEMMA UpdatedAccounts ==
    ASSUME IInv, Grows, NEW u \in Users, NEW row \in UserRow, Deserved(u, row),
           users' = Update(u, row), cache' = cache,
           \A v \in Users : v # u => had'[v] = had[v]
    PROVE  AccountsOK' /\ users' \in [Users -> UserRow \union {Null}]
<1>1. users' = [users EXCEPT ![u] = row] /\ users \in [Users -> UserRow \union {Null}]
  BY DEF Update, IInv, TablesOK, TablesTyped
<1>2. ASSUME NEW v \in Users
      PROVE  /\ users'[v] # Null => /\ users'[v].password \in had'[v]
                                    /\ users'[v].verified => Proven(v)'
             /\ had'[v] # {} => users'[v] # Null
             /\ cache'[v] # Null /\ cache'[v].verified => Proven(v)'
  <2>1. cache'[v] # Null /\ cache'[v].verified => Proven(v)'
    BY ProvenGrows DEF IInv, TablesOK, AccountsOK
  <2>2. CASE v = u
    BY <1>1, <2>1, <2>2, NullFacts DEF Deserved
  <2>3. CASE v # u
    BY <1>1, <2>1, <2>3, ProvenGrows DEF IInv, TablesOK, AccountsOK
  <2> QED BY <2>2, <2>3
<1> QED BY <1>1, <1>2 DEF AccountsOK

\* Goroutine h spends x, which is dead from now on.
LEMMA UsesGrow ==
    ASSUME IInv, Grows, NEW h \in Handlers, NEW x \in Sessions \union Codes, Spent(x)',
           uses' = uses \union {<<x, h>>}
    PROVE  /\ UsesAreFinal' /\ uses' \subseteq (Sessions \union Codes) \X Handlers
           /\ uses' \subseteq uses \union (Sessions \union Codes) \X {h}
<1>1. UsesAreFinal'
  <2>1. ASSUME NEW k \in Handlers, NEW y \in Sessions \union Codes, <<y, k>> \in uses'
        PROVE  Spent(y)'
    <3>1. CASE <<y, k>> \in uses
      BY <3>1, SpentGrows DEF IInv, TablesOK, UsesAreFinal
    <3>2. CASE <<y, k>> \notin uses
      <4>1. y = x
        BY <2>1, <3>2
      <4> QED BY <4>1
    <3> QED BY <3>1, <3>2
  <2> QED BY <2>1 DEF UsesAreFinal
<1> QED BY <1>1 DEF IInv, TablesOK, TablesTyped

LEMMA VerifyUpdateStep ==
    ASSUME IInv, NEW h \in Handlers, VerifyEmailUpdate(h)
    PROVE  IInv'
<1>1. PICK old \in Request : old = req[h] /\ Fits(old)
  BY DEF IInv
<1>2. PICK c \in Codes, u \in Users :
        /\ c = old.code /\ u = old.user /\ codes[c] # Null /\ codes[c].used
        /\ codes[c].user = u /\ codes[c].kind = "email"
  BY <1>1 DEF VerifyEmailUpdate, Fits, ReadsSetFields, CodeFits, VerifySteps
<1>3. PICK row \in UserRow : row = old.row /\ row.password \in had[u]
  BY <1>1, <1>2 DEF VerifyEmailUpdate, Fits, ReadsSetFields, RowFits, CopySteps, Request
<1>4. /\ users' = Update(u, row) /\ uses' = uses \union {<<c, h>>}
      /\ UNCHANGED <<sessions, codes, cache, mailed, had, parent>>
  BY <1>1, <1>2, <1>3 DEF VerifyEmailUpdate
<1>5. Grows
  BY <1>4 DEF Grows, IInv, TablesOK, TablesTyped
<1>6. Proven(u)' /\ Spent(c)'
  BY <1>2, <1>4 DEF Proven, Spent
<1>7. AccountsOK' /\ users' \in [Users -> UserRow \union {Null}]
  BY <1>3, <1>4, <1>5, <1>6, UpdatedAccounts DEF Deserved
<1>8. /\ UsesAreFinal' /\ uses' \subseteq (Sessions \union Codes) \X Handlers
      /\ uses' \subseteq uses \union (Sessions \union Codes) \X {h}
  BY <1>4, <1>5, <1>6, UsesGrow
<1>9. TablesOK'
  BY <1>4, <1>7, <1>8, SessionsStay DEF IInv, TablesOK, TablesTyped
<1>10. PICK e \in Event : e = Only("user.verified", u)
  BY DEF Only, Event, EventTypes
<1>11. Announce(h, e) /\ EventIsTrue(e)' /\ e.type = "user.verified" /\ e.of = u
  BY <1>1, <1>2, <1>6, <1>10 DEF VerifyEmailUpdate, EventIsTrue, Only
<1> QED BY <1>5, <1>8, <1>9, <1>11, AnnounceKeepsIInv

LEMMA ProfileStep ==
    ASSUME IInv, NEW h \in Handlers, UpdateProfileUpdate(h)
    PROVE  IInv'
<1>1. PICK old \in Request : old = req[h] /\ Fits(old)
  BY DEF IInv
<1>2. PICK u \in Users, row \in UserRow :
        /\ u = old.user /\ row = old.row /\ row.password \in had[u]
        /\ row.verified => Proven(u)
  BY <1>1 DEF UpdateProfileUpdate, Fits, ReadsSetFields, RowFits, CopySteps, Request
<1>3. old.at = "profile.update" /\ old.event \in Event /\ old.event.type = "user.updated"
  BY <1>1 DEF UpdateProfileUpdate, Fits, ReadsSetFields, EventFits
<1>4. users' = Update(u, row) /\ UNCHANGED <<sessions, codes, cache, mailed, ghosts>>
  BY <1>1, <1>2 DEF UpdateProfileUpdate
<1>5. Grows
  BY <1>4 DEF Grows, ghosts, IInv, TablesOK, TablesTyped
<1>6. AccountsOK' /\ users' \in [Users -> UserRow \union {Null}]
  BY <1>2, <1>4, <1>5, UpdatedAccounts, ProvenGrows DEF Deserved, ghosts
<1>7. TablesOK' /\ uses' = uses
  BY <1>4, <1>5, <1>6, UsesStay, SessionsStay DEF IInv, TablesOK, TablesTyped, ghosts
<1>8. PICK r : r = [old EXCEPT !.at = "profile.evict", !.row = Null]
  OBVIOUS
<1>9. r \in Request /\ r.at \notin Spending
  BY <1>8 DEF Request, Steps, Spending, VerifySteps, ResetSteps
<1>10. Fits(r)'
  BY <1>2, <1>3, <1>8 DEF Request, Fits, ReadsSetFields, SessionFits, Committing, CodeFits, RowFits, EventFits,
     VerifySteps, ResetSteps, CopySteps
<1>11. Become(h, r)
  BY <1>1, <1>8 DEF UpdateProfileUpdate
<1> QED BY <1>5, <1>7, <1>9, <1>10, <1>11, NothingToSpend, MoveKeepsIInv

\* Changes of the cache: a key is removed, or filled with the copy of a request.
LEMMA CacheSteps ==
    ASSUME IInv, NEW u \in Users, NEW row \in CachedUser \union {Null},
           row # Null /\ row.verified => Proven(u),
           cache' = [cache EXCEPT ![u] = row], UNCHANGED <<tables, mailed, ghosts>>
    PROVE  TablesOK' /\ Grows /\ uses' = uses
<1>1. Grows
  BY DEF Grows, tables, ghosts, IInv, TablesOK, TablesTyped
<1>2. TablesTyped'
  BY DEF tables, ghosts, IInv, TablesOK, TablesTyped
<1>3. \A v \in Users : cache'[v] = IF v = u THEN row ELSE cache[v]
  BY DEF IInv, TablesOK, TablesTyped
<1>4. AccountsOK'
  BY <1>1, <1>3, ProvenGrows DEF tables, ghosts, IInv, TablesOK, AccountsOK
<1> QED BY <1>1, <1>2, <1>4, UsesStay, SessionsStay DEF TablesOK, tables, ghosts

LEMMA EvictStep ==
    ASSUME IInv, NEW h \in Handlers, Evict(h) \/ GetMeFill(h)
    PROVE  IInv'
<1>1. PICK old \in Request : old = req[h] /\ Fits(old)
  BY DEF IInv
<1>2. old.user \in Users
  BY <1>1 DEF Evict, GetMeFill, Fits, ReadsSetFields
<1>3. CASE Evict(h)
  <2>1. TablesOK' /\ Grows /\ uses' = uses
    BY <1>1, <1>2, <1>3, CacheSteps DEF Evict
  <2>2. CASE old.at = "profile.evict"
    <3>1. old.event \in Event /\ old.event.type = "user.updated"
      BY <1>1, <2>2 DEF Fits, ReadsSetFields, EventFits
    <3>2. Announce(h, old.event) /\ EventIsTrue(old.event)'
      BY <1>1, <1>3, <2>2, <3>1 DEF Evict, EventIsTrue
    <3> QED BY <2>1, <3>1, <3>2, AnnounceKeepsIInv
  <2>3. CASE old.at # "profile.evict"
    <3>1. Done(h)
      BY <1>1, <1>3, <2>3 DEF Evict
    <3> QED BY <2>1, <3>1, DoneKeepsIInv
  <2> QED BY <2>2, <2>3
<1>4. CASE GetMeFill(h)
  <2>0. old.row \in UserRow
    BY <1>1, <1>4 DEF GetMeFill, Fits, ReadsSetFields, CopySteps, Request
  <2>1. old.row.verified => Proven(old.user)
    BY <1>1, <2>0, NullFacts DEF Fits, RowFits
  <2>2. PICK row \in CachedUser :
          row = [verified |-> old.row.verified] /\ (row.verified => Proven(old.user))
    <3>1. PICK b \in BOOLEAN : b = old.row.verified
      BY <2>0 DEF UserRow
    <3>2. [verified |-> b] \in CachedUser /\ [verified |-> b].verified = b
      BY DEF CachedUser
    <3> QED BY <2>1, <3>1, <3>2
  <2>3. TablesOK' /\ Grows /\ uses' = uses
    BY <1>1, <1>2, <1>4, <2>2, CacheSteps DEF GetMeFill
  <2> QED BY <1>4, <2>3, DoneKeepsIInv DEF GetMeFill
<1> QED BY <1>3, <1>4

LEMMA ExpireStep ==
    ASSUME IInv, NEW u \in Users, Expire(u)
    PROVE  IInv'
<1>1. TablesOK' /\ Grows /\ uses' = uses /\ req' = req
  BY CacheSteps DEF Expire
<1> QED BY <1>1, WaitKeepsIInv
-------------------------------------------------------------------------------
(***************************************************************************)
(* Steps that write sessions.                                              *)
(***************************************************************************)

\* Some sessions are revoked: no chain is hurt.
LEMMA RevokedSessions ==
    ASSUME IInv, NEW S \in SUBSET {s \in Sessions : sessions[s] # Null},
           sessions' = Revoked(S), parent' = parent
    PROVE  /\ sessions' \in [Sessions -> SessionRow \union {Null}]
           /\ \A s \in Sessions : sessions[s] # Null =>
                /\ sessions'[s] # Null /\ sessions'[s].user = sessions[s].user
                /\ sessions[s].revoked => sessions'[s].revoked
           /\ \A s \in S : sessions'[s].revoked
           /\ ChainsOK'
<1>1. ASSUME NEW s \in Sessions
      PROVE  /\ sessions[s] = Null => sessions'[s] = Null
             /\ sessions[s] # Null =>
                  /\ sessions'[s] \in SessionRow /\ sessions'[s].user = sessions[s].user
                  /\ sessions[s].revoked => sessions'[s].revoked
             /\ s \in S => sessions'[s].revoked
  <2>1. CASE s \in S
    <3>1. PICK row : row = [sessions[s] EXCEPT !.revoked = TRUE]
      OBVIOUS
    <3>2. sessions[s] \in SessionRow /\ sessions[s] # Null
      BY <2>1, RowFacts
    <3>3. row \in SessionRow /\ row.user = sessions[s].user /\ row.revoked
      BY <3>1, <3>2 DEF SessionRow
    <3>4. sessions'[s] = row
      BY <2>1, <3>1 DEF Revoked
    <3> QED BY <3>2, <3>3, <3>4
  <2>2. CASE s \notin S
    <3>1. sessions'[s] = sessions[s]
      BY <2>2 DEF Revoked
    <3> QED BY <2>2, <3>1, RowFacts
  <2> QED BY <2>1, <2>2
<1>2. sessions' \in [Sessions -> SessionRow \union {Null}]
  <2>1. \A s \in Sessions : sessions'[s] \in SessionRow \union {Null}
    BY <1>1
  <2>2. sessions' = [s \in Sessions |-> sessions'[s]]
    BY DEF Revoked
  <2> QED BY <2>1, <2>2
<1>3. ChainsOK'
  <2>1. ASSUME NEW s \in Sessions, sessions'[s] # Null, parent[s] # Null
        PROVE  /\ sessions'[parent[s]] # Null /\ sessions'[parent[s]].revoked
               /\ sessions'[parent[s]].user = sessions'[s].user
    <3>1. /\ sessions[s] # Null /\ sessions[parent[s]] # Null /\ sessions[parent[s]].revoked
          /\ sessions[parent[s]].user = sessions[s].user
      BY <1>1, <2>1 DEF IInv, TablesOK, ChainsOK, RotationRevokes
    <3>2. parent[s] \in Sessions
      BY <2>1 DEF IInv, TablesOK, TablesTyped
    <3> QED BY <1>1, <3>1, <3>2, NullFacts
  <2> QED BY <1>1, <2>1, NullFacts DEF IInv, TablesOK, ChainsOK, RotationRevokes
<1> QED BY <1>1, <1>2, <1>3, NullFacts

\* A session is created, as the first of a chain or after one that is dead.
LEMMA CreatedSession ==
    ASSUME IInv, NEW u \in Users, NEW s \in Sessions, NEW old \in Sessions \union {Null},
           sessions[s] = Null,
           sessions' = [sessions EXCEPT ![s] = [user |-> u, revoked |-> FALSE]],
           parent' = [parent EXCEPT ![s] = old],
           old # Null => /\ sessions[old] # Null /\ sessions[old].revoked
                         /\ sessions[old].user = u
    PROVE  /\ sessions' \in [Sessions -> SessionRow \union {Null}]
           /\ parent' \in [Sessions -> Sessions \union {Null}]
           /\ \A t \in Sessions : sessions[t] # Null => sessions'[t] = sessions[t]
           /\ ChainsOK'
<1>1. PICK row : row = [user |-> u, revoked |-> FALSE]
  OBVIOUS
<1>2. row \in SessionRow /\ row.user = u /\ row # Null
  <2>1. row \in SessionRow /\ row.user = u
    BY <1>1 DEF SessionRow
  <2> QED BY <2>1, NullFacts
<1>3. /\ sessions \in [Sessions -> SessionRow \union {Null}]
      /\ parent \in [Sessions -> Sessions \union {Null}]
      /\ sessions' = [sessions EXCEPT ![s] = row]
  BY <1>1 DEF IInv, TablesOK, TablesTyped
<1>4. /\ sessions'[s] = row /\ parent'[s] = old
      /\ \A t \in Sessions : t # s => sessions'[t] = sessions[t] /\ parent'[t] = parent[t]
  BY <1>3
<1>5. ASSUME NEW t \in Sessions, sessions'[t] # Null, parent'[t] # Null
      PROVE  /\ sessions'[parent'[t]] # Null /\ sessions'[parent'[t]].revoked
             /\ sessions'[parent'[t]].user = sessions'[t].user
  <2>1. CASE t = s
    <3>1. old \in Sessions /\ old # Null /\ old # s /\ parent'[t] = old
      BY <1>4, <1>5, <2>1
    <3>2. sessions'[old] = sessions[old]
      BY <1>4, <3>1
    <3> QED BY <1>2, <1>4, <2>1, <3>1, <3>2
  <2>2. CASE t # s
    <3>1. /\ sessions[parent[t]] # Null /\ sessions[parent[t]].revoked
          /\ sessions[parent[t]].user = sessions[t].user
          /\ parent[t] \in Sessions /\ parent'[t] = parent[t]
      BY <1>3, <1>4, <1>5, <2>2 DEF IInv, TablesOK, ChainsOK, RotationRevokes
    <3>2. parent[t] # s
      BY <3>1
    <3> QED BY <1>4, <2>2, <3>1, <3>2
  <2> QED BY <2>1, <2>2
<1>6. ChainsOK'
  BY <1>2, <1>4, <1>5 DEF IInv, TablesOK, ChainsOK, RotationRevokes
<1> QED BY <1>2, <1>3, <1>4, <1>6

LEMMA LoginStep ==
    ASSUME IInv, NEW h \in Handlers, NEW s \in Sessions, LoginCreate(h, s)
    PROVE  IInv'
<1>1. PICK u \in Users : u = req[h].user
  BY DEF LoginCreate, IInv, Fits, ReadsSetFields
<1>2. /\ sessions[s] = Null
      /\ sessions' = [sessions EXCEPT ![s] = [user |-> u, revoked |-> FALSE]]
      /\ UNCHANGED <<users, codes, cache, mailed, had, parent, uses>>
  BY <1>1 DEF LoginCreate, Create
<1>3. parent' = [parent EXCEPT ![s] = Null]
  <2>1. parent[s] = Null /\ parent \in [Sessions -> Sessions \union {Null}]
    BY <1>2 DEF IInv, TablesOK, ChainsOK, TablesTyped
  <2> QED BY <1>2, <2>1
<1>4. /\ sessions' \in [Sessions -> SessionRow \union {Null}]
      /\ \A t \in Sessions : sessions[t] # Null => sessions'[t] = sessions[t]
      /\ ChainsOK'
  BY <1>2, <1>3, CreatedSession
<1>5. Grows
  BY <1>2, <1>4 DEF Grows
<1>6. TablesOK'
  BY <1>2, <1>4, <1>5, AccountsStay, UsesStay DEF IInv, TablesOK, TablesTyped
<1>7. PICK r : r = [NoRequest EXCEPT !.at = "login.evict", !.user = u]
  OBVIOUS
<1>8. r \in Request /\ Fits(r)' /\ r.at \notin Spending
  BY <1>7 DEF NoRequest, Request, Steps, Fits, ReadsSetFields, SessionFits, Committing,
     CodeFits, RowFits, EventFits, VerifySteps, ResetSteps, CopySteps, Spending
<1>9. Become(h, r)
  BY <1>1, <1>7 DEF LoginCreate
<1> QED BY <1>2, <1>5, <1>6, <1>8, <1>9, NothingToSpend, MoveKeepsIInv

\* The session that a request holds exists.
LEMMA HeldSession ==
    ASSUME IInv, NEW h \in Handlers,
           req[h].at \in {"refresh.revoke", "refresh.create", "session.revoke"}
    PROVE  \E s \in Sessions : s = req[h].session /\ sessions[s] # Null
BY DEF IInv, Fits, ReadsSetFields, SessionFits

LEMMA RefreshRevokeStep ==
    ASSUME IInv, NEW h \in Handlers, RefreshTokenRevoke(h)
    PROVE  IInv'
<1>1. PICK old \in Request :
        old = req[h] /\ Fits(old) /\ Unspent(h, old) /\ old.at = "refresh.revoke"
  BY DEF IInv, RefreshTokenRevoke
<1>2. PICK s \in Sessions : s = old.session /\ sessions[s] # Null
  BY <1>1, HeldSession
<1>3. /\ sessions' = Revoked({s}) /\ UNCHANGED <<users, codes, cache, mailed, ghosts>>
  BY <1>1, <1>2 DEF RefreshTokenRevoke
<1>4. /\ sessions' \in [Sessions -> SessionRow \union {Null}]
      /\ \A t \in Sessions : sessions[t] # Null =>
           /\ sessions'[t] # Null /\ sessions'[t].user = sessions[t].user
           /\ sessions[t].revoked => sessions'[t].revoked
      /\ sessions'[s].revoked
      /\ ChainsOK'
  BY <1>2, <1>3, RevokedSessions DEF ghosts
<1>5. Grows
  BY <1>3, <1>4 DEF Grows, ghosts
<1>6. TablesOK' /\ uses' = uses
  BY <1>3, <1>4, <1>5, AccountsStay, UsesStay DEF IInv, TablesOK, TablesTyped, ghosts
<1>7. PICK r : r = [old EXCEPT !.at = "refresh.create"]
  OBVIOUS
<1>8. /\ r \in Request /\ r.at = "refresh.create" /\ r.session = s
      /\ r.user = old.user /\ r.row = old.row /\ r.event = old.event
  BY <1>2, <1>7 DEF Request, Steps
<1>9. Fits(r)'
  <2>1. Fits(old)'
    BY <1>1, <1>5, FitsGrows
  <2> QED BY <1>1, <1>2, <1>4, <1>8, <2>1 DEF Fits, ReadsSetFields, SessionFits, Committing, CodeFits,
             RowFits, EventFits, VerifySteps, ResetSteps, CopySteps
<1>10. Unspent(h, r)'
  BY <1>1, <1>2, <1>6, <1>8 DEF Unspent, RequestHolds, VerifySteps, ResetSteps
<1>11. Become(h, r)
  BY <1>1, <1>7 DEF RefreshTokenRevoke
<1> QED BY <1>5, <1>6, <1>8, <1>9, <1>10, <1>11, MoveKeepsIInv

LEMMA RefreshCreateStep ==
    ASSUME IInv, NEW h \in Handlers, NEW s \in Sessions, RefreshTokenCreate(h, s)
    PROVE  IInv'
<1>1. PICK u \in Users, old \in Sessions :
        /\ u = req[h].user /\ old = req[h].session /\ sessions[old] # Null
        /\ sessions[old].user = u /\ sessions[old].revoked
  BY DEF RefreshTokenCreate, IInv, Fits, ReadsSetFields, SessionFits
<1>2. /\ sessions[s] = Null /\ parent' = [parent EXCEPT ![s] = old]
      /\ sessions' = [sessions EXCEPT ![s] = [user |-> u, revoked |-> FALSE]]
      /\ uses' = uses \union {<<old, h>>}
      /\ Done(h) /\ UNCHANGED <<users, codes, cache, mailed, had>>
  BY <1>1 DEF RefreshTokenCreate, Create
<1>3. /\ sessions' \in [Sessions -> SessionRow \union {Null}]
      /\ parent' \in [Sessions -> Sessions \union {Null}]
      /\ \A t \in Sessions : sessions[t] # Null => sessions'[t] = sessions[t]
      /\ ChainsOK'
  BY <1>1, <1>2, CreatedSession
<1>4. Grows
  BY <1>2, <1>3 DEF Grows
<1>5. Spent(old)'
  BY <1>1, <1>3 DEF Spent
<1>6. /\ UsesAreFinal' /\ uses' \subseteq (Sessions \union Codes) \X Handlers
      /\ uses' \subseteq uses \union (Sessions \union Codes) \X {h}
  BY <1>2, <1>4, <1>5, UsesGrow
<1>7. TablesOK'
  BY <1>2, <1>3, <1>4, <1>6, AccountsStay DEF IInv, TablesOK, TablesTyped
<1> QED BY <1>2, <1>4, <1>6, <1>7, DoneKeepsIInv

LEMMA SessionRevokeStep ==
    ASSUME IInv, NEW h \in Handlers, SessionRevoke(h)
    PROVE  IInv'
<1>1. PICK s \in Sessions : s = req[h].session /\ sessions[s] # Null
  BY HeldSession DEF SessionRevoke
<1>2. /\ sessions' = Revoked({s}) /\ UNCHANGED <<users, codes, cache, mailed, ghosts>>
  BY <1>1 DEF SessionRevoke
<1>3. /\ sessions' \in [Sessions -> SessionRow \union {Null}]
      /\ \A t \in Sessions : sessions[t] # Null =>
           /\ sessions'[t] # Null /\ sessions'[t].user = sessions[t].user
           /\ sessions[t].revoked => sessions'[t].revoked
      /\ sessions'[s].revoked
      /\ ChainsOK'
  BY <1>1, <1>2, RevokedSessions DEF ghosts
<1>4. Grows
  BY <1>2, <1>3 DEF Grows, ghosts
<1>5. TablesOK' /\ uses' = uses
  BY <1>2, <1>3, <1>4, AccountsStay, UsesStay DEF IInv, TablesOK, TablesTyped, ghosts
<1>6. PICK e \in Event : e = Only("session.revoked", s)
  BY DEF Only, Event, EventTypes
<1>7. Announce(h, e) /\ EventIsTrue(e)' /\ e.type = "session.revoked" /\ e.of = s
  BY <1>1, <1>3, <1>6 DEF SessionRevoke, EventIsTrue, Only
<1> QED BY <1>4, <1>5, <1>7, AnnounceKeepsIInv
-------------------------------------------------------------------------------
(***************************************************************************)
(* The transactions that change a password.                                *)
(***************************************************************************)

\* A new password is one the user has had from now on.
LEMMA NewPassword ==
    ASSUME IInv, NEW u \in Users, NEW p \in Passwords, had' = [had EXCEPT ![u] = @ \union {p}]
    PROVE  /\ had' \in [Users -> SUBSET Passwords]
           /\ p \in had'[u]
           /\ \A v \in Users : had[v] \subseteq had'[v] /\ (v # u => had'[v] = had[v])
BY DEF IInv, TablesOK, TablesTyped

LEMMA ChangeStep ==
    ASSUME IInv, NEW h \in Handlers, ChangePasswordCommit(h)
    PROVE  IInv'
<1>1. PICK old \in Request : old = req[h] /\ Fits(old)
  BY DEF IInv
<1>2. PICK u \in Users, row \in UserRow :
        u = old.user /\ row = old.row /\ (row.verified => Proven(u))
  BY <1>1 DEF ChangePasswordCommit, Fits, ReadsSetFields, RowFits, CopySteps, Request
<1>3. PICK S \in SUBSET {s \in Sessions : sessions[s] # Null} : S = old.ends
  BY <1>1 DEF ChangePasswordCommit, Fits, SessionFits, Committing, Request
<1>4. /\ users' = Update(u, row) /\ sessions' = Revoked(S)
      /\ had' = [had EXCEPT ![u] = @ \union {row.password}]
      /\ UNCHANGED <<codes, cache, mailed, parent, uses>>
  BY <1>1, <1>2, <1>3 DEF ChangePasswordCommit, CommitPassword
<1>5. /\ had' \in [Users -> SUBSET Passwords] /\ row.password \in had'[u]
      /\ \A v \in Users : had[v] \subseteq had'[v] /\ (v # u => had'[v] = had[v])
  <2>1. row.password \in Passwords
    BY DEF UserRow
  <2> QED BY <1>4, <2>1, NewPassword
<1>6. /\ sessions' \in [Sessions -> SessionRow \union {Null}]
      /\ \A t \in Sessions : sessions[t] # Null =>
           /\ sessions'[t] # Null /\ sessions'[t].user = sessions[t].user
           /\ sessions[t].revoked => sessions'[t].revoked
      /\ ChainsOK'
  BY <1>4, RevokedSessions
<1>7. Grows
  BY <1>4, <1>5, <1>6 DEF Grows
<1>8. AccountsOK' /\ users' \in [Users -> UserRow \union {Null}]
  BY <1>2, <1>4, <1>5, <1>7, ProvenGrows, UpdatedAccounts DEF Deserved
<1>9. TablesOK'
  BY <1>4, <1>5, <1>6, <1>7, <1>8, UsesStay DEF IInv, TablesOK, TablesTyped
<1>10. PICK e \in Event : e = Only("password.changed", Null)
  BY DEF Only, Event, EventTypes
<1>11. Announce(h, e) /\ EventIsTrue(e)' /\ e.type = "password.changed"
  BY <1>10 DEF ChangePasswordCommit, CommitPassword, EventIsTrue, Only
<1> QED BY <1>4, <1>7, <1>9, <1>11, AnnounceKeepsIInv

LEMMA ResetStep ==
    ASSUME IInv, NEW h \in Handlers, ConfirmPasswordResetCommit(h)
    PROVE  IInv'
<1>1. PICK old \in Request : old = req[h] /\ Fits(old)
  BY DEF IInv
<1>2. PICK u \in Users, row \in UserRow, c \in Codes :
        /\ u = old.user /\ row = old.row /\ (row.verified => Proven(u))
        /\ c = old.code /\ codes[c] # Null
  BY <1>1 DEF ConfirmPasswordResetCommit, Fits, ReadsSetFields, RowFits, CodeFits, CopySteps,
     ResetSteps, Request
<1>3. PICK S \in SUBSET {s \in Sessions : sessions[s] # Null} : S = old.ends
  BY <1>1 DEF ConfirmPasswordResetCommit, Fits, SessionFits, Committing, Request
<1>4. /\ users' = Update(u, row) /\ sessions' = Revoked(S) /\ codes' = MarkUsed(c)
      /\ had' = [had EXCEPT ![u] = @ \union {row.password}]
      /\ uses' = uses \union {<<c, h>>}
      /\ UNCHANGED <<cache, mailed, parent>>
  BY <1>1, <1>2, <1>3 DEF ConfirmPasswordResetCommit, CommitPassword
<1>5. /\ had' \in [Users -> SUBSET Passwords] /\ row.password \in had'[u]
      /\ \A v \in Users : had[v] \subseteq had'[v] /\ (v # u => had'[v] = had[v])
  <2>1. row.password \in Passwords
    BY DEF UserRow
  <2> QED BY <1>4, <2>1, NewPassword
<1>6. /\ sessions' \in [Sessions -> SessionRow \union {Null}]
      /\ \A t \in Sessions : sessions[t] # Null =>
           /\ sessions'[t] # Null /\ sessions'[t].user = sessions[t].user
           /\ sessions[t].revoked => sessions'[t].revoked
      /\ ChainsOK'
  BY <1>4, RevokedSessions
<1>7. /\ codes' \in [Codes -> CodeRow \union {Null}]
      /\ \A d \in Codes : codes[d] # Null =>
           /\ codes'[d] # Null /\ codes'[d].user = codes[d].user
           /\ codes'[d].kind = codes[d].kind
           /\ codes[d].used => codes'[d].used
      /\ codes'[c].used
  BY <1>2, <1>4, MarkedCodes
<1>8. Grows
  BY <1>5, <1>6, <1>7 DEF Grows
<1>9. AccountsOK' /\ users' \in [Users -> UserRow \union {Null}]
  BY <1>2, <1>4, <1>5, <1>8, ProvenGrows, UpdatedAccounts DEF Deserved
<1>10. Spent(c)'
  BY <1>2, <1>7 DEF Spent
<1>11. /\ UsesAreFinal' /\ uses' \subseteq (Sessions \union Codes) \X Handlers
       /\ uses' \subseteq uses \union (Sessions \union Codes) \X {h}
  BY <1>4, <1>8, <1>10, UsesGrow
<1>12. TablesTyped'
  BY <1>4, <1>5, <1>6, <1>7, <1>9, <1>11 DEF IInv, TablesOK, TablesTyped
<1>13. PICK e \in Event : e = Only("password.changed", Null)
  BY DEF Only, Event, EventTypes
<1>14. Announce(h, e) /\ EventIsTrue(e)' /\ e.type = "password.changed"
  BY <1>13 DEF ConfirmPasswordResetCommit, CommitPassword, EventIsTrue, Only
<1> QED BY <1>6, <1>8, <1>9, <1>11, <1>12, <1>14, AnnounceKeepsIInv DEF TablesOK
-------------------------------------------------------------------------------
(***************************************************************************)
(* The theorems.                                                           *)
(***************************************************************************)

LEMMA InitInvariant == Init => IInv
<1> SUFFICES ASSUME Init PROVE IInv
  OBVIOUS
<1>1. TablesOK
  BY DEF Init, TablesOK, TablesTyped, AccountsOK, ChainsOK, RotationRevokes, UsesAreFinal
<1>2. req \in [Handlers -> Request]
  BY IdleFits DEF Init
<1>3. ASSUME NEW h \in Handlers
      PROVE  Fits(req[h]) /\ Unspent(h, req[h])
  <2>1. req[h] = NoRequest
    BY DEF Init
  <2> QED BY <2>1 DEF NoRequest, Fits, ReadsSetFields, CopySteps, SessionFits, Committing, CodeFits, RowFits,
            EventFits, VerifySteps, ResetSteps, Unspent, RequestHolds
<1> QED BY <1>1, <1>2, <1>3 DEF IInv

LEMMA NextInvariant == IInv /\ [Next]_vars => IInv'
<1> SUFFICES ASSUME IInv, [Next]_vars PROVE IInv'
  OBVIOUS
<1>1. ASSUME NEW h \in Handlers, Account(h) PROVE IInv'
  BY <1>1, RegisterStep, AccountReads, CreateCodeStep, CodeReads, MailStep, LaterReads,
     VerifyMarkStep, VerifyUpdateStep, ProfileStep, EvictStep DEF Account
<1>2. ASSUME NEW h \in Handlers, Session(h) PROVE IInv'
  BY <1>2, AccountReads, LoginStep, SessionReads, RefreshCreateStep, RefreshRevokeStep,
     SessionRevokeStep DEF Session
<1>3. ASSUME NEW h \in Handlers, Password(h) PROVE IInv'
  BY <1>3, SessionReads, CodeReads, UpdateStep, ChangeStep, LaterReads, ResetStep DEF Password
<1>4. ASSUME NEW h \in Handlers, Fail(h) PROVE IInv'
  <2>1. Done(h) /\ UNCHANGED <<tables, cache, mailed, ghosts>>
    BY <1>4 DEF Fail
  <2> QED BY <2>1, StillTables, DoneKeepsIInv DEF ghosts
<1>5. ASSUME NEW u \in Users, Expire(u) PROVE IInv'
  BY <1>5, ExpireStep
<1>6. CASE UNCHANGED vars
  BY <1>6, StillTables, WaitKeepsIInv DEF vars, ghosts
<1> QED BY <1>1, <1>2, <1>3, <1>4, <1>5, <1>6 DEF Next

\* The inductive invariant holds in every state of the auth service.
THEOREM Invariance == Spec => []IInv
  BY InitInvariant, NextInvariant, PTL DEF Spec

\* Tables, cache and the requests in flight are well typed.
THEOREM TypeCorrect == Spec => []TypeOK
<1>1. IInv => TypeOK
  BY DEF IInv, TablesOK, TablesTyped, Fits, TypeOK
<1> QED BY <1>1, Invariance, PTL

\* RefreshToken leaves at most the newest token of a chain alive, wherever it fails.
THEOREM ChainsHaveOneEnd == Spec => []RotationRevokes
<1>1. IInv => RotationRevokes
  BY DEF IInv, TablesOK, ChainsOK
<1> QED BY <1>1, Invariance, PTL

\* A token or code is used twice only by requests that overlap.
THEOREM ReplaysAreRefused == Spec => []ReplaysOverlap
<1>1. IInv => ReplaysOverlap
  BY DEF IInv, Unspent, ReplaysOverlap, Holds, RequestHolds, VerifySteps, ResetSteps
<1> QED BY <1>1, Invariance, PTL

\* No row, cached row or copy calls an address verified whose code nobody used.
THEOREM VerificationIsEarned == Spec => []VerifiedIsProven
<1>1. IInv => VerifiedIsProven
  BY DEF IInv, TablesOK, AccountsOK, Fits, RowFits, VerifiedIsProven
<1> QED BY <1>1, Invariance, PTL

\* The events of the auth service tell the truth when they are published.
THEOREM EventsTellTheTruth == Spec => []EventsAreTrue
<1>1. IInv => EventsAreTrue
  BY DEF IInv, Fits, EventFits, EventIsTrue, EventsAreTrue
<1> QED BY <1>1, Invariance, PTL

\* Three handlers change what passwords a user has had.
LEMMA WhoChangesPasswords ==
    ASSUME Next, had' # had
    PROVE  \E h \in Handlers :
             \/ \E u \in Users, p \in Passwords : Register(h, u, p)
             \/ ChangePasswordCommit(h)
             \/ ConfirmPasswordResetCommit(h)
<1> USE DEF ghosts
<1>1. ASSUME NEW h \in Handlers, Account(h)
      PROVE  \E u \in Users, p \in Passwords : Register(h, u, p)
  BY <1>1 DEF Account, RequestPasswordReset, UpdateProfileRead, GetMeRead, CreateCode,
     VerifyEmailRead, Mail, Publish, VerifyEmailMark, VerifyEmailLoad, VerifyEmailUpdate,
     UpdateProfileUpdate, Evict, GetMeFill
<1>2. ASSUME NEW h \in Handlers, Session(h)
      PROVE  FALSE
  BY <1>2 DEF Session, LoginRead, LoginCreate, RefreshTokenRead, RefreshTokenCreate,
     LogoutRead, RevokeSessionRead, RefreshTokenRevoke, SessionRevoke
<1>3. ASSUME NEW h \in Handlers, Password(h)
      PROVE  ChangePasswordCommit(h) \/ ConfirmPasswordResetCommit(h)
  BY <1>3 DEF Password, ChangePasswordRead, ChangePasswordUpdate, ConfirmPasswordResetRead,
     ConfirmPasswordResetLoad, ConfirmPasswordResetUpdate, UpdateInTransaction
<1>4. ASSUME NEW h \in Handlers, Fail(h)
      PROVE  FALSE
  BY <1>4 DEF Fail
<1>5. ASSUME NEW u \in Users, Expire(u)
      PROVE  FALSE
  BY <1>5 DEF Expire
<1> QED BY <1>1, <1>2, <1>3, <1>4, <1>5 DEF Next

LEMMA NewPasswordStep ==
    ASSUME IInv, Next, NEW u \in Users, users[u] # Null, had'[u] # had[u]
    PROVE  \E h \in Handlers :
             /\ req[h].user = u
             /\ \/ req[h].at = "change.commit" /\ req[h].secret \in had[u]
                \/ /\ req[h].at = "reset.commit"
                   /\ codes[req[h].code].kind = "password_reset"
                   /\ codes[req[h].code].user = u
                   /\ codes'[req[h].code].used
<1>1. PICK h \in Handlers : \/ \E v \in Users, p \in Passwords : Register(h, v, p)
                            \/ ChangePasswordCommit(h)
                            \/ ConfirmPasswordResetCommit(h)
  BY WhoChangesPasswords
<1>2. \A v \in Users : \A X : u # v => [had EXCEPT ![v] = X][u] = had[u]
  BY DEF IInv, TablesOK, TablesTyped
<1>3. ASSUME NEW v \in Users, NEW p \in Passwords, Register(h, v, p)
      PROVE  FALSE
  BY <1>2, <1>3 DEF Register
<1>4. PICK old \in Request : old = req[h] /\ Fits(old)
  BY DEF IInv
<1>5. CASE ChangePasswordCommit(h)
  <2>1. old.user \in Users /\ had' = [had EXCEPT ![old.user] = @ \union {old.row.password}]
    BY <1>4, <1>5 DEF ChangePasswordCommit, CommitPassword, Fits, ReadsSetFields
  <2>2. old.user = u
    BY <1>2, <2>1
  <2> QED BY <1>4, <1>5, <2>2 DEF ChangePasswordCommit, Fits, RowFits
<1>6. CASE ConfirmPasswordResetCommit(h)
  <2>1. /\ old.user \in Users /\ had' = [had EXCEPT ![old.user] = @ \union {old.row.password}]
        /\ old.at = "reset.commit" /\ codes' = MarkUsed(old.code)
    BY <1>4, <1>6 DEF ConfirmPasswordResetCommit, CommitPassword, Fits, ReadsSetFields
  <2>2. old.user = u
    BY <1>2, <2>1
  <2>3. /\ old.code \in Codes /\ codes[old.code] # Null
        /\ codes[old.code].kind = "password_reset" /\ codes[old.code].user = u
    BY <1>4, <2>1, <2>2 DEF Fits, ReadsSetFields, CodeFits, ResetSteps
  <2>4. codes'[old.code].used
    BY <2>1, <2>3, MarkedCodes
  <2> QED BY <1>4, <2>1, <2>2, <2>3, <2>4
<1> QED BY <1>1, <1>3, <1>5, <1>6

\* A user gets another password only by a request that has shown an earlier one of the
\* same user, or spends a reset code of the user in the same step.
THEOREM PasswordsChangeByProof == Spec => NewPasswordsAreProven
<1>1. ASSUME IInv, [Next]_vars
      PROVE  [\A u \in Users : users[u] # Null /\ had'[u] # had[u] =>
                \E h \in Handlers :
                  /\ req[h].user = u
                  /\ \/ req[h].at = "change.commit" /\ req[h].secret \in had[u]
                     \/ /\ req[h].at = "reset.commit"
                        /\ codes[req[h].code].kind = "password_reset"
                        /\ codes[req[h].code].user = u
                        /\ codes'[req[h].code].used]_vars
  <2>1. CASE Next
    BY <1>1, <2>1, NewPasswordStep
  <2>2. CASE UNCHANGED vars
    BY <2>2
  <2> QED BY <1>1, <2>1, <2>2
<1> QED BY <1>1, Invariance, PTL DEF Spec, NewPasswordsAreProven

\* Four handlers can revoke a session that there is.
LEMMA WhoRevokes ==
    ASSUME IInv, Next, NEW s \in Sessions, Live(s), sessions'[s].revoked
    PROVE  \E h \in Handlers : \/ RefreshTokenRevoke(h) \/ SessionRevoke(h)
                              \/ ChangePasswordCommit(h) \/ ConfirmPasswordResetCommit(h)
<1> USE DEF tables
<1>1. ASSUME NEW X, NEW t \in Sessions, sessions[t] = Null,
             sessions' = [sessions EXCEPT ![t] = X]
      PROVE  FALSE
  <2>1. sessions'[s] = sessions[s]
    BY <1>1 DEF Live, IInv, TablesOK, TablesTyped
  <2> QED BY <2>1 DEF Live
<1>2. ASSUME sessions' = sessions
      PROVE  FALSE
  BY <1>2 DEF Live
<1>3. ASSUME NEW h \in Handlers, Account(h)
      PROVE  sessions' = sessions
  BY <1>3 DEF Account, Register, RequestPasswordReset, UpdateProfileRead, GetMeRead, CreateCode,
     VerifyEmailRead, Mail, Publish, VerifyEmailMark, VerifyEmailLoad, VerifyEmailUpdate,
     UpdateProfileUpdate, Evict, GetMeFill
<1>4. ASSUME NEW h \in Handlers, Session(h)
      PROVE  RefreshTokenRevoke(h) \/ SessionRevoke(h)
  <2>1. ASSUME NEW t \in Sessions, LoginCreate(h, t) \/ RefreshTokenCreate(h, t)
        PROVE  FALSE
    BY <1>1, <2>1 DEF LoginCreate, RefreshTokenCreate, Create
  <2>2. CASE \/ \E u \in Users, p \in Passwords : LoginRead(h, u, p)
             \/ \E t \in Sessions : \/ RefreshTokenRead(h, t) \/ LogoutRead(h, t)
                                   \/ \E u \in Users : RevokeSessionRead(h, u, t)
    BY <1>2, <2>2 DEF LoginRead, RefreshTokenRead, LogoutRead, RevokeSessionRead
  <2> QED BY <1>4, <2>1, <2>2 DEF Session
<1>5. ASSUME NEW h \in Handlers, Password(h)
      PROVE  ChangePasswordCommit(h) \/ ConfirmPasswordResetCommit(h)
  BY <1>2, <1>5 DEF Password, ChangePasswordRead, ChangePasswordUpdate, ConfirmPasswordResetRead,
     ConfirmPasswordResetLoad, ConfirmPasswordResetUpdate, UpdateInTransaction
<1>6. ASSUME NEW h \in Handlers, Fail(h)
      PROVE  FALSE
  BY <1>2, <1>6 DEF Fail
<1>7. ASSUME NEW u \in Users, Expire(u)
      PROVE  FALSE
  BY <1>2, <1>7 DEF Expire
<1> QED BY <1>2, <1>3, <1>4, <1>5, <1>6, <1>7 DEF Next

LEMMA RevokeStep ==
    ASSUME IInv, Next, NEW s \in Sessions, Live(s), sessions'[s].revoked
    PROVE  \E h \in Handlers :
             /\ req[h].user = sessions[s].user /\ req'[h] # req[h]
             /\ req[h].at \in {"refresh.revoke", "session.revoke", "change.commit",
                               "reset.commit"}
<1>1. PICK h \in Handlers : \/ RefreshTokenRevoke(h) \/ SessionRevoke(h)
                            \/ ChangePasswordCommit(h) \/ ConfirmPasswordResetCommit(h)
  BY WhoRevokes
<1>2. \A S : sessions' = Revoked(S) => s \in S
  BY DEF Revoked, Live
<1>3. PICK old \in Request : old = req[h] /\ Fits(old)
  BY DEF IInv
<1>4. CASE RefreshTokenRevoke(h) \/ SessionRevoke(h)
  <2>1. s = old.session /\ old.at \in {"refresh.revoke", "session.revoke"}
    BY <1>2, <1>3, <1>4 DEF RefreshTokenRevoke, SessionRevoke
  <2>2. old.user = sessions[s].user
    BY <1>3, <2>1 DEF Fits, SessionFits
  <2>3. req'[h].at \in {"refresh.create", "publish"}
    <3>1. CASE RefreshTokenRevoke(h)
      BY <1>3, <3>1 DEF IInv, RefreshTokenRevoke, Become, Request
    <3>2. CASE SessionRevoke(h)
      BY <1>3, <3>2 DEF IInv, SessionRevoke, Announce, Become, NoRequest
    <3> QED BY <1>4, <3>1, <3>2
  <2>4. req'[h] # req[h]
    BY <1>3, <2>1, <2>3
  <2> QED BY <1>3, <2>1, <2>2, <2>4
<1>5. CASE ChangePasswordCommit(h) \/ ConfirmPasswordResetCommit(h)
  <2>1. s \in old.ends /\ old.at \in Committing
    BY <1>2, <1>3, <1>5 DEF ChangePasswordCommit, ConfirmPasswordResetCommit, CommitPassword,
       Committing
  <2>2. old.user = sessions[s].user
    BY <1>3, <2>1 DEF Fits, SessionFits
  <2>3. req'[h].at = "publish"
    BY <1>3, <1>5 DEF IInv, ChangePasswordCommit, ConfirmPasswordResetCommit, CommitPassword,
       Announce, Become, NoRequest
  <2>4. req'[h] # req[h]
    BY <1>3, <2>1, <2>3 DEF Committing
  <2> QED BY <1>3, <2>1, <2>2, <2>4 DEF Committing
<1> QED BY <1>1, <1>4, <1>5

\* A session ends only by a request of its own user, although the ownership is checked
\* in one statement and the session revoked in another.
THEOREM OnlyOwnersRevoke == Spec => OwnersRevoke
<1>1. ASSUME IInv, [Next]_vars
      PROVE  [\A s \in Sessions : Live(s) /\ sessions'[s].revoked =>
                \E h \in Handlers :
                  /\ req[h].user = sessions[s].user /\ req'[h] # req[h]
                  /\ req[h].at \in {"refresh.revoke", "session.revoke", "change.commit",
                                    "reset.commit"}]_vars
  <2>1. CASE Next
    BY <1>1, <2>1, RevokeStep
  <2>2. CASE UNCHANGED vars
    BY <2>2
  <2> QED BY <1>1, <2>1, <2>2
<1> QED BY <1>1, Invariance, PTL DEF Spec, OwnersRevoke
-------------------------------------------------------------------------------
(***************************************************************************)
(* What refers to what: the rows and requests behind the tables' promise.  *)
(***************************************************************************)

\* A session or a code belongs to a user there is.
OwnersExist ==
    /\ \A s \in Sessions : sessions[s] # Null => users[sessions[s].user] # Null
    /\ \A c \in Codes : codes[c] # Null => users[codes[c].user] # Null

CodeSteps == VerifySteps \union ResetSteps

\* The steps after which a request works for nobody any more.
Endings == {"idle", "publish", "mail"}

\* A request works for a user there is, and with a code that was mailed.
Backed(r) ==
    /\ r.at \notin Endings => users[r.user] # Null
    /\ r.at \in CodeSteps => r.code \in mailed

Backing == OwnersExist /\ \A h \in Handlers : Backed(req[h])

\* Nothing is removed from the tables of users and mails.
Stays ==
    /\ \A u \in Users : users[u] # Null => users'[u] # Null
    /\ mailed \subseteq mailed'

\* New sessions and codes are of users there are.
NewAreOwned ==
    /\ \A s \in Sessions : sessions[s] = Null /\ sessions'[s] # Null =>
         users'[sessions'[s].user] # Null
    /\ \A c \in Codes : codes[c] = Null /\ codes'[c] # Null => users'[codes'[c].user] # Null

Others(h) == \A k \in Handlers \ {h} : req'[k] = req[k]

\* A request comes to its end, or goes on for the user and with the code it has.
GoesOn(h) ==
    /\ Others(h)
    /\ \/ req'[h].at \in Endings
       \/ /\ req[h].at \notin Endings /\ req'[h].user = req[h].user
          /\ req'[h].at \in CodeSteps => req[h].at \in CodeSteps /\ req'[h].code = req[h].code

\* A request begins for a user there is, and with a code that was mailed.
Begins(h) ==
    /\ Others(h)
    /\ users'[req'[h].user] # Null
    /\ req'[h].at \in CodeSteps => req'[h].code \in mailed

LEMMA OwnersStay ==
    ASSUME IInv, OwnersExist, Stays, Grows, NewAreOwned
    PROVE  OwnersExist'
<1>1. ASSUME NEW s \in Sessions, sessions'[s] # Null
      PROVE  users'[sessions'[s].user] # Null
  <2>1. CASE sessions[s] = Null
    BY <1>1, <2>1 DEF NewAreOwned
  <2>2. CASE sessions[s] # Null
    <3>1. sessions'[s].user = sessions[s].user /\ sessions[s].user \in Users
      BY <2>2, RowFacts DEF Grows, SessionRow
    <3> QED BY <2>2, <3>1 DEF OwnersExist, Stays
  <2> QED BY <2>1, <2>2
<1>2. ASSUME NEW c \in Codes, codes'[c] # Null
      PROVE  users'[codes'[c].user] # Null
  <2>1. CASE codes[c] = Null
    BY <1>2, <2>1 DEF NewAreOwned
  <2>2. CASE codes[c] # Null
    <3>1. codes'[c].user = codes[c].user /\ codes[c].user \in Users
      BY <2>2, RowFacts DEF Grows, CodeRow
    <3> QED BY <2>2, <3>1 DEF OwnersExist, Stays
  <2> QED BY <2>1, <2>2
<1> QED BY <1>1, <1>2 DEF OwnersExist

LEMMA WorksForSomeone ==
    ASSUME IInv, NEW h \in Handlers, req[h].at \notin Endings
    PROVE  req[h].user \in Users
BY DEF IInv, Fits, ReadsSetFields, Endings

LEMMA StepKeepsBacking ==
    ASSUME IInv, Backing, Stays, Grows, NewAreOwned,
           \/ req' = req
           \/ \E h \in Handlers : GoesOn(h) \/ Begins(h)
    PROVE  Backing'
<1>1. OwnersExist'
  BY OwnersStay DEF Backing
<1>2. ASSUME NEW k \in Handlers, req'[k] = req[k]
      PROVE  Backed(req[k])'
  BY <1>2, WorksForSomeone DEF Backing, Backed, Stays
<1>3. ASSUME NEW h \in Handlers, GoesOn(h)
      PROVE  Backed(req[h])'
  BY <1>3, WorksForSomeone DEF Backing, Backed, Stays, GoesOn, CodeSteps, VerifySteps,
     ResetSteps, Endings
<1>4. ASSUME NEW h \in Handlers, Begins(h)
      PROVE  Backed(req[h])'
  BY <1>4 DEF Backed, Stays, Begins
<1> QED BY <1>1, <1>2, <1>3, <1>4 DEF Backing, GoesOn, Begins, Others
-------------------------------------------------------------------------------
(***************************************************************************)
(* Every step is a step of Accounts or none.                               *)
(***************************************************************************)

Abstract == <<users, sessions, codes, mailed, had, parent>>

\* The lock of a user's row: one transaction at a time changes a password of a user.
Alone ==
    \A h, k \in Handlers :
      req[h].at \in Committing /\ req[k].at \in Committing /\ req[h].user = req[k].user => h = k

\* Become(h, r) moves h and nobody else.
LEMMA Moved ==
    ASSUME IInv, NEW h \in Handlers, NEW r, Become(h, r)
    PROVE  req'[h] = r /\ Others(h)
BY DEF IInv, Become, Others

LEMMA ChangesStay ==
    ASSUME NEW h \in Handlers, Others(h), req[h].at \notin Committing, req'[h].at \notin Committing
    PROVE  Changes' = Changes /\ (Alone => Alone')
<1>1. Changes' = Changes
  <2>1. \A k \in Handlers : k # h => req'[k] = req[k]
    BY DEF Others
  <2>2. \A k \in Handlers : req'[k].at \in Committing <=> req[k].at \in Committing
    BY <2>1
  <2>3. \A k \in Handlers : req[k].at \in Committing => Change(req'[k]) = Change(req[k])
    BY <2>1
  <2> QED BY <2>2, <2>3 DEF Changes, Change
<1>2. Alone => Alone'
  BY DEF Alone, Others
<1> QED BY <1>1, <1>2

LEMMA ChangesBegin ==
    ASSUME NEW h \in Handlers, Others(h), req[h].at \notin Committing, req'[h].at \in Committing,
           ~Locked(req'[h].user)
    PROVE  /\ Changes' = Changes \union {Change(req'[h])}
           /\ Alone => Alone'
<1>1. \A k \in Handlers : k # h => req'[k] = req[k]
  BY DEF Others
<1>2. \A x : x \in Changes <=> \E k \in Handlers : req[k].at \in Committing /\ x = Change(req[k])
  BY DEF Changes
<1>3. \A x : x \in Changes' <=>
               \E k \in Handlers : req'[k].at \in Committing /\ x = Change(req'[k])
  BY DEF Changes, Change
<1>4. Changes' = Changes \union {Change(req'[h])}
  BY <1>1, <1>2, <1>3
<1>5. Alone => Alone'
  BY <1>1 DEF Alone, Locked
<1> QED BY <1>4, <1>5

LEMMA ChangesEnd ==
    ASSUME Alone, NEW h \in Handlers, Others(h), req[h].at \in Committing,
           req'[h].at \notin Committing
    PROVE  /\ Change(req[h]) \in Changes
           /\ Changes' = Changes \ {Change(req[h])}
           /\ Alone'
<1>1. \A k \in Handlers : k # h => req'[k] = req[k]
  BY DEF Others
<1>2. \A x : x \in Changes <=> \E k \in Handlers : req[k].at \in Committing /\ x = Change(req[k])
  BY DEF Changes
<1>3. \A x : x \in Changes' <=>
               \E k \in Handlers : req'[k].at \in Committing /\ x = Change(req'[k])
  BY DEF Changes, Change
<1>4. ASSUME NEW k \in Handlers, k # h, req[k].at \in Committing
      PROVE  Change(req[k]) # Change(req[h])
  <2>1. req[k].user # req[h].user
    BY <1>4 DEF Alone
  <2>2. Change(req[k]).user = req[k].user /\ Change(req[h]).user = req[h].user
    BY DEF Change
  <2> QED BY <2>1, <2>2
<1>5. Changes' = Changes \ {Change(req[h])} /\ Change(req[h]) \in Changes
  BY <1>1, <1>2, <1>3, <1>4
<1>6. Alone'
  BY <1>1 DEF Alone
<1> QED BY <1>5, <1>6

LEMMA ChangesKnown ==
    ASSUME IInv, NEW r \in Changes
    PROVE  r.user \in Users /\ r.ends \in SUBSET {s \in Sessions : sessions[s] # Null}
<1>1. PICK h \in Handlers : req[h].at \in Committing /\ r = Change(req[h])
  BY DEF Changes
<1>2. PICK q \in Request : q = req[h] /\ Fits(q)
  BY DEF IInv
<1> QED BY <1>1, <1>2 DEF Change, Fits, ReadsSetFields, SessionFits, Committing, Request

\* Most steps leave the changes of passwords alone.
LEMMA QuietSteps ==
    ASSUME IInv, NEW h \in Handlers,
           \/ Account(h) \/ Session(h)
           \/ \E s \in Sessions, old, new \in Passwords : ChangePasswordRead(h, s, old, new)
           \/ \E c \in Codes, new \in Passwords : ConfirmPasswordResetRead(h, c, new)
           \/ ConfirmPasswordResetLoad(h)
           \/ req[h].at \notin Committing /\ Fail(h)
    PROVE  Changes' = Changes /\ (Alone => Alone')
<1> USE DEF Committing, NoRequest
<1>1. PICK r \in Request : r = req[h]
  BY DEF IInv
<1>2. ASSUME NEW q, Become(h, q), r.at \notin Committing, q.at \notin Committing
      PROVE  Changes' = Changes /\ (Alone => Alone')
  BY <1>1, <1>2, Moved, ChangesStay
<1>3. ASSUME NEW u \in Users,
             \/ \E p \in Passwords : Register(h, u, p) \/ LoginRead(h, u, p)
             \/ RequestPasswordReset(h, u) \/ UpdateProfileRead(h, u) \/ GetMeRead(h, u)
             \/ \E s \in Sessions : RevokeSessionRead(h, u, s)
      PROVE  Changes' = Changes /\ (Alone => Alone')
  BY <1>1, <1>2, <1>3 DEF Register, LoginRead, RequestPasswordReset, UpdateProfileRead, GetMeRead,
     RevokeSessionRead, Begin, Idle
<1>4. CASE \/ \E c \in Codes : VerifyEmailRead(h, c)
           \/ \E c \in Codes, p \in Passwords : ConfirmPasswordResetRead(h, c, p)
           \/ \E s \in Sessions : RefreshTokenRead(h, s) \/ LogoutRead(h, s)
           \/ \E s \in Sessions, old, new \in Passwords : ChangePasswordRead(h, s, old, new)
  BY <1>1, <1>2, <1>4 DEF VerifyEmailRead, ConfirmPasswordResetRead, RefreshTokenRead, LogoutRead,
     ChangePasswordRead, Begin, Idle
<1>5. CASE \/ \E c \in Codes : CreateCode(h, c)
           \/ Mail(h) \/ Publish(h) \/ VerifyEmailUpdate(h) \/ GetMeFill(h)
           \/ SessionRevoke(h) \/ Evict(h)
           \/ \E s \in Sessions : RefreshTokenCreate(h, s)
           \/ req[h].at \notin Committing /\ Fail(h)
  BY <1>1, <1>2, <1>5 DEF CreateCode, Mail, Publish, VerifyEmailUpdate, GetMeFill, SessionRevoke,
     RefreshTokenCreate, Fail, Evict, Done, Announce, Request
<1>6. CASE \/ VerifyEmailMark(h) \/ VerifyEmailLoad(h) \/ UpdateProfileUpdate(h)
           \/ \E s \in Sessions : LoginCreate(h, s)
           \/ RefreshTokenRevoke(h) \/ ConfirmPasswordResetLoad(h)
  BY <1>1, <1>2, <1>6 DEF VerifyEmailMark, VerifyEmailLoad, UpdateProfileUpdate, LoginCreate,
     RefreshTokenRevoke, ConfirmPasswordResetLoad, Request
<1> QED BY <1>3, <1>4, <1>5, <1>6 DEF Account, Session

\* A transaction takes the lock of the user's row, and its change begins.
LEMMA UpdateBegins ==
    ASSUME IInv, NEW h \in Handlers, ChangePasswordUpdate(h) \/ ConfirmPasswordResetUpdate(h)
    PROVE  /\ ~Locked(req[h].user) /\ UNCHANGED Abstract
           /\ Changes' = Changes \union {Change(req'[h])}
           /\ Others(h) /\ req'[h].user = req[h].user /\ req'[h].code = req[h].code
           /\ ChangePasswordUpdate(h) =>
                /\ req[h].at = "change.update" /\ req'[h].at = "change.commit"
                /\ req'[h].ends = Promise!LiveSessionsOf(req[h].user) \ {req[h].session}
           /\ ConfirmPasswordResetUpdate(h) =>
                /\ req[h].at = "reset.update" /\ req'[h].at = "reset.commit"
                /\ req'[h].ends = Promise!LiveSessionsOf(req[h].user)
           /\ Alone => Alone'
<1>1. PICK r \in Request : r = req[h]
  BY DEF IInv
<1>2. ASSUME NEW next \in Committing, NEW kept, UpdateInTransaction(h, next, kept),
             r.at \notin Committing
      PROVE  /\ ~Locked(r.user) /\ UNCHANGED Abstract
             /\ Changes' = Changes \union {Change(req'[h])}
             /\ Others(h) /\ req'[h].user = r.user /\ req'[h].code = r.code
             /\ req'[h].at = next
             /\ req'[h].ends = Promise!LiveSessionsOf(r.user) \ kept
             /\ Alone => Alone'
  <2>1. PICK E : E = {s \in SessionsOf(r.user) : Live(s)} \ kept
    OBVIOUS
  <2>2. PICK q : q = [r EXCEPT !.at = next, !.ends = E]
    OBVIOUS
  <2>3. req'[h] = q /\ Others(h)
    BY <1>1, <1>2, <2>1, <2>2, Moved DEF UpdateInTransaction
  <2>4. q.user = r.user /\ q.code = r.code /\ q.at = next /\ q.ends = E
    BY <2>2 DEF Request
  <2>5. ~Locked(r.user) /\ UNCHANGED Abstract
    BY <1>1, <1>2 DEF UpdateInTransaction, tables, ghosts, Abstract
  <2>6. Changes' = Changes \union {Change(req'[h])} /\ (Alone => Alone')
    BY <1>1, <1>2, <2>3, <2>4, <2>5, ChangesBegin
  <2>7. E = Promise!LiveSessionsOf(r.user) \ kept
    BY <2>1 DEF Promise!LiveSessionsOf, SessionsOf, Live
  <2> QED BY <2>3, <2>4, <2>5, <2>6, <2>7
<1>3. CASE r.at = "change.update"
  <2>1. UpdateInTransaction(h, "change.commit", {r.session}) /\ ~ConfirmPasswordResetUpdate(h)
    BY <1>1, <1>3 DEF ChangePasswordUpdate, ConfirmPasswordResetUpdate
  <2> QED BY <1>1, <1>2, <1>3, <2>1 DEF Committing
<1>4. CASE r.at = "reset.update"
  <2>1. UpdateInTransaction(h, "reset.commit", {}) /\ ~ChangePasswordUpdate(h)
    BY <1>1, <1>4 DEF ChangePasswordUpdate, ConfirmPasswordResetUpdate
  <2>2. Promise!LiveSessionsOf(r.user) \ {} = Promise!LiveSessionsOf(r.user)
    OBVIOUS
  <2>3. /\ ~Locked(r.user) /\ UNCHANGED Abstract
        /\ Changes' = Changes \union {Change(req'[h])}
        /\ Others(h) /\ req'[h].user = r.user /\ req'[h].code = r.code
        /\ req'[h].at = "reset.commit"
        /\ req'[h].ends = Promise!LiveSessionsOf(r.user) \ {}
        /\ Alone => Alone'
    BY <1>2, <1>4, <2>1 DEF Committing
  <2> QED BY <1>1, <1>4, <2>1, <2>2, <2>3
<1> QED BY <1>1, <1>3, <1>4 DEF ChangePasswordUpdate, ConfirmPasswordResetUpdate

\* A transaction commits, or is rolled back.
LEMMA TransactionEnds ==
    ASSUME IInv, Alone, NEW h \in Handlers, req[h].at \in Committing,
           ChangePasswordCommit(h) \/ ConfirmPasswordResetCommit(h) \/ Fail(h)
    PROVE  /\ Change(req[h]) \in Changes
           /\ Changes' = Changes \ {Change(req[h])}
           /\ Alone'
<1>1. ASSUME NEW q, Become(h, q), q.at \notin Committing
      PROVE  /\ Change(req[h]) \in Changes
             /\ Changes' = Changes \ {Change(req[h])}
             /\ Alone'
  BY <1>1, Moved, ChangesEnd
<1> QED BY <1>1 DEF ChangePasswordCommit, ConfirmPasswordResetCommit, CommitPassword, Fail, Done,
          Announce, NoRequest, Committing

LEMMA NextKeepsAlone ==
    ASSUME IInv, Alone, [Next]_vars
    PROVE  Alone'
<1>1. ASSUME NEW h \in Handlers, Password(h)
      PROVE  Alone'
  <2>1. CASE ChangePasswordUpdate(h) \/ ConfirmPasswordResetUpdate(h)
    BY <2>1, UpdateBegins
  <2>2. CASE ChangePasswordCommit(h) \/ ConfirmPasswordResetCommit(h)
    BY <2>2, TransactionEnds DEF ChangePasswordCommit, ConfirmPasswordResetCommit, Committing
  <2> QED BY <1>1, <2>1, <2>2, QuietSteps DEF Password
<1>2. ASSUME NEW h \in Handlers, Account(h) \/ Session(h)
      PROVE  Alone'
  BY <1>2, QuietSteps
<1>3. ASSUME NEW h \in Handlers, Fail(h)
      PROVE  Alone'
  BY <1>3, QuietSteps, TransactionEnds
<1>4. CASE (\E u \in Users : Expire(u)) \/ UNCHANGED vars
  BY <1>4 DEF Expire, vars, Alone
<1> QED BY <1>1, <1>2, <1>3, <1>4 DEF Next
-------------------------------------------------------------------------------

LEMMA RegisterRefines ==
    ASSUME IInv, NEW h \in Handlers, NEW u \in Users, NEW p \in Passwords, Register(h, u, p),
           Changes' = Changes
    PROVE  Promise!SignUp(u, p)
<1>1. had[u] = {}
  BY DEF Register, IInv, TablesOK, AccountsOK
<1> QED BY <1>1 DEF Register, Promise!SignUp, Promise!Choose

LEMMA CreateCodeRefines ==
    ASSUME IInv, Backing, NEW h \in Handlers, NEW c \in Codes, CreateCode(h, c),
           Changes' = Changes
    PROVE  \E u \in Users : \E kind \in {"email", "password_reset"} : Promise!Issue(c, u, kind)
<1>1. PICK u \in Users : u = req[h].user /\ users[u] # Null
  BY WorksForSomeone DEF CreateCode, Backing, Backed, Endings
<1>2. PICK kind \in {"email", "password_reset"} : kind = KindFor(req[h].event)
  BY DEF KindFor
<1>3. Promise!Issue(c, u, kind)
  <2>1. codes' = [codes EXCEPT ![c] = [user |-> u, used |-> FALSE, kind |-> kind]]
    BY <1>1, <1>2 DEF CreateCode
  <2>2. [user |-> u, used |-> FALSE, kind |-> kind] = [user |-> u, kind |-> kind, used |-> FALSE]
    OBVIOUS
  <2> QED BY <1>1, <2>1, <2>2 DEF CreateCode, ghosts, Promise!Issue
<1> QED BY <1>3

LEMMA MailRefines ==
    ASSUME IInv, NEW h \in Handlers, Mail(h),
           Changes' = Changes
    PROVE  \E c \in Codes : Promise!Mail(c)
<1>1. PICK c \in Codes : c = req[h].code /\ codes[c] # Null
  BY DEF Mail, IInv, Fits, ReadsSetFields, CodeFits
<1> QED BY <1>1 DEF Mail, tables, ghosts, Promise!Mail

\* A code that a request holds may be spent.
LEMMA HeldCode ==
    ASSUME IInv, Backing, NEW h \in Handlers, req[h].at \in CodeSteps
    PROVE  /\ req[h].code \in Codes /\ req[h].user \in Users
           /\ codes[req[h].code] # Null /\ req[h].code \in mailed
           /\ codes[req[h].code].user = req[h].user
           /\ codes[req[h].code].kind =
                IF req[h].at \in VerifySteps THEN "email" ELSE "password_reset"
BY DEF IInv, Fits, ReadsSetFields, CodeFits, Backing, Backed, CodeSteps, VerifySteps, ResetSteps

LEMMA VerifyMarkRefines ==
    ASSUME IInv, Backing, NEW h \in Handlers, VerifyEmailMark(h),
           Changes' = Changes
    PROVE  \E u \in Users, c \in Codes : Promise!Verify(c, u)
<1>1. PICK u \in Users, c \in Codes :
        /\ u = req[h].user /\ c = req[h].code /\ codes[c] # Null /\ c \in mailed
        /\ codes[c].user = u /\ codes[c].kind = "email"
  BY HeldCode DEF VerifyEmailMark, CodeSteps, VerifySteps
<1>2. /\ codes' = [codes EXCEPT ![c].used = TRUE]
      /\ UNCHANGED <<users, sessions, mailed, had, parent>>
  BY <1>1 DEF VerifyEmailMark, MarkUsed, ghosts
<1>3. Promise!Verify(c, u)
  BY <1>1, <1>2 DEF Promise!Verify, Promise!Spend
<1> QED BY <1>3

\* A copy that a request is about to write over the row of its user.
LEMMA HeldRow ==
    ASSUME IInv, Backing, NEW h \in Handlers,
           req[h].at \in {"verify.update", "profile.update", "change.commit", "reset.commit"}
    PROVE  /\ req[h].user \in Users /\ users[req[h].user] # Null
           /\ req[h].row \in UserRow
           /\ req[h].row.verified => Promise!Proven(req[h].user)
           /\ req[h].at \in {"verify.update", "profile.update"} =>
                req[h].row.password \in had[req[h].user]
<1>1. PICK r \in Request : r = req[h] /\ Fits(r) /\ Backed(r)
  BY DEF IInv, Backing
<1>2. r.user \in Users /\ r.row \in UserRow
  BY <1>1 DEF Fits, ReadsSetFields, CopySteps, Request
<1>3. users[r.user] # Null
  BY <1>1 DEF Backed, Endings
<1> QED BY <1>1, <1>2, <1>3, NullFacts DEF Fits, RowFits, Proven, Promise!Proven

LEMMA RewriteRefines ==
    ASSUME IInv, Backing, NEW h \in Handlers, VerifyEmailUpdate(h) \/ UpdateProfileUpdate(h),
           Changes' = Changes
    PROVE  \E u \in Users : \E row \in UserRow : Promise!Rewrite(u, row)
<1>1. PICK u \in Users, row \in UserRow :
        /\ u = req[h].user /\ row = req[h].row /\ users[u] # Null
        /\ row.verified => Promise!Proven(u)
        /\ row.password \in had[u]
  BY HeldRow DEF VerifyEmailUpdate, UpdateProfileUpdate
<1>2. /\ users' = [users EXCEPT ![u] = row]
      /\ UNCHANGED <<sessions, codes, mailed, had, parent>>
  BY <1>1 DEF VerifyEmailUpdate, UpdateProfileUpdate, Update, ghosts
<1>3. ~Promise!Changing(u)
  BY <1>1 DEF VerifyEmailUpdate, UpdateProfileUpdate, Locked, Promise!Changing, Changes, Change
<1>4. Promise!Rewrite(u, row)
  BY <1>1, <1>2, <1>3 DEF Promise!Rewrite, Promise!Write
<1> QED BY <1>4

LEMMA UpdateRefines ==
    ASSUME IInv, NEW h \in Handlers, ChangePasswordUpdate(h) \/ ConfirmPasswordResetUpdate(h)
    PROVE  \E u \in Users : \/ \E s \in Sessions : Promise!StartChange(u, s)
                            \/ \E c \in Codes : Promise!StartReset(u, c)
<1>1. PICK r \in Request : r = req[h] /\ Fits(r)
  BY DEF IInv
<1>2. r.at \in {"change.update", "reset.update"}
  BY <1>1 DEF ChangePasswordUpdate, ConfirmPasswordResetUpdate
<1>3. PICK u \in Users : u = r.user
  BY <1>1, <1>2 DEF Fits, ReadsSetFields
<1>4. /\ ~Locked(u) /\ UNCHANGED Abstract
      /\ Changes' = Changes \union {Change(req'[h])}
      /\ req'[h].user = u /\ req'[h].code = r.code
  BY <1>1, <1>3, UpdateBegins
<1>5. ~Promise!Changing(u)
  BY <1>4 DEF Locked, Promise!Changing, Changes, Change
<1>6. CASE ChangePasswordUpdate(h)
  <2>1. PICK s \in Sessions : s = r.session
    BY <1>1, <1>6 DEF ChangePasswordUpdate, Fits, ReadsSetFields
  <2>2. req'[h].at = "change.commit"
    BY <1>6, UpdateBegins
  <2>3. req'[h].ends = Promise!LiveSessionsOf(u) \ {s}
    BY <1>1, <1>3, <1>6, <2>1, <2>2, UpdateBegins
  <2>4. PICK x : x = [user |-> u, ends |-> Promise!LiveSessionsOf(u) \ {s}, code |-> Null]
    OBVIOUS
  <2>5. Change(req'[h]) = x /\ x.user = u
    BY <1>4, <2>2, <2>3, <2>4 DEF Change
  <2>6. Promise!StartChange(u, s)
    BY <1>4, <1>5, <2>4, <2>5 DEF Promise!StartChange, Promise!Start, Promise!tables, Abstract
  <2> QED BY <2>6
<1>7. CASE ConfirmPasswordResetUpdate(h)
  <2>1. PICK c \in Codes : c = r.code
    BY <1>1, <1>7 DEF ConfirmPasswordResetUpdate, Fits, ReadsSetFields
  <2>2. req'[h].at = "reset.commit"
    BY <1>7, UpdateBegins
  <2>3. req'[h].ends = Promise!LiveSessionsOf(u)
    BY <1>1, <1>3, <1>7, <2>2, UpdateBegins
  <2>4. PICK x : x = [user |-> u, ends |-> Promise!LiveSessionsOf(u), code |-> c]
    OBVIOUS
  <2>5. Change(req'[h]) = x /\ x.user = u
    BY <1>4, <2>1, <2>2, <2>3, <2>4 DEF Change
  <2>6. Promise!StartReset(u, c)
    BY <1>4, <1>5, <2>4, <2>5 DEF Promise!StartReset, Promise!Start, Promise!tables, Abstract
  <2> QED BY <2>6
<1> QED BY <1>6, <1>7

LEMMA ChangeRefines ==
    ASSUME IInv, Backing, Alone, NEW h \in Handlers, ChangePasswordCommit(h)
    PROVE  \E r \in Changes : \E row \in UserRow : Promise!ChangePassword(r, row)
<1>1. PICK row \in UserRow :
        /\ row = req[h].row /\ users[req[h].user] # Null
        /\ row.verified => Promise!Proven(req[h].user)
  BY HeldRow DEF ChangePasswordCommit
<1>2. PICK r \in Changes : r = Change(req[h]) /\ Changes' = Changes \ {r}
  BY TransactionEnds DEF ChangePasswordCommit, Committing
<1>3. r.user = req[h].user /\ r.ends = req[h].ends /\ r.code = Null
  BY <1>2 DEF ChangePasswordCommit, Change
<1>4. /\ users' = [users EXCEPT ![r.user] = row]
      /\ sessions' = Revoked(r.ends)
      /\ had' = [had EXCEPT ![r.user] = @ \union {row.password}]
      /\ UNCHANGED <<codes, mailed, parent>>
  BY <1>1, <1>3 DEF ChangePasswordCommit, CommitPassword, Update
<1>5. Promise!ChangePassword(r, row)
  BY <1>1, <1>2, <1>3, <1>4 DEF Promise!ChangePassword, Promise!Finish, Promise!Write,
     Promise!Choose, Promise!Revoke, Revoked
<1> QED BY <1>5

LEMMA ResetRefines ==
    ASSUME IInv, Backing, Alone, NEW h \in Handlers, ConfirmPasswordResetCommit(h)
    PROVE  \E r \in Changes : \E row \in UserRow : Promise!ResetPassword(r, row)
<1>1. PICK row \in UserRow, c \in Codes :
        /\ row = req[h].row /\ users[req[h].user] # Null
        /\ row.verified => Promise!Proven(req[h].user)
        /\ c = req[h].code /\ codes[c] # Null /\ c \in mailed
        /\ codes[c].user = req[h].user /\ codes[c].kind = "password_reset"
  BY HeldRow, HeldCode DEF ConfirmPasswordResetCommit, CodeSteps, ResetSteps, VerifySteps
<1>2. PICK r \in Changes : r = Change(req[h]) /\ Changes' = Changes \ {r}
  BY TransactionEnds DEF ConfirmPasswordResetCommit, Committing
<1>3. r.user = req[h].user /\ r.ends = req[h].ends /\ r.code = c
  BY <1>1, <1>2 DEF ConfirmPasswordResetCommit, Change
<1>4. /\ codes' = [codes EXCEPT ![c].used = TRUE]
      /\ users' = [users EXCEPT ![r.user] = row]
      /\ sessions' = Revoked(r.ends)
      /\ had' = [had EXCEPT ![r.user] = @ \union {row.password}]
      /\ UNCHANGED <<mailed, parent>>
  BY <1>1, <1>3 DEF ConfirmPasswordResetCommit, CommitPassword, Update, MarkUsed
<1>5. Promise!ResetPassword(r, row)
  BY <1>1, <1>2, <1>3, <1>4 DEF Promise!ResetPassword, Promise!Finish, Promise!Spend,
     Promise!Write, Promise!Choose, Promise!Revoke, Revoked
<1> QED BY <1>5

\* What a request at its COMMIT leaves when it fails: nothing.
LEMMA AbortRefines ==
    ASSUME IInv, Alone, NEW h \in Handlers, req[h].at \in Committing, Fail(h)
    PROVE  \E r \in Changes : Promise!Abort(r)
<1>1. PICK r \in Changes : Changes' = Changes \ {r}
  BY TransactionEnds
<1> QED BY <1>1 DEF Fail, tables, ghosts, Promise!Abort, Promise!tables

LEMMA LoginCreateRefines ==
    ASSUME IInv, Backing, NEW h \in Handlers, NEW s \in Sessions, LoginCreate(h, s),
           Changes' = Changes
    PROVE  \E u \in Users : Promise!Open(s, u)
<1>1. PICK u \in Users : u = req[h].user /\ users[u] # Null
  BY WorksForSomeone DEF LoginCreate, Backing, Backed, Endings
<1> QED BY <1>1 DEF LoginCreate, Create, Promise!Open, Promise!Insert

LEMMA RefreshCreateRefines ==
    ASSUME IInv, Backing, NEW h \in Handlers, NEW s \in Sessions, RefreshTokenCreate(h, s),
           Changes' = Changes
    PROVE  \E old \in Sessions : Promise!Renew(s, old)
<1>1. PICK u \in Users, old \in Sessions :
        /\ u = req[h].user /\ users[u] # Null /\ old = req[h].session
        /\ sessions[old] # Null /\ sessions[old].revoked /\ sessions[old].user = u
  BY WorksForSomeone
     DEF RefreshTokenCreate, Backing, Backed, Endings, IInv, Fits, ReadsSetFields, SessionFits
<1>2. Promise!Renew(s, old)
  BY <1>1 DEF RefreshTokenCreate, Create, Promise!Renew, Promise!Insert
<1> QED BY <1>2

LEMMA EndRefines ==
    ASSUME IInv, NEW h \in Handlers, RefreshTokenRevoke(h) \/ SessionRevoke(h),
           Changes' = Changes
    PROVE  \E s \in Sessions : Promise!End(s)
<1>1. PICK s \in Sessions : s = req[h].session /\ sessions[s] # Null
  BY HeldSession DEF RefreshTokenRevoke, SessionRevoke
<1>2. /\ sessions' = Revoked({s})
      /\ UNCHANGED <<users, codes, mailed, had, parent>>
  BY <1>1 DEF RefreshTokenRevoke, SessionRevoke, ghosts
<1>3. Promise!End(s)
  BY <1>1, <1>2 DEF Promise!End, Promise!Revoke, Revoked
<1> QED BY <1>3

LEMMA StepRefines ==
    ASSUME IInv, Backing, Alone, [Next]_vars
    PROVE  Promise!Next \/ UNCHANGED <<Abstract, Changes>>
<1> USE DEF Abstract, tables, ghosts
<1>1. ASSUME NEW h \in Handlers, Account(h)
      PROVE  Promise!Next \/ UNCHANGED <<Abstract, Changes>>
  <2>0. Changes' = Changes
    BY <1>1, QuietSteps
  <2>1. CASE \E u \in Users, p \in Passwords : Register(h, u, p)
    BY <2>0, <2>1, RegisterRefines DEF Promise!Next, Promise!Account
  <2>2. CASE \E c \in Codes : CreateCode(h, c)
    BY <2>0, <2>2, CreateCodeRefines DEF Promise!Next, Promise!Account
  <2>3. CASE Mail(h)
    BY <2>0, <2>3, MailRefines DEF Promise!Next
  <2>4. CASE VerifyEmailMark(h)
    BY <2>0, <2>4, VerifyMarkRefines DEF Promise!Next, Promise!Account
  <2>5. CASE VerifyEmailUpdate(h) \/ UpdateProfileUpdate(h)
    BY <2>0, <2>5, RewriteRefines DEF Promise!Next, Promise!Account, Promise!Rows, UserRow
  <2>6. CASE \/ \E u \in Users : \/ RequestPasswordReset(h, u) \/ UpdateProfileRead(h, u)
                                \/ GetMeRead(h, u)
             \/ \E c \in Codes : VerifyEmailRead(h, c)
             \/ Publish(h) \/ VerifyEmailLoad(h) \/ Evict(h) \/ GetMeFill(h)
    BY <2>0, <2>6 DEF RequestPasswordReset, UpdateProfileRead, GetMeRead, VerifyEmailRead, Publish,
       VerifyEmailLoad, Evict, GetMeFill
  <2> QED BY <1>1, <2>1, <2>2, <2>3, <2>4, <2>5, <2>6 DEF Account
<1>2. ASSUME NEW h \in Handlers, Session(h)
      PROVE  Promise!Next \/ UNCHANGED <<Abstract, Changes>>
  <2>0. Changes' = Changes
    BY <1>2, QuietSteps
  <2>1. CASE \E s \in Sessions : LoginCreate(h, s)
    BY <2>0, <2>1, LoginCreateRefines DEF Promise!Next, Promise!Session
  <2>2. CASE \E s \in Sessions : RefreshTokenCreate(h, s)
    BY <2>0, <2>2, RefreshCreateRefines DEF Promise!Next, Promise!Session
  <2>3. CASE RefreshTokenRevoke(h) \/ SessionRevoke(h)
    BY <2>0, <2>3, EndRefines DEF Promise!Next, Promise!Session
  <2>4. CASE \/ \E u \in Users, p \in Passwords : LoginRead(h, u, p)
             \/ \E s \in Sessions : \/ RefreshTokenRead(h, s) \/ LogoutRead(h, s)
                                   \/ \E u \in Users : RevokeSessionRead(h, u, s)
    BY <2>0, <2>4 DEF LoginRead, RefreshTokenRead, LogoutRead, RevokeSessionRead
  <2> QED BY <1>2, <2>1, <2>2, <2>3, <2>4 DEF Session
<1>3. ASSUME NEW h \in Handlers, Password(h)
      PROVE  Promise!Next \/ UNCHANGED <<Abstract, Changes>>
  <2>1. CASE ChangePasswordCommit(h)
    BY <2>1, ChangeRefines DEF Promise!Next, Promise!Change, Promise!Rows, UserRow
  <2>2. CASE ConfirmPasswordResetCommit(h)
    BY <2>2, ResetRefines DEF Promise!Next, Promise!Change, Promise!Rows, UserRow
  <2>3. CASE \/ \E s \in Sessions, old, new \in Passwords : ChangePasswordRead(h, s, old, new)
             \/ \E c \in Codes, new \in Passwords : ConfirmPasswordResetRead(h, c, new)
             \/ ConfirmPasswordResetLoad(h)
    BY <2>3, QuietSteps DEF ChangePasswordRead, ConfirmPasswordResetRead, ConfirmPasswordResetLoad
  <2>4. CASE ChangePasswordUpdate(h) \/ ConfirmPasswordResetUpdate(h)
    BY <2>4, UpdateRefines DEF Promise!Next, Promise!Account
  <2> QED BY <1>3, <2>1, <2>2, <2>3, <2>4 DEF Password
<1>4. ASSUME NEW h \in Handlers, Fail(h)
      PROVE  Promise!Next \/ UNCHANGED <<Abstract, Changes>>
  <2>1. CASE req[h].at \in Committing
    BY <1>4, <2>1, AbortRefines DEF Promise!Next, Promise!Change
  <2>2. CASE req[h].at \notin Committing
    BY <1>4, <2>2, QuietSteps DEF Fail
  <2> QED BY <2>1, <2>2
<1>5. ASSUME NEW u \in Users, Expire(u)
      PROVE  UNCHANGED <<Abstract, Changes>>
  BY <1>5 DEF Expire, Changes, Change
<1>6. CASE UNCHANGED vars
  BY <1>6 DEF vars, Changes, Change
<1> QED BY <1>1, <1>2, <1>3, <1>4, <1>5, <1>6 DEF Next
-------------------------------------------------------------------------------
(***************************************************************************)
(* The promise keeps the tables growing and the requests backed.           *)
(***************************************************************************)

\* What a step does to the tables only adds to them.
LEMMA PromiseGrows ==
    ASSUME IInv, Promise!Next \/ UNCHANGED Abstract
    PROVE  Grows /\ Stays /\ NewAreOwned
<1> USE DEF Abstract
<1>1. /\ users \in [Users -> UserRow \union {Null}]
      /\ sessions \in [Sessions -> SessionRow \union {Null}]
      /\ codes \in [Codes -> CodeRow \union {Null}]
      /\ had \in [Users -> SUBSET Passwords]
      /\ parent \in [Sessions -> Sessions \union {Null}]
  BY DEF IInv, TablesOK, TablesTyped
<1>2. ASSUME NEW u \in Users, NEW p, Promise!Choose(u, p)
      PROVE  \A v \in Users : had[v] \subseteq had'[v]
  BY <1>1, <1>2 DEF Promise!Choose
<1>3. ASSUME NEW u \in Users, NEW row \in UserRow, Promise!Write(u, row)
      PROVE  \A v \in Users : users[v] # Null => users'[v] # Null
  BY <1>1, <1>3, NullFacts DEF Promise!Write
<1>4. ASSUME NEW c \in Codes, NEW u \in Users, NEW kind, Promise!Spend(c, u, kind)
      PROVE  /\ \A d \in Codes : codes[d] # Null =>
                  /\ codes'[d] # Null /\ codes'[d].user = codes[d].user
                  /\ codes'[d].kind = codes[d].kind
                  /\ codes[d].used => codes'[d].used
             /\ \A d \in Codes : codes[d] = Null => codes'[d] = Null
  <2>1. codes[c] # Null /\ codes' = MarkUsed(c)
    BY <1>4 DEF Promise!Spend, MarkUsed
  <2>2. \A d \in Codes : codes[d] = Null => codes'[d] = Null
    BY <1>1, <2>1 DEF MarkUsed
  <2> QED BY <2>1, <2>2, MarkedCodes
<1>5. ASSUME NEW S \in SUBSET {s \in Sessions : sessions[s] # Null}, Promise!Revoke(S),
             parent' = parent
      PROVE  /\ \A s \in Sessions : sessions[s] # Null =>
                  /\ sessions'[s] # Null /\ sessions'[s].user = sessions[s].user
                  /\ sessions[s].revoked => sessions'[s].revoked
             /\ \A s \in Sessions : sessions[s] = Null => sessions'[s] = Null
  <2>1. sessions' = Revoked(S)
    BY <1>5 DEF Promise!Revoke, Revoked
  <2> QED BY <1>5, <2>1, RevokedSessions DEF Revoked
<1>6. ASSUME NEW s \in Sessions, NEW u \in Users, Promise!Insert(s, u)
      PROVE  /\ users[u] # Null
             /\ \A t \in Sessions : sessions[t] # Null => sessions'[t] = sessions[t]
             /\ \A t \in Sessions : sessions[t] = Null /\ sessions'[t] # Null =>
                  sessions'[t].user = u
  BY <1>1, <1>6 DEF Promise!Insert
<1>7. CASE UNCHANGED Abstract
  BY <1>1, <1>7 DEF Grows, Stays, NewAreOwned
<1>8. ASSUME NEW u \in Users, Promise!Account(u)
      PROVE  Grows /\ Stays /\ NewAreOwned
  <2>1. ASSUME NEW p \in Passwords, Promise!SignUp(u, p)
        PROVE  Grows /\ Stays /\ NewAreOwned
    <3>1. \A v \in Users : users[v] # Null => users'[v] # Null
      BY <1>1, <2>1 DEF Promise!SignUp
    <3> QED BY <1>1, <1>2, <2>1, <3>1 DEF Promise!SignUp, Grows, Stays, NewAreOwned
  <2>2. ASSUME NEW row \in UserRow, Promise!Rewrite(u, row)
        PROVE  Grows /\ Stays /\ NewAreOwned
    BY <1>1, <1>3, <2>2 DEF Promise!Rewrite, Grows, Stays, NewAreOwned
  <2>3. ASSUME \/ \E s \in Sessions : Promise!StartChange(u, s)
               \/ \E c \in Codes : Promise!StartReset(u, c)
        PROVE  Grows /\ Stays /\ NewAreOwned
    BY <1>1, <2>3 DEF Promise!StartChange, Promise!StartReset, Promise!Start, Promise!tables,
       Grows, Stays, NewAreOwned
  <2>4. ASSUME NEW c \in Codes, NEW kind, Promise!Issue(c, u, kind)
        PROVE  Grows /\ Stays /\ NewAreOwned
    <3>1. \A d \in Codes : d # c => codes'[d] = codes[d]
      BY <1>1, <2>4 DEF Promise!Issue
    <3>2. codes'[c] = [user |-> u, kind |-> kind, used |-> FALSE]
      BY <1>1, <2>4 DEF Promise!Issue
    <3> QED BY <1>1, <2>4, <3>1, <3>2 DEF Promise!Issue, Grows, Stays, NewAreOwned
  <2>5. ASSUME NEW c \in Codes, Promise!Verify(c, u)
        PROVE  Grows /\ Stays /\ NewAreOwned
    BY <1>1, <1>4, <2>5 DEF Promise!Verify, Grows, Stays, NewAreOwned
  <2> QED BY <1>8, <2>1, <2>2, <2>3, <2>4, <2>5 DEF Promise!Account, Promise!Rows, UserRow
<1>9. ASSUME NEW s \in Sessions, Promise!Session(s)
      PROVE  Grows /\ Stays /\ NewAreOwned
  <2>1. ASSUME NEW u \in Users, Promise!Open(s, u)
        PROVE  Grows /\ Stays /\ NewAreOwned
    BY <1>1, <1>6, <2>1 DEF Promise!Open, Grows, Stays, NewAreOwned
  <2>2. ASSUME NEW old \in Sessions, Promise!Renew(s, old)
        PROVE  Grows /\ Stays /\ NewAreOwned
    <3>1. sessions[old].user \in Users
      BY <1>1, <2>2, NullFacts DEF Promise!Renew, SessionRow
    <3> QED BY <1>1, <1>6, <2>2, <3>1 DEF Promise!Renew, Grows, Stays, NewAreOwned
  <2>3. CASE Promise!End(s)
    <3>1. {s} \in SUBSET {t \in Sessions : sessions[t] # Null}
      BY <2>3 DEF Promise!End
    <3> QED BY <1>1, <1>5, <2>3, <3>1 DEF Promise!End, Grows, Stays, NewAreOwned
  <2> QED BY <1>9, <2>1, <2>2, <2>3 DEF Promise!Session
<1>10. ASSUME NEW c \in Codes, Promise!Mail(c)
       PROVE  Grows /\ Stays /\ NewAreOwned
  BY <1>1, <1>10 DEF Promise!Mail, Grows, Stays, NewAreOwned
<1>11. ASSUME NEW r \in Changes, Promise!Change(r)
       PROVE  Grows /\ Stays /\ NewAreOwned
  <2>1. r.user \in Users /\ r.ends \in SUBSET {s \in Sessions : sessions[s] # Null}
    BY ChangesKnown
  <2>2. CASE Promise!Abort(r)
    BY <1>1, <2>2 DEF Promise!Abort, Promise!tables, Grows, Stays, NewAreOwned
  <2>3. ASSUME NEW row \in UserRow, Promise!Finish(r, row)
        PROVE  /\ \A v \in Users : had[v] \subseteq had'[v]
               /\ \A v \in Users : users[v] # Null => users'[v] # Null
               /\ \A s \in Sessions : sessions[s] # Null =>
                    /\ sessions'[s] # Null /\ sessions'[s].user = sessions[s].user
                    /\ sessions[s].revoked => sessions'[s].revoked
               /\ \A s \in Sessions : sessions[s] = Null => sessions'[s] = Null
               /\ mailed' = mailed
    BY <1>2, <1>3, <1>5, <2>1, <2>3 DEF Promise!Finish
  <2>4. ASSUME NEW row \in UserRow, Promise!ChangePassword(r, row)
        PROVE  Grows /\ Stays /\ NewAreOwned
    BY <1>1, <2>3, <2>4 DEF Promise!ChangePassword, Grows, Stays, NewAreOwned
  <2>5. ASSUME NEW row \in UserRow, Promise!ResetPassword(r, row)
        PROVE  Grows /\ Stays /\ NewAreOwned
    BY <1>4, <2>1, <2>3, <2>5 DEF Promise!ResetPassword, Grows, Stays, NewAreOwned
  <2> QED BY <1>11, <2>2, <2>4, <2>5 DEF Promise!Change, Promise!Rows, UserRow
<1> QED BY <1>7, <1>8, <1>9, <1>10, <1>11 DEF Promise!Next

\* A code that is offered and found is of a user there is.
LEMMA UsableCode ==
    ASSUME IInv, Backing, NEW c \in Codes, c \in mailed
    PROVE  users[codes[c].user] # Null
BY DEF IInv, TablesOK, TablesTyped, Backing, OwnersExist

LEMMA ReadsBegin ==
    ASSUME IInv, Backing, NEW h \in Handlers,
           \/ \E u \in Users :
                \/ \E p \in Passwords : Register(h, u, p) \/ LoginRead(h, u, p)
                \/ RequestPasswordReset(h, u) \/ UpdateProfileRead(h, u) \/ GetMeRead(h, u)
                \/ \E s \in Sessions : RevokeSessionRead(h, u, s)
           \/ \E c \in Codes :
                \/ VerifyEmailRead(h, c)
                \/ \E p \in Passwords : ConfirmPasswordResetRead(h, c, p)
           \/ \E s \in Sessions :
                \/ RefreshTokenRead(h, s) \/ LogoutRead(h, s)
                \/ \E old, new \in Passwords : ChangePasswordRead(h, s, old, new)
    PROVE  Begins(h)
<1> USE DEF CodeSteps, VerifySteps, ResetSteps, NoRequest
<1>1. ASSUME NEW r, Become(h, r), users'[r.user] # Null,
             r.at \in CodeSteps => r.code \in mailed
      PROVE  Begins(h)
  BY <1>1, Moved DEF Begins
<1>2. ASSUME NEW u \in Users, NEW p \in Passwords, Register(h, u, p)
      PROVE  Begins(h)
  <2>1. users \in [Users -> UserRow \union {Null}]
    BY DEF IInv, TablesOK, TablesTyped
  <2>2. users'[u] # Null
    <3>1. [password |-> p, verified |-> FALSE] \in UserRow
      BY DEF UserRow
    <3> QED BY <1>2, <2>1, <3>1, NullFacts DEF Register
  <2> QED BY <1>1, <1>2, <2>2 DEF Register
<1>3. ASSUME NEW u \in Users,
             \/ \E p \in Passwords : LoginRead(h, u, p)
             \/ RequestPasswordReset(h, u) \/ UpdateProfileRead(h, u) \/ GetMeRead(h, u)
      PROVE  Begins(h)
  BY <1>1, <1>3 DEF LoginRead, Knows, RequestPasswordReset, UpdateProfileRead, GetMeRead, tables
<1>4. ASSUME NEW u \in Users, NEW s \in Sessions, RevokeSessionRead(h, u, s)
      PROVE  Begins(h)
  <2>1. users[u] # Null
    BY <1>4 DEF RevokeSessionRead, BelongsTo, Live, Backing, OwnersExist
  <2> QED BY <1>1, <1>4, <2>1 DEF RevokeSessionRead, tables
<1>5. ASSUME NEW c \in Codes,
             \/ VerifyEmailRead(h, c)
             \/ \E p \in Passwords : ConfirmPasswordResetRead(h, c, p)
      PROVE  Begins(h)
  <2>1. c \in mailed
    BY <1>5 DEF VerifyEmailRead, ConfirmPasswordResetRead, Usable
  <2>2. users[codes[c].user] # Null
    BY <2>1, UsableCode
  <2> QED BY <1>1, <1>5, <2>1, <2>2 DEF VerifyEmailRead, ConfirmPasswordResetRead, tables
<1>6. ASSUME NEW s \in Sessions,
             \/ RefreshTokenRead(h, s) \/ LogoutRead(h, s)
             \/ \E old, new \in Passwords : ChangePasswordRead(h, s, old, new)
      PROVE  Begins(h)
  <2>1. users[sessions[s].user] # Null
    BY <1>6 DEF RefreshTokenRead, LogoutRead, ChangePasswordRead, Live, Backing, OwnersExist
  <2> QED BY <1>1, <1>6, <2>1 DEF RefreshTokenRead, LogoutRead, ChangePasswordRead, tables
<1> QED BY <1>2, <1>3, <1>4, <1>5, <1>6

LEMMA StepsGoOn ==
    ASSUME IInv, NEW h \in Handlers,
           \/ \E c \in Codes : CreateCode(h, c)
           \/ Mail(h) \/ Publish(h)
           \/ VerifyEmailMark(h) \/ VerifyEmailLoad(h) \/ VerifyEmailUpdate(h)
           \/ UpdateProfileUpdate(h) \/ Evict(h) \/ GetMeFill(h)
           \/ \E s \in Sessions : LoginCreate(h, s) \/ RefreshTokenCreate(h, s)
           \/ RefreshTokenRevoke(h) \/ SessionRevoke(h)
           \/ ChangePasswordCommit(h)
           \/ ChangePasswordUpdate(h) \/ ConfirmPasswordResetUpdate(h)
           \/ ConfirmPasswordResetLoad(h) \/ ConfirmPasswordResetCommit(h)
           \/ Fail(h)
    PROVE  GoesOn(h)
<1>1. PICK r \in Request : r = req[h]
  BY DEF IInv
<1>2. ASSUME NEW s, Become(h, s), s.at \in Endings
      PROVE  GoesOn(h)
  BY <1>2, Moved DEF GoesOn
<1>3. ASSUME NEW s, Become(h, s), r.at \notin Endings, s.user = r.user,
             s.at \in CodeSteps => r.at \in CodeSteps /\ s.code = r.code
      PROVE  GoesOn(h)
  BY <1>1, <1>3, Moved DEF GoesOn
<1>4. CASE \/ \E c \in Codes : CreateCode(h, c)
           \/ Mail(h) \/ Publish(h) \/ VerifyEmailUpdate(h) \/ GetMeFill(h)
           \/ SessionRevoke(h) \/ ChangePasswordCommit(h) \/ ConfirmPasswordResetCommit(h)
           \/ \E s \in Sessions : RefreshTokenCreate(h, s)
           \/ Fail(h) \/ Evict(h)
  BY <1>1, <1>2, <1>4 DEF CreateCode, Mail, Publish, VerifyEmailUpdate, GetMeFill, SessionRevoke,
     ChangePasswordCommit, ConfirmPasswordResetCommit, CommitPassword, RefreshTokenCreate, Fail,
     Evict, Done, Announce, NoRequest, Endings, Request
<1>5. CASE \/ VerifyEmailMark(h) \/ VerifyEmailLoad(h) \/ UpdateProfileUpdate(h)
           \/ \E s \in Sessions : LoginCreate(h, s)
           \/ RefreshTokenRevoke(h) \/ ConfirmPasswordResetLoad(h)
  BY <1>1, <1>3, <1>5 DEF VerifyEmailMark, VerifyEmailLoad, UpdateProfileUpdate, LoginCreate,
     RefreshTokenRevoke, ConfirmPasswordResetLoad, NoRequest, Endings, Request, CodeSteps,
     VerifySteps, ResetSteps
<1>6. CASE ChangePasswordUpdate(h) \/ ConfirmPasswordResetUpdate(h)
  <2>1. /\ req'[h].user = r.user /\ req'[h].code = r.code /\ Others(h)
        /\ \/ r.at = "change.update" /\ req'[h].at = "change.commit"
           \/ r.at = "reset.update"
    BY <1>1, <1>6, UpdateBegins
  <2> QED BY <1>1, <2>1 DEF GoesOn, Endings, CodeSteps, VerifySteps, ResetSteps
<1> QED BY <1>4, <1>5, <1>6

LEMMA NextKeepsBacking ==
    IInv /\ Backing /\ Alone /\ [Next]_vars => Backing' /\ Alone' /\ Grows
<1> SUFFICES ASSUME IInv, Backing, Alone, [Next]_vars
             PROVE  Backing' /\ Alone' /\ Grows
  OBVIOUS
<1>1. Grows /\ Stays /\ NewAreOwned
  BY StepRefines, PromiseGrows
<1>2. \/ req' = req
      \/ \E h \in Handlers : GoesOn(h) \/ Begins(h)
  BY ReadsBegin, StepsGoOn DEF Next, Account, Session, Password, Expire, vars
<1> QED BY <1>1, <1>2, StepKeepsBacking, NextKeepsAlone

LEMMA InitBacking == Init => Backing /\ Alone
BY DEF Init, Alone, Committing, Backing, OwnersExist, Backed, NoRequest, Endings, CodeSteps, VerifySteps, ResetSteps

LEMMA BackingHolds == Spec => [](Backing /\ Alone)
<1>1. Spec => []IInv
  BY Invariance
<1> QED BY <1>1, InitBacking, NextKeepsBacking, PTL DEF Spec

\* sessions and verification_codes never refer to a user there is not, and a request
\* works for a user that is there until its last statement, although it looked the user
\* up, or the session or code that names it, some statements ago.
THEOREM RowsHaveOwners == Spec => []OwnersExist
<1>1. Backing => OwnersExist
  BY DEF Backing
<1> QED BY <1>1, BackingHolds, PTL

\* No statement of any handler, in any order, brings a revoked session back to life,
\* makes a used code usable, or moves a session or a code to another user.
THEOREM NothingIsUndone == Spec => [][Grows]_vars
<1>1. IInv /\ Backing /\ Alone /\ [Next]_vars => [Grows]_vars
  BY NextKeepsBacking
<1> QED BY <1>1, Invariance, BackingHolds, PTL DEF Spec

LEMMA InitRefines == Init => Promise!Init
BY DEF Init, NoRequest, Committing, Changes, Change, Promise!Init

\* The handlers implement Accounts: whatever copies, caches and failures lie between
\* their statements, each statement is one atomic step that the rules there allow.
THEOREM Refinement == Spec => ImplementsAccounts
<1>1. IInv /\ Backing /\ Alone /\ [Next]_vars => [Promise!Next]_(Promise!vars)
  BY StepRefines DEF Abstract, Promise!vars, Promise!tables
<1> QED BY <1>1, Invariance, BackingHolds, InitRefines, PTL
        DEF Spec, ImplementsAccounts, Promise!Spec
=============================================================================
