# A verification development for EDULMS v2

TLA+ models of the learning-management system in this repository, TLC runs that
check them on small instances, and TLAPS proofs of their main properties for
every instance. Paths are relative to the repository (`src/`); `PROJECT.json`
maps each definition to the lines it translates.

1. [The system](#1-the-system)
2. [What is hard about it](#2-what-is-hard-about-it)
3. [The modules](#3-the-modules)
4. [The runs](#4-the-runs)
5. [Fairness](#5-fairness)
6. [The proofs](#6-the-proofs)
7. [What the runs found](#7-what-the-runs-found)
8. [What is abstracted, and what is not modelled](#8-what-is-abstracted-and-what-is-not-modelled)
9. [Plan](#9-plan)

## 1. The system

A browser front end talks HTTP to a gateway, which talks gRPC to three services;
each service has a Postgres database of its own and shares a Redis server. The
services publish events to a NATS broker, and a notification service turns the
events into HTTP calls of an external gateway (a mock in this repository).

```
frontend --HTTP--> gateway --gRPC--> auth        --+
                                     course   <-+  +--NATS--> notification x2 --HTTP--> mock-gateway
                                     assessment-+  |                |
                                       | outbox table               +--> Redis dlq:notification
                                       +-- relay x2 ---------------+
```

| Component | State | Operations | Correct when |
|---|---|---|---|
| **assessment service** (`services/assessment/internal/usecase`) | tables `quizzes`, `attempts`, `outbox`; Redis keys `assessment:quiz:*`, `assessment:quizzes:*`, `assessment:gradebook:*` | CreateQuiz, GetQuiz, UpdateQuiz, DeleteQuiz, ListQuizzes, StartAttempt, SubmitAttempt, GetAttempt, ListAttempts, GradeSubmission, GetGradebook, ExportGrades | rows and events change together; attempts are never lost or orphaned; scores and statuses fit; only the owner grades; caches show what was true |
| **outbox relay** (`internal/outbox/relay.go`, `outbox_repository.go`, `publisher.go`) | `outbox.published_at`, the NATS client's connection and buffer, the batch of each replica | insert, commit, list, publish, mark; stop, restart | only committed events leave; a mark means the event was handed over; order per aggregate; every event leaves eventually |
| **notification service** (`notification/internal`) | NATS subscriptions, the bounded channel and workers of each replica, Redis `dlq:notification` | receive, submit a job, dispatch with retries, dead-letter; crash, SIGTERM | an event is notified once; no job disappears silently; a worker always comes back |
| **mock gateway** (`mock-gateway/cmd`) | accepted idempotency keys and a log, in memory | `POST /notify` | one log entry per key |
| **auth service** (`services/auth/internal/usecase`) | users, sessions (refresh hashes), one-time codes | register, login, refresh, logout, revoke, verify e-mail, reset and change password, profile | an exchanged token and a used code are dead for every later request; a password changes, and an address is verified, only by a proof |
| **course service** (`services/course/internal/usecase`) | courses, sections, materials, enrolments; Redis keys | CRUD, enroll, unenroll, lists through the cache | one enrolment per pair; caches show what was true |
| **automatic grading** (`assessment/internal/usecase/submit_attempt.go:88`) | none | `autoGrade`, `allCorrect` | a multiple-choice answer is right iff its set of options is |
| **rate limiter** (`*/interceptors/ratelimit.go`) | Redis counters | INCR, EXPIRE | a caller is never blocked for ever |
| **web client: session** (`web/src/lib/store.ts`, `lib/api.ts`, `app/login`, `app/register`, `(dashboard)/layout.tsx`) | `access_token`, `refresh_token` and `user` in localStorage, shared by the tabs; a store in each tab | log in (two requests), register, hydrate, redirect, log out, reload, go back | the keys belong to one login; a tab shows whom it calls as |
| **web client: pages** (`web/src/app/(dashboard)`) | what the mounted page shows, its form, toasts; handlers on their way | load, create a course or a week, send any other form, expand a week, leave | toasts are true; what was created is shown and stored once; loading ends |
| **HTTP gateway** (`gateway/`), **proto**, **SRE and deployment** | none of their own that a protocol depends on | | |

How they interact: the assessment service asks the course service whether a
student is enrolled (`ListEnrollments`) before it starts an attempt; its
transactions insert events that the relays read from the shared table; the auth
and course services, and `StartAttempt`, publish best-effort without an outbox;
the pages of the web client read and write the lists of the course service through
the gateway, which keeps nothing;
notification has plain NATS subscriptions, so each replica gets each message.
`sre/k8s/06-assessment.yaml:21` and `07-notification.yaml:21` run two replicas
of each, without leader election or locks.

## 2. What is hard about it

The full list is in `PROJECT.json` (`hazards`), each at its line. In short:

- *Stale copies across a transaction boundary.* `SubmitAttempt`,
  `GradeSubmission`, `UpdateQuiz` and `UpdateProfile` read a row outside their
  transaction, decide on the copy, and write the whole copy back with `WHERE id`.
- *Checks before the transaction.* `DeleteQuiz` counts attempts, `StartAttempt`
  checks quiz and enrolment, in statements of their own.
- *Cache aside.* A read that misses fills the cache later, after another request's
  eviction perhaps; an eviction that fails is ignored.
- *Two relays without a lock* list the same rows, publish the same events and
  mark the same rows, and go on with a batch when one event of it is refused.
- *`Publish` returns before anything is sent.* The NATS client buffers; connection
  breaks, the drain at shutdown and the end of the process lose what it holds.
- *At-least-once on top of two subscribers*, retries of POSTs whose answer was
  late, a gateway that forgets at a restart.
- *Bounded resources:* the job channel drops when full; the client's reconnect
  buffer refuses; reconnecting ends after 10 (publisher) or 20 (subscriber) tries.
- *Tokens and codes are checked in one statement and spent in another*: the auth
  service revokes, then creates, without a transaction; a reset code is checked before
  the transaction that uses it; a profile is written back whole, password included.
- *Handlers of the web client outlive their pages.* Nothing numbers or aborts a
  request, so answers are applied in any order and for pages that are gone; a lost answer, a
  refusal and a failed read-back end in the same `catch`; closures put old state back.
- *One localStorage, many tabs, no `storage` listener*; a login stores its tokens a
  request earlier than its user.

Known to the team and covered by no property yet: a student may be unenrolled between
`StartAttempt` and `SubmitAttempt` (`submit_attempt.go:48`); the cached page of quizzes
answers every other page (`list_quizzes.go:38`); after 20 failed reconnects a
notification replica lives on without subscriptions (`subscriber.go:41`); a
user may be stored without a code (`register.go:100`); whoever enrols needs no course
(`enroll_student.go:35`); INCR without EXPIRE (`ratelimit.go:46`); `allCorrect` counts a
repeated key twice (`submit_attempt.go:113`).

## 3. The modules

| Module | Models | Built on |
|---|---|---|
| `AssessmentData` | the tables, the values of their columns, shared operators | |
| `AssessmentLedger` | the promise of the assessment service: one atomic step per change, with its event | `AssessmentData` |
| `Assessment` | the handlers of the service, statement by statement, with caches and failures; refines `AssessmentLedger` | `AssessmentData`, `INSTANCE AssessmentLedger` |
| `EventDelivery` | the promise of the outbox to the consumers of events | |
| `OutboxRelay` | outbox rows, relays, NATS clients, lives of the replicas; refines `EventDelivery` | `INSTANCE EventDelivery` |
| `NotificationLedger` | the promise about an event that was received: what may become of its job | |
| `Notification` | subscribers, worker pools, dead letters, the gateway; refines `NotificationLedger` | `INSTANCE NotificationLedger` |
| `Accounts` | the promise of the auth service: the rules by which rows change, one atomic step per change | |
| `AuthSessions` | users, sessions, one-time codes, the cache of users and the twelve handlers; refines `Accounts` | `INSTANCE Accounts` |
| `BrowserLogin` | the promise of the web client about the one session of a browser | |
| `WebSession` | localStorage, the stores of the tabs, login, registration, hydration, logout; refines `BrowserLogin` | `INSTANCE BrowserLogin` |
| `WebRoles`, `WebMounts`, `WebForms` | tables: who sees which page, what a page loads, what a form needs and sends | each the one before |
| `CourseLists` | the lists of courses and weeks in the course service: rows, copies, requests | |
| `WebPages` | the mounted page, its form, its handlers in flight, composed with `CourseLists` | `CourseLists`, `WebForms` |
| `MCAssessment`, `MCOutboxRelay`, `MCNotification`, `MCAuthSessions`, `MCWebSession`, `MCWebPages` | finite instances for TLC | the above |
| `AssessmentLedgerProofs`, `AssessmentProofs`, `OutboxRelayProofs`, `NotificationProofs`, `AuthSessionsProofs`, `WebSessionProofs`, `WebPagesProofs` | theorems and proofs | the above, `TLAPS` |
| `PromisesProofs` | what three of the promises say on their own | `INSTANCE EventDelivery`, `Accounts`, `NotificationLedger` |

### Assessment

The state is the three tables, the three kinds of Redis keys, the enrolments that
the course service would answer with (`enrolled`), the attempts whose
`attempt.started` was published (`started`), and for each goroutine the request
it is serving (`req[h]`): the next statement (`at`) and the local variables that
statement uses. One database statement, transaction, Redis command or call of
another service is one step; between two steps of a handler, steps of all others
may happen.

| Code | Actions |
|---|---|
| `create_quiz.go` | `CreateQuiz` (one transaction: row and event; nothing is read before it) |
| `get_quiz.go` | `GetQuizRead` (a hit is an answer and no step), `GetQuizFill` |
| `list_quizzes.go` | `ListQuizzesRead`, `ListQuizzesFill` |
| `update_quiz.go` | `UpdateQuizRead`, `UpdateQuizCommit`, `QuizEvict` |
| `delete_quiz.go` | `DeleteQuizRead`, `DeleteQuizCheck` (the count of attempts), `DeleteQuizCommit` (foreign key and event), `QuizEvict` |
| `start_attempt.go` | `StartAttemptRead`, `StartAttemptCheck` (enrolment), `StartAttemptCreate` (foreign key), `StartAttemptPublish` |
| `submit_attempt.go` | `SubmitAttemptRead` (owner and status), `SubmitAttemptLoadQuiz` (quiz and `autoGrade`), `SubmitAttemptCommit` |
| `grade_submission.go` | `GradeSubmissionRead` (status), `GradeSubmissionLoadQuiz` (owner), `GradeSubmissionCommit`, `GradeSubmissionEvict` |
| `get_gradebook.go`, `export_grades.go` | `GetGradebookRead`, `GetGradebookFill` |
| errors, cancelled contexts, crashes | `Fail`: the request ends before its next statement |
| course service, Redis TTLs | `Enroll`, `Unenroll`, `Expire` |

`Overwritten` is `attemptRepository.Update`: five columns of the copy replace the
row's, whatever the row holds by now. The foreign key `attempts.quiz_id`
(`migrations/`) is a guard of `StartAttemptCreate` and `DeleteQuizCommit`.

`AssessmentLedger` has no requests, caches, copies or failures: six atomic actions
over the tables. It promises what the code can
keep; where a reader of the API would expect more
(a submission of a graded attempt, answers put back by a grade) the ledger allows
it, and says so. `Assessment!ImplementsLedger == Ledger!Spec` is the refinement;
the mapping is the identity on the tables, so that every step of a handler is
one ledger step or leaves the tables alone.

### OutboxRelay

A row is its id. `InsertRow` allocates the next id when a transaction inserts it,
`EndTransaction` commits or rolls back in any order, so that a lower id may become
visible after a higher one. The transaction has written the row of its quiz or
attempt first, which Postgres locks: `HoldsRowLock`.

| Code | Actions |
|---|---|
| `Relay.Run`, `flush` (`relay.go`) | `List`, `Publish`, `PublishFails`, `MarkPublished`, `MarkFails`, `Advance` |
| `outbox_repository.go` | `Unpublished`, `Oldest` (`ORDER BY id LIMIT n`), `InsertRow` |
| `publisher.go` and the NATS client behind it (external) | `Accepts`, `Refuses`, `Flush`, `Disconnect`, `EndReconnecting`, `EndDraining`, `Discard` |
| `cmd/assessment/main.go` | `Start` (with the noop publisher if NATS is down), `Stop` (SIGTERM: cancelled context, drain), `Exit` |

The history variables `arrived`, `lost`, `rejected` and `sent` record the fate of an
event; no guard reads them.

`EventDelivery` has no replicas, batches, buffers or crashes: an event is committed, handed
over or refused in the order of its aggregate, under way, arrived or lost, and marked. Its
`underway` is mapped to the messages in any client's buffer (`Delivery` in `OutboxRelay`).
It is as weak as the code: a refused event does not hold up its successors, an event
may be handed over again, and a marked one may be lost.

### Notification

The state of a replica is its connection, the messages on the way to its callbacks
(`inbox`, a bag: each subject has a goroutine of its own), its channel and its
workers. `seen` and `log` are the mock gateway's maps.

| Code | Actions |
|---|---|
| `subscriber.go` | `Receive` (`handle`, `IdempotencyKey`, `Pool.Submit` with its `default:` branch), `KeyOf` |
| `pool.go` | `Take`, `Answer`, `PostFails`, `PostTimesOut`, `Retry`, `Finish`, `Bury` (`toDLQ`: LPUSH, else the process's output) |
| `mock-gateway/cmd/mock-gateway/main.go` | `Accept` inside `Answer`, and `HandleLate` for a request whose sender gave up; `RestartGateway` |
| `cmd/notification/main.go` | `Start`, `Exit` (`nc.Drain` only starts to drain; `main` waits for nobody) |
| NATS (external) | `Publish`, `Disconnect`, `EndReconnecting` |

An idempotency key hashes type, entity and time. It is modelled by what makes two
keys equal: the event, and a stamp that is 0 if the payload has its own
`occurred_at` and otherwise a fresh number, since `handle` then takes the clock.
The events made by `event.Marshal` are `Stamped`; `quiz.created`, `quiz.updated`,
`quiz.deleted` and `attempt.started` are not.

`NotificationLedger` knows the keys received, the open jobs (`Held`, mapped from the
channels and the workers), the POSTs nobody waits for, the gateway and what was dead-lettered
or dropped; there are no replicas, tries or connections. A job closes by a notification, as a
dead letter, or in `forgone`; a dead letter that was accepted is one that may be accepted
without an answer, or whose key recurs. A key that recurs (`Recurring`, those of stamped
events) may have several jobs, so that closing one may leave it open.

### AuthSessions

The state is the tables `users`, `sessions` and `verification_codes`, the Redis keys
`user:<id>`, the codes that were mailed, and `req[h]` as in `Assessment`. A user is its
unique e-mail address; a row of `users` keeps the columns on which access depends
(`password_hash`, `email_verified`); a refresh token is the session that its hash finds.

| Code | Actions |
|---|---|
| `register.go` | `Register`, `CreateCode`, `Publish`, `Mail` |
| `request_password_reset.go` | `RequestPasswordReset`, `CreateCode`, `Mail`, `Publish` |
| `verify_email.go` | `VerifyEmailRead` (`Usable`), `VerifyEmailMark`, `VerifyEmailLoad`, `VerifyEmailUpdate`, `Publish` |
| `confirm_password_reset.go` | `ConfirmPasswordResetRead`, then the transaction in three steps: `ConfirmPasswordResetLoad` (lock of the code's row, read of the user), `ConfirmPasswordResetUpdate` (both UPDATEs), `ConfirmPasswordResetCommit`; `Publish` |
| `change_password.go` | `ChangePasswordRead`, `ChangePasswordUpdate` (both UPDATEs), `ChangePasswordCommit`, `Publish` |
| `login.go` | `LoginRead`, `LoginCreate`, `Evict` |
| `refresh_token.go` | `RefreshTokenRead`, `RefreshTokenRevoke`, `RefreshTokenCreate` |
| `logout.go`, `revoke_session.go` | `LogoutRead`, `RevokeSessionRead`, `SessionRevoke`, `Publish` |
| `get_me.go`, `update_profile.go` | `GetMeRead`, `GetMeFill`; `UpdateProfileRead`, `UpdateProfileUpdate`, `Evict`, `Publish` |
| errors, crashes; Redis TTLs | `Fail`; `Expire` |

`interceptors/auth.go` trusts an access token until it expires and never looks at the
session: `HasToken`. Three history variables serve the properties and no guard:
`had` (passwords a user has chosen), `parent` (the session whose token was exchanged for
this one) and `uses` (which goroutine has exchanged or spent what).

The two transactions that change a password run READ COMMITTED (`tx.go:20`). Their UPDATE of
`sessions` sees what was committed before it: `ends` in the request keeps which rows that
was, `Locked`, `EndLocked` and `CodeLocked` make the others that write these rows wait, and
the commit revokes those sessions and no other. A session that a login or a refresh inserts
between the UPDATE and the COMMIT lives on.

`Accounts` has the same three tables, the changes of passwords under way, and neither
requests nor copies: `SignUp`, `Rewrite`, `StartChange`, `StartReset`, `Abort`,
`ChangePassword`, `ResetPassword`, `Issue`, `Mail`, `Verify`, `Open`, `Renew`, `End`, each
with what must be true of the tables at that moment (a code that was mailed to that
user, an exchanged token that is dead, a user that exists, a proof for a verified row). It is
weaker than a reader of the API would guess where the code is: `Rewrite` may put an earlier
password back, what is spent may be spent again by a request that overlaps
(`ReplaysOverlap` says how far), and a change of password ends the sessions there were when
it began, not those opened before it is done.

### WebSession

The state is the three keys of localStorage, the zustand store of every tab, where
every tab is (the landing page, one of the two forms, or inside the layout), and how far
each submission of the login form has come. A tab's handler goes on when its page is
left, and dies with its document.

| Code | Actions |
|---|---|
| `lib/api.ts` `authApi.login`, `app/login/page.tsx` `handleSubmit` | `SubmitLogin`, `Granted` (tokens stored, `GET /auth/me` sent), `Completed` (`setUser`, `setTokens`, the way inside), `Failed` |
| `app/register/page.tsx` | `SubmitRegister`, `Registered` (the gateway's answer has no user and no tokens: `setUser(undefined)` runs, then reading a token throws), `RegisterFailed` |
| `(dashboard)/layout.tsx` | `Hydrate` (both mount effects, the second with the store as it was rendered), `Redirect`, `Logout` |
| `app/page.tsx` | `Land` |
| browser (external) | `Load` (address bar, reload: a new document), `Follow`, `Back` |

`BrowserLogin` knows one session, the user shown beside it, and what each login granted
and completed. `WebSession!ImplementsBrowserLogin` maps the keys of localStorage to it;
what the tabs' stores hold is beyond the abstract module, and `TabsShowStorage` is about it.

### CourseLists and WebPages

A request is a record in a slot: a list takes the steps `ListHit` or `ListQuery`,
`ListFill` (`list_courses.go`, `list_sections.go`), a create `Insert`, for courses `Scan`
(`DeleteByPrefix` looks for keys before it deletes them), `Evict` or `EvictFails`
(`create_course.go`, `create_section.go`), or is refused (`Refuse`); copies expire. A job
beside each request says which handler waits for it and whether its page is still there.

| Code | Actions |
|---|---|
| links of the layout and of the cards; address bar, reload, plain links | `Visit`, `LoadUrl`, both with the effects of the page they mount (`Mount`, `WebMounts`) |
| buttons and fields of every form (`WebForms`) | `OpenForm`, `Type`, `Cancel` |
| `handleCreate`, `handleAddSection` | `SubmitStored`, then `CourseCreated` or `WeekCreated` and `WeekAdded` (the read-back), or `CreateFails` |
| handlers whose call the server refuses, or whose call is a stub that rejects | `SubmitRefused`, `Remove`, `RefusalComes`; `SubmitStubbed` |
| loads of every page, `reload`, filters of the users | `Loaded`, `LoadFails`, `Refilter` |
| `toggleSection` | `Toggle`, `MaterialsCome` (with the map of materials its closure saw) |

An answer may be lost at any moment: the handler fails (`LoadFails`, `CreateFails`) while
the server goes on with the request, and nobody hears its end (`Unheard`).
`mine`, `late`, `doubtful`, `overlapped`, `raced` and the field `missed` are history, and no guard but that of `Type`
reads them: a user types a stored text afresh only with reason to doubt that it is stored.

## 4. The runs

All runs use model values for ids; those of `Assessment` and `AuthSessions`, which check
no liveness, use symmetry sets.

| Run | Question | Instance and bounds | States |
|---|---|---|---|
| `assessment_core` | Do tables and events stay consistent and implement the ledger, with stale copies and failing statements? | 2 goroutines, 1 quiz, 2 attempts, 2 teachers, 2 sheets, 2 scores, 5 events | 377 000 |
| `assessment_caches` | Do caches show only what was once true, and are quiz events in order? | 2 goroutines, 1 quiz, 1 attempt, 2 titles, every operation, expiry, 4 events | 1.6 M |
| `outbox_relay` | Are two relays without a lock one atomic delivery, of committed events only, in order, again only with an excuse, and each in the end? | 2 replicas, 3 rows of one aggregate, batch 2, buffer 1, 1 fault, noop allowed | 357 000 |
| `notification` | Is a stamped event notified once, do workers and gateway implement the ledger of jobs, and does every channel drain? | 1 replica, 2 workers, 2 events of which 1 stamped, 3 publishes, 1 retry, 1 fault | 388 000 |
| `auth_sessions` | Do tokens, codes, passwords and verification stay tied to what their owner has shown, and do rows change only by the rules of `Accounts`? | 2 goroutines, 2 users, 2 passwords, 2 sessions, 1 code, every operation | 2.6 M |
| `web_session` | Is there one session, and does a tab show whom it calls as? | 2 tabs, 2 accounts, 2 submissions of the login form, 1 registration at a time | 333 000 |
| `web_pages` | Are toasts true, is what was created shown and stored once, and does every load end? | 2 requests at a time, a course and a week there are and one of each to create; 3 roles with the pages and forms of `Visited` and `Used` | 1.1 M |
| `lost_grade`, `stale_gradebook`, `outbox_lost`, `notified_twice`, `password_reverted` | The disagreements of [section 7](#7-what-the-runs-found) | the smallest instance that shows each | |

Why the bounds are enough to make the interesting cases happen:

- *Two goroutines* interleave any two requests; a third only matters where three
  requests hold copies at once, and the proofs cover any number. *Two attempts* of
  one quiz make `Unreferenced` more than one row. *Five events* allow
  create, submit, grade, a second submission from a stale copy and a second grade
  of another; `MaxEvents` is a guard of each commit and nothing else.
- *Three rows of one aggregate* with a *batch of two* make a relay list twice and let
  ids become visible out of order; *a buffer of one* is full at once; *one fault* is a
  broken connection, a failed mark or a crash, and the proofs allow any number.
- *Two workers of one replica* POST one key at once when a message comes twice; *three
  publishes* fill the channel and one more; *one retry* reaches both branches of `Retry`.
  In the code the channel holds ten jobs per worker (`pool.go`), and `MaxRetries` is 3;
  the proofs hold for all values. Two replicas, which each get every message, are in
  `notified_twice` and in the proofs.

- *Two users* tell a user's session, code and password from another's; *two sessions* are
  one of each user, or a token and its successor; *one code* is an e-mail code or a reset
  code, and may be used by both goroutines at once; *two passwords* tell an old copy from
  the row. That two requests each complete an exchange of one token takes a third
  session, and a reset while an e-mail is verified takes a second code: both are left to
  the proofs, which hold for any number (with one user, three sessions and two codes TLC
  needs four minutes and finds no error).

- *Two tabs* write behind each other's back; *two submissions for two accounts* let one
  login be torn while another completes. The proofs hold for any number.
- *Two requests at a time* let answers change places, a list fill around a create, and
  two weeks be fetched together; *one stored text and one new one* of each list tell a
  stale list from a fresh one. Roles go where their buttons are: a student only reads, a
  teacher adds weeks, an administrator creates courses and uses the forms whose calls
  are stubs or are refused. The client asks for the first 20 courses only
  (`course_repository.go:84`); `ListsAssumption` keeps the model to that.

`CHECK_DEADLOCK FALSE` is set for the relay and the notification service, which
really may come to rest: when all rows are sent, or all messages are handled, and the
bounds allow no further one, nothing is left to do. So is it in the run `password_reverted`, whose small
workload uses its only session up. `Assessment` and `AuthSessions` check deadlock.

What each property says is stated above its definition. The ones that carry most:

- `ImplementsLedger`, `CopiesAreGrounded`: a copy held over a transaction boundary
  may be old but never wrong about attempt, owner, quiz or announced score, and so
  each commit is a step the ledger allows.
- `AttemptsHaveQuiz`, `AttemptsNeverLost`: `DeleteQuiz` and `StartAttempt` race, and
  only the foreign key decides; the count in `DeleteQuiz` alone does not.
- `ScoresWereAnnounced`, `EventsMatchStatus`, `GradedAfterSubmitted`: what a consumer
  of the outbox has read agrees with what a reader of the table sees.
- `HandedOverInOrder`: with a row lock per aggregate, visibility order equals id
  order within an aggregate, so the two relays cannot reorder its events, except
  after a refused publish, which the property names.
- `ResendsAreExcused`: a relay repeats itself only after a mark that it failed to make.
- `StampedNotifiedOnce`: late requests, retries, duplicates and two replicas are
  absorbed by the key.
- `ImplementsDelivery`: no uncommitted event leaves, none is marked that was not handed
  over, none disappears from a client without having arrived or being lost, whatever two
  relays, breaks, drains and crashes do at once.
- `ImplementsLedger` (of `Notification`): a job is only closed by a notification, a dead
  letter or a loss that has a named reason; nothing is accepted twice by a process of the
  gateway; and a dead letter was not notified, as far as answers and keys tell.
- `ImplementsAccounts`: every commit of every interleaved request, with its stale copies, is
  a step the tables' own rules allow.
- `RotationRevokes`: wherever a refresh fails, the token that was exchanged is dead, and
  with it all its ancestors; a failure signs the user out and never leaves two ends.
- `ReplaysOverlap`: one token or code may be used twice (nothing in the code prevents it),
  but only by requests of which each had checked it before the other had spent it.
- `VerifiedIsProven`, `NewPasswordsAreProven`: four handlers write whole rows from stale
  copies, and the cache is filled from others, but no copy verifies an address whose
  code was not used, and no request without a proof brings a new password. (An *old*
  password may come back: section 7.)
- `EventsAreTrue`: what is announced is in the table, for good.
- `OwnersRevoke`: ownership is checked in one statement and a session revoked by its id in
  another; it is the owner's request all the same.

- `ImplementsBrowserLogin`: a user beside tokens that are not theirs betrays a login that
  was cut short between its two requests, and nothing else brings that about.
- `TabsShowStorage`: a tab that wrote last or read since shows the account its requests
  are sent as; the others may not, there being no `storage` listener.
- `ListsAreFresh`: a list lacks nothing that was stored before the server answered it,
  except after a race at the server, which `raced` names.
- `CreatedIsShown`: what was created is on the page when the lists asked for have come, with
  two exceptions that it names and does not excuse: that race (`raced`), and an older answer
  applied after the one of the reload (`late`; section 7). Failures, refusals, lost answers
  and double presses are no third.
- `ToastsAreTrue`, `TextsStoredOnce`: only a lost answer, a failed read-back or a double
  press can make the client say or do the wrong thing; the page gone meanwhile does not.
- `MaterialsAreKept`: a week loses its materials only to one that was expanded together
  with it.

Every property of a passing run has a mutant in `PROJECT.json`: a change of one
definition, of the kind a slip in the code would be, that makes TLC report exactly
that property. The mutated forms stand beside the originals, marked `Mutant`.

## 5. Fairness

Safety specifications state none. `OutboxRelay!FairSpec` assumes weak fairness of:

| Action | Why the code gives it |
|---|---|
| `Relay(r)` | `Run` is a goroutine on a ticker, and the loop over a batch has no wait: its statements end or fail |
| `Flush(r)` | the client's flusher goroutine runs while it is connected |
| `EndReconnecting(r)`, `EndDraining(r)` | the number of reconnects is limited (`MaxReconnects(10)`), the drain has a timeout |
| `Start(r)` | the deployments restart a container that ended |
| `Exit(r)` while stopping | `main` returns after `GracefulStop` |

Nothing makes a transaction commit, a connection break, or a replica stop. The
fairness of `Relay(r)` is for the disjunction, so that a relay that could always
publish is not forced to have a mark succeed. `EventuallyOut` has to name its
exceptions: an event of which a message was lost is marked and never sent again,
and once every client has given up (`GivenUp`: the process lives, its connection is
closed for good) no event leaves before a restart.

`Notification!FairSpec` assumes weak fairness of the callbacks of a replica and of
each worker's loop: `http.Client` has a timeout of five seconds, the backoff and the
LPUSH are bounded, and `worker` ranges over its channel. The gateway is assumed to
do nothing. `ChannelsDrain` therefore says that no answer, and no failure, stops a
worker for good.

`WebPages!FairSpec` assumes weak fairness of `Progress(s)`, the steps of the request in
slot `s` and of the handler that waits for it: a use case has no loop and no wait without
end, `fetch` settles, and a settled promise runs its handler. Nothing is assumed of the
user or of the 60 seconds of a copy. `LoadingEnds` therefore needs its second disjunct: a
user who keeps leaving may see nothing but spinners.

## 6. The proofs

`tlapm` proves every obligation of the eight proof modules. A theorem holds for all
values of the constants that satisfy the named assumptions:

- `DataAssumption` (`AssessmentData`): `AutoScore` gives each sheet a score; `Null` is
  none of the values it is told apart from.
- `InstanceAssumption` (`Assessment`): the workload names operations.
- `AuthAssumption`: ids of sessions and codes differ, `Null` is no row and no session.
- `RelayAssumption`, `NotificationAssumption`: bounds are numbers, a batch and a pool
  are not empty, `None` is no aggregate and no key.
- `SessionAssumption`: every submission has an account, `None` is none of the values.
- `ListsAssumption`, `PagesAssumption`: texts of courses and of weeks differ, the courses
  fit the page that is asked for, and roles, pages and forms are those of the tables.
  TLC evaluates all of them.

**The ledger and its implementation.** `AssessmentLedgerProofs` shows that the
conjunction `LedgerInv` of the table properties is inductive for the ledger (one
lemma for quiz actions, one for the start and one for the two that announce scores); the parts need each other: that a grade may be committed rests on
the announced submission, which rests on rows and events agreeing.
`AssessmentProofs` proves

```
IInv == TypeOK /\ CopiesAreGrounded /\ LP!LedgerInv
```

inductive for the handlers. None of the three is inductive alone: a commit is a ledger
step only if the copy it writes is grounded; a copy stays grounded while other
handlers commit only because attempts never change quiz or student, announced scores
stay announced and a quiz with attempts cannot go, all of which are the ledger's; and a
grounded copy is about values of the right type. The proof follows that
split: each step of `Assessment` maps to a ledger step or a stutter
(`Refinement`), the ledger invariant is inherited through that step, and
`Grounded` is preserved request by request, one lemma for the handler that moves
and one for all that wait. `TypeCorrect`, `CopiesStayGrounded`, `NoOrphanAttempts`,
`RowsAndEventsAgree`, `GradesFollowSubmissions`, `ScoresAreAnnounced`,
`QuizHistoriesAreOrdered`, `AttemptsSurvive` and `GradesComeFromOwners` are
corollaries. A second invariant, `ViewsWereTrue`, says of the caches and of the answers on
their way into them that what they show was true: a quiz that existed, scores that were
announced. `HistoryKept` shows that a ledger step takes none of that back, and
`CachedQuizzesExisted` and `CachedBooksWereTrue` follow.

**The relay.** The inductive invariant of `OutboxRelayProofs` is

| Conjunct | Why it is needed |
|---|---|
| `TypeOK` | |
| `BatchesAreCommitted` | what a relay publishes later was committed when listed: `OnlyCommittedLeave` |
| `OnlyCommittedLeave`, `MarkedWasHandedOver` | two of the results |
| `MarksFollow` | a relay that is about to mark has handed its row over |
| `OpenIsLatest` | an open row is the last of its aggregate, by the row lock: no lower id can become visible behind it |
| `BatchesAreComplete` | every committed earlier row of the same aggregate is in the same batch or already dealt with, although batches are cut off and other relays mark meanwhile |
| `HandedOverInOrder` | follows from the two |
| `SentIsPast` | what a relay sent and did not fail to mark is marked, or is the row it is about to mark, which gives `ResendsAreExcused` |

`Refinement` shows that each step is one of `EventDelivery` or a stutter. The two steps that
need the invariant are the hand-over, whose row is the first of a complete batch and so in
line (`FirstIsInLine`), and every end of a client, which lets go of messages that others may
hold (`LettingGo`); the commit needs `OpenIsLatest`. `UncommittedStay` and `MarkingIsHonest`
state two consequences directly, as the invariants `OnlyCommittedLeave` and
`MarkedWasHandedOver`.

Behind `EventuallyOut`, `NoRowIsSkipped` and `BatchesEnd` are its parts that need no
fairness: a batch begins with the oldest row and leaves no older one out, and it
shrinks with every row, whatever the client answers; a row waits for older ones only,
and for two statements of each.

**Notification.** `NotificationProofs` needs `TypeOK`, `KeysAreMade` (every key in a
channel, with a worker, late, or at the gateway is one that `KeyOf` can make: the
stamp of a stamped event is 0), `SeenIsLogged` (the gateway's two maps agree, so that a known key is
logged again), `StampedNotifiedOnce` and `JobsAreAccountedFor`. For dead letters the
invariant `Sole` is added: a key without a time in its payload is at one place only,
in one channel or with one worker (its stamp is of one reception, and `KeysInTime` makes the next
one new), a job somebody still has is neither a dead letter nor accepted unnoticed, and a
POST under way that nobody waits for is one that was not answered. So nobody else can
have had accepted what a worker buries (`DeadLettersAreUnsent`). `NoJobDisappears` states
`JobsAreAccountedFor` for all reachable states.

`Refinement` adds to that what each step may do: it is a step of `NotificationLedger`. A
job that ends must leave the set `Held` unless its key recurs; `Sole` says that a key that
does not recur is nowhere else, and `ReceivedInTime` that what is received next is not among
the keys already received. `RetriesEnd` gives the variant `Rounds` (statements a worker has
before it at most), which every step of a worker makes smaller: with the fairness of the
worker it is why `ChannelsDrain` holds.

**Auth.** The tables of the auth service only grow in what matters: a session stays
revoked, a code stays used and keeps its owner and kind, and a password stays one the
user has had (`Grows`). `AuthSessionsProofs` therefore states what a request knows in
such terms (`Fits`): the session it holds exists and is the user's, and is revoked once
`refresh.create` is reached; the code it holds is of its kind and user, and used from
`verify.load` on; its copy of a row has a password of the user and a verification that
was earned; its event is true. `FitsGrows` is then proved once for all that wait, and the
lemma of each action shows that the goroutine that moves knows what its next step needs.
Beside it the inductive invariant `IInv` has `AccountsOK`, `ChainsOK`
(`RotationRevokes`, and no parent without a session), `UsesAreFinal` (what was spent is
dead) and `Unspent` (what a goroutine holds it has not spent), which give
`ReplaysOverlap`. `NewPasswordsAreProven` and `OwnersRevoke` are action
properties; they follow from `Fits` in the few actions that write `had` and end sessions.

`Refinement` maps every commit to a rule of `Accounts`. It needs one more invariant,
`Backing`: sessions and codes belong to users that have a row (`RowsHaveOwners`), and so does
every request that is to write one, with a code that was mailed; `PromiseGrows` keeps it for
those that wait. A password transaction between its UPDATE of `sessions` and its COMMIT is a
member of `changes` in `Accounts`, with the sessions it will end (`ends`): the UPDATE maps to
`StartChange` or `StartReset`, the COMMIT to `ChangePassword` or `ResetPassword`, a failure to
`Abort`. Two transactions of one user could not be told apart in that set, and the lock of the
user's row keeps them from overlapping: `Alone`, the third invariant of the argument, which
`Locked` gives. `NothingIsUndone` states `Grows` for every step, since everything above rests
on it.

**The session of the browser.** The inductive invariant of `WebSessionProofs` is
`TypeInv` (types, and how far a submission must be for a form to wait for it) and
`StorageInv`: a login whose tokens are stored has been granted; a user who is shown
somewhere completed a login; stores fit their own keys. Every step maps to one of
`BrowserLogin` or a stutter; `Completed` is the only one that needs the invariant.

**The pages.** The invariant of `WebPagesProofs` comes in layers. `Base` ties each job to
its request (`Fits`) and the form to the page. `FreshInv` says what a list may lack; it
needs `RacesAreSeen`: a list that is on the server while a create is between its insert and
its eviction has met it, and one that has left the server by then has the row or missed it.
`SentOnce` says that a text that is stored or on its way without a doubt is so once, and is
in the form only while its handler is still to clear it; it gives
`TextsStoredOnce` and `ToastsAreTrue`. `MaterialsMeet` compares the maps that the handlers
in flight have seen: two that differ were started together. `MineListed` says that what was
created on the page is stored and of the page's list, and that it is shown, raced, or `late`
once nothing is loading; since a list that comes lacks only what `FreshInv` says and what it
has `missed`, nothing else loses it (`CreatedAreShown`).

Two results carry the safety part of `LoadingEnds`: a page that says it is loading has a list
of its own under way (`LoadsAreAwaited`; every handler that takes the last one ends the
loading), and a request has at most seven steps, of which every change of it takes one
(`RequestsShorten`), so that it never starts over whatever the user does.

**The promises themselves.** An abstract specification is worth what can be read off it.
`PromisesProofs` knows nothing of the services: it proves invariants of `EventDelivery`,
`Accounts` and `NotificationLedger` alone, which the refinements then carry over.
`DeliveryInOrder`: only committed events are handed over or refused, each after every
earlier one of its aggregate, and only what was handed over is marked. `AccountsAreEarned`:
a verified address has a used code, a used code was mailed, the password of a row is one its
user has chosen, an exchanged token is dead and of the same user, a change of a password ends
sessions of its own user alone (`ChangeOK`), and no step gives a session or a code another
owner or revives it. It assumes `NullIsNoRow`, part of `AuthAssumption`.
`LedgerAccountsForAll`: every key received is open, notified, a dead letter or dropped; a key
in two of these places recurs or was left unanswered; the log holds each key once; no settled
key is opened again unless it recurs. All three invariants are inductive as they stand.

**Only model-checked.** Every safety property of a passing run is proved, and so are the
five refinements. The liveness properties `EventuallyOut`, `ChannelsDrain` and `LoadingEnds`
stay with TLC: TLAPS has no support for fairness and ENABLED. What is proved of them are
the variants above; that a step of the fair action is possible while something is left to
do, and that it is taken, is TLC's part. Findings are counterexamples and need no proof.

## 7. What the runs found

Each is a run that TLC must find violated; the quotations are in `PROJECT.json`.

| Run | The code | The text |
|---|---|---|
| `lost_grade` | Two submissions read the attempt in progress; one commits, a teacher grades, the other commits: status back to submitted, `manual_score` NULL. | `submit_attempt.go:45` refuses a second submission; `ARCHITECTURE.md:314` sees no need for stronger isolation |
| `stale_gradebook` | A gradebook read before a grade is cached after that grade's eviction, for 60 * 60 s. | `ARCHITECTURE.md:390` "gradebook must reflect new grade", line 391 a TTL of 60s |
| `outbox_lost` | A row is marked as soon as the client has buffered the message; a broken connection loses it for good. | `ARCHITECTURE.md:551` "exactly-once preserved" |
| `notified_twice` | A payload without its time gets another key in each replica, and is notified twice with no fault at all. | `ARCHITECTURE.md:346` every payload has `occurred_at`, `:352` duplicates are absorbed |
| `password_reverted` | `UpdateProfile` writes the copy of the whole row back: a password changed in between is undone, and the old one works again. | `update_profile_test.go:67` "only updating locale"; `ARCHITECTURE.md:314` |

Other differences met on the way, without a run of their own: `SubmitAttempt` never
asks the course service, which `ARCHITECTURE.md:161` and `:546` say it does; the schema of
`ARCHITECTURE.md:268` deletes a quiz with its attempts (`ON DELETE CASCADE`), where
`migrations/000003_create_attempts.up.sql:3` has a plain `REFERENCES`, so that the database
keeps the attempts and refuses the deletion (`AttemptsNeverLost`, `AttemptsHaveQuiz`: the properties follow the
migration); `port/session_repository.go:18` "revokes every session for userID (used after
password reset)" is not so of a session that a login or a refresh inserts between the UPDATE
of `sessions` (`confirm_password_reset.go:86`, `change_password.go:70`) and the COMMIT, nor of
one opened later by a request that had checked its credential before; after a
failure between `verify_email.go:51` and `:62` no code can verify the address; `allCorrect`
(`submit_attempt.go:105`) accepts the answer [A, A] where {A, B} is right;
`ARCHITECTURE.md:453` describes a graceful drain that `cmd/notification/main.go:69`
does not wait for; the documented channel of 256 is ten per worker in the code; the
limiter that calls itself sliding-window (`ratelimit.go:27`) counts a fixed window.
`ARCHITECTURE.md:386` wants a created course to show up at once: it does not if a list that
read before the insert fills the copy after the eviction (`list_courses.go:54`; for a
minute, for everybody), or if the answer of an older list is applied after that of the reload
(`courses/page.tsx:21`; until the page is visited again). TLC shows either as soon as `raced`
or `late` is taken out of `CreatedIsShown`.
In the web client: the refresh of an expired token that `ARCHITECTURE.md:490` describes is
not there; a registration succeeds at the server and is reported as failed, for its answer
has neither user nor tokens; every material that is posted, and every removal of a student,
is refused by the server, since the client leaves out a field it requires; the page of the
grades reads `grades` where the gradebook answers `entries`.

## 8. What is abstracted, and what is not modelled

- A quiz is its owner, course and title, the latter for the columns `UpdateQuiz`
  writes; questions never change after `CreateQuiz`, so an answer sheet has one score.
- UUIDs are used once. Pagination keys of the quiz list are abstracted: a list fill
  may cache any set of quizzes, and no property is about it yet.
- A POST is one step at the gateway or a late request; no two receptions get the same
  nanosecond; the log of the gateway is not cut at its 200 entries; its failure rate
  is a choice at each request.
- The broker's connection handling is external and modelled from the options the code
  sets. Messages to a subscriber that is not connected are gone (plain NATS).
- Tokens and codes do not expire in `AuthSessions`: expiry only refuses requests, and any
  request may end at any statement. Profile columns are not told apart.
- Read-only handlers, formatting, CSV, logging, tracing and metrics are left out.
- In `WebPages` a course or a week is the text it was created with, and one course is
  opened; what the page shows beside its list (other lists of the page, titles, counts) is
  left out. A tab is signed in throughout: `WebPages` is not composed with `WebSession`.
- Time is in no model: TTLs, timeouts and backoffs are steps that may happen.

Not modelled: the HTTP gateway (it translates requests and keeps no state); of the web
client, the buttons beside the rows of lists that are empty in every state the program can
be in, because the calls that fill them are stubs of an earlier version of the services
(`lib/api.ts:271` on): enrolling students and groups, attendance, roles, statuses of users,
submissions of assignments; further pages of a list (the client only asks for the first);
state that stays within a page (tabs, drafts, the theme, translations); protobuf messages and generated code, deployment and
SRE material (configuration; its replica counts are the `Relays` and `Replicas` of the
models). The mailer is one step (`Mail`) that may fail; the broker behind the events of
the auth service is left out, since they are published once and best-effort. The courses,
sections and materials of the course service beyond the lists of `CourseLists`, the rate
limiter and the grading algorithm are planned below.

## 9. Plan

Ordered by what the system has to lose; the first five are built.

1. `AssessmentData`, `AssessmentLedger`, `Assessment`, refinement and proofs. **Done.**
2. `OutboxRelay` and its proofs. **Done.**
3. `Notification` and its proofs. **Done.**
4. `AuthSessions`, `Accounts` and their proofs. **Done.** (`EventDelivery` and
   `NotificationLedger` are the same for 2 and 3.)
5. `WebSession` with `BrowserLogin`, `WebPages` with `CourseLists`, and their proofs.
   **Done.** Left: `WebPages` over `WebSession`, so that a tab may lose its account while a
   page loads.
6. `Course`: updates, deletions and enrolments beside `CourseLists`. Properties: one live
   enrolment per pair, a whole-row update never undone; composed with `Assessment` through
   `enrolled`.
7. `AutoGrade`: `autoGrade` and `allCorrect` as functions against a reference
   definition on all small sheets, to replace the constant `AutoScore`.
8. `RateLimit`: INCR and EXPIRE as two commands, failing open; a window that never ends.
9. `Pipeline`: `OutboxRelay` and `Notification` composed, the end-to-end promise from a
   committed event to its notification as an abstract specification, above `EventDelivery`
   and `NotificationLedger`.
10. Proofs of the invariants of 6.

Every module has one passing run, with its liveness properties in it, except `Assessment`
with its two workloads.
