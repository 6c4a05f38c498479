------------------------------ MODULE Assessment ------------------------------
(***************************************************************************)
(* services/assessment: the twelve RPC handlers of the assessment service, *)
(* run concurrently by gRPC over one Postgres database and one Redis       *)
(* cache.  Every handler is a goroutine that performs a few statements,    *)
(* each of which is one step here; between two of them any other handler   *)
(* may run.  The writing handlers read the row they are about to change    *)
(* outside the transaction, decide on that copy, and write the copy back   *)
(* inside it; what they hold meanwhile is req[h].                          *)
(*                                                                         *)
(* GetAttempt, ListAttempts and the parts of the other handlers that only  *)
(* read and answer change nothing and are no steps.  ExportGrades is       *)
(* GetGradebook followed by formatting, and shares its steps.              *)
(***************************************************************************)
EXTENDS AssessmentData

CONSTANTS Handlers,     \* goroutines serving requests
          Workload,     \* the operations requested in this instance
          MaxEvents     \* bound: no commit makes the outbox longer than this

VARIABLES enrolled,     \* course service: set of <<course, student>> pairs
          started,      \* attempts whose attempt.started reached the broker
          quizCache,    \* Redis assessment:quiz:<id>
          listCache,    \* Redis assessment:quizzes:<course>
          gradebook,    \* Redis assessment:gradebook:<course>
          req           \* the request each goroutine is serving

tables == <<quizzes, attempts, outbox>>
caches == <<quizCache, listCache, gradebook>>
vars == <<tables, enrolled, started, caches, req>>

Ledger == INSTANCE AssessmentLedger

Operations == {"CreateQuiz", "GetQuiz", "UpdateQuiz", "DeleteQuiz", "ListQuizzes",
               "StartAttempt", "SubmitAttempt", "GradeSubmission", "GetGradebook",
               "Enroll", "Unenroll", "Expire", "Fail"}

ASSUME InstanceAssumption == Workload \subseteq Operations /\ MaxEvents \in Nat

\* The statement a goroutine performs next.
Steps == {"idle",
          "updateQuiz.tx", "deleteQuiz.check", "deleteQuiz.tx", "quiz.evict",
          "getQuiz.fill", "listQuizzes.fill", "gradebook.fill",
          "start.check", "start.create", "start.publish",
          "submit.quiz", "submit.tx",
          "grade.quiz", "grade.tx", "grade.evict"}

Entry == [score : Scores \union {Null}, status : Statuses]

Book == [Attempts -> Entry \union {Null}]

Page == SUBSET Quizzes

\* An answer on its way into a cache.
View == Book \union Page

Request == [at      : Steps,
            caller  : Teachers \union Students \union {Null},
            course  : Courses \union {Null},
            quiz    : Quizzes \union {Null},
            attempt : Attempts \union {Null},
            quizRow : QuizRow \union {Null},
            row     : AttemptRow \union {Null},
            view    : View \union {Null}]

NoRequest == [at |-> "idle", caller |-> Null, course |-> Null, quiz |-> Null,
              attempt |-> Null, quizRow |-> Null, row |-> Null, view |-> Null]

\* The variables of a handler that its next statement uses are set.
ReadsSetFields(r) ==
    /\ r.at \in {"updateQuiz.tx", "deleteQuiz.check", "deleteQuiz.tx", "quiz.evict",
                "getQuiz.fill", "start.check", "start.create"} => r.quiz \in Quizzes
    /\ r.at \in {"updateQuiz.tx", "getQuiz.fill"} => r.quizRow \in QuizRow
    /\ r.at \in {"start.check", "start.create"} => r.caller \in Students
    /\ r.at \in {"start.check", "start.create", "grade.evict", "listQuizzes.fill",
                "gradebook.fill", "grade.tx"} => r.course \in Courses
    /\ r.at = "listQuizzes.fill" => r.view \in Page
    /\ r.at = "gradebook.fill" => r.view \in Book
    /\ r.at \in {"start.publish", "submit.quiz", "submit.tx", "grade.quiz", "grade.tx"} =>
         r.attempt \in Attempts
    /\ r.at \in {"submit.quiz", "submit.tx", "grade.quiz", "grade.tx"} => r.row \in AttemptRow

TypeOK ==
    /\ TablesOK
    /\ enrolled \subseteq Courses \X Students
    /\ started \subseteq Attempts
    /\ quizCache \in [Quizzes -> QuizRow \union {Null}]
    /\ listCache \in [Courses -> Page \union {Null}]
    /\ gradebook \in [Courses -> Book \union {Null}]
    /\ req \in [Handlers -> Request]
    /\ \A h \in Handlers : ReadsSetFields(req[h])

Init ==
    /\ Ledger!Init
    /\ enrolled = {}
    /\ started = {}
    /\ quizCache = [q \in Quizzes |-> Null]
    /\ listCache = [c \in Courses |-> Null]
    /\ gradebook = [c \in Courses |-> Null]
    /\ req = [h \in Handlers |-> NoRequest]
-------------------------------------------------------------------------------
Idle(h) == req[h].at = "idle"

Begin(h, op) == op \in Workload /\ Idle(h)

Become(h, r) == req' = [req EXCEPT ![h] = r]

Done(h) == Become(h, NoRequest)

\* Mutant: the error of outbox.Insert is swallowed and the transaction commits.
InsertSwallowed(type, id, score) == Len(outbox) < MaxEvents /\ outbox' = outbox

\* outbox.Insert, in the transaction of the step that uses it.
Insert(type, id, score) ==
    /\ Len(outbox) < MaxEvents
    /\ outbox' = Append(outbox, [type |-> type, of |-> id, score |-> score])

\* quizRepository.GetByID, attemptRepository.GetByID: ErrNotFound without a row.
QuizFound(q) == quizzes[q] # Null
AttemptFound(a) == attempts[a] # Null
-------------------------------------------------------------------------------
(***************************************************************************)
(* Quizzes.                                                                *)
(***************************************************************************)

\* Inserts the quiz, its questions and the event in one transaction, having read
\* nothing.  uuid.NewRandom never repeats an id, not even a deleted quiz's.
CreateQuiz(t, c, q, title) ==
    /\ "CreateQuiz" \in Workload
    /\ ~Happened("quiz.created", q)
    /\ quizzes' = [quizzes EXCEPT
                     ![q] = [teacher |-> t, course |-> c, title |-> title]]
    /\ Insert("quiz.created", q, Null)
    /\ UNCHANGED <<attempts, enrolled, started, caches, req>>

\* Reads the quiz, checks its owner and changes the copy.
UpdateQuizRead(h, t, q, title) ==
    /\ Begin(h, "UpdateQuiz")
    /\ QuizFound(q)
    /\ quizzes[q].teacher = t
    /\ Become(h, [NoRequest EXCEPT !.at = "updateQuiz.tx", !.caller = t, !.quiz = q,
                                   !.quizRow = [quizzes[q] EXCEPT !.title = title]])
    /\ UNCHANGED <<tables, enrolled, started, caches>>

\* Mutant: RowsAffected is not looked at.
UpdateUnchecked(q) == TRUE

\* quizRepository.Update turns no row affected into ErrNotFound and a rollback.
UpdateAffects(q) == QuizFound(q)

\* UPDATE quizzes SET title ... WHERE id.
Retitled(q, title) ==
    IF QuizFound(q) THEN [quizzes EXCEPT ![q].title = title] ELSE quizzes

\* The copy is written, in one transaction with the event.
UpdateQuizCommit(h) ==
    /\ req[h].at = "updateQuiz.tx"
    /\ UpdateAffects(req[h].quiz)
    /\ quizzes' = Retitled(req[h].quiz, req[h].quizRow.title)
    /\ Insert("quiz.updated", req[h].quiz, Null)
    /\ Become(h, [NoRequest EXCEPT !.at = "quiz.evict", !.quiz = req[h].quiz])
    /\ UNCHANGED <<attempts, enrolled, started, caches>>

DeleteQuizRead(h, t, q) ==
    /\ Begin(h, "DeleteQuiz")
    /\ QuizFound(q)
    /\ quizzes[q].teacher = t
    /\ Become(h, [NoRequest EXCEPT !.at = "deleteQuiz.check", !.caller = t, !.quiz = q])
    /\ UNCHANGED <<tables, enrolled, started, caches>>

\* ExistsForQuiz, outside the transaction.
DeleteQuizCheck(h) ==
    /\ req[h].at = "deleteQuiz.check"
    /\ Unreferenced(req[h].quiz)
    /\ Become(h, [req[h] EXCEPT !.at = "deleteQuiz.tx"])
    /\ UNCHANGED <<tables, enrolled, started, caches>>

\* Mutant: the foreign key is gone; only ExistsForQuiz guards the quiz.
DeletesAnyway(q) == QuizFound(q)

\* DELETE FROM quizzes: a foreign key violation or no row affected rolls back.
Deletes(q) == QuizFound(q) /\ Unreferenced(q)

\* Mutant: attempts.quiz_id with ON DELETE CASCADE, as in ARCHITECTURE.md:268.
DeleteQuizCascades(h) ==
    /\ req[h].at = "deleteQuiz.tx"
    /\ QuizFound(req[h].quiz)
    /\ quizzes' = [quizzes EXCEPT ![req[h].quiz] = Null]
    /\ attempts' = [a \in Attempts |->
                      IF attempts[a] # Null /\ attempts[a].quiz = req[h].quiz
                      THEN Null ELSE attempts[a]]
    /\ Insert("quiz.deleted", req[h].quiz, Null)
    /\ Done(h)
    /\ UNCHANGED <<enrolled, started, caches>>

DeleteQuizCommit(h) ==
    /\ req[h].at = "deleteQuiz.tx"
    /\ Deletes(req[h].quiz)
    /\ quizzes' = [quizzes EXCEPT ![req[h].quiz] = Null]
    /\ Insert("quiz.deleted", req[h].quiz, Null)
    /\ Become(h, [NoRequest EXCEPT !.at = "quiz.evict", !.quiz = req[h].quiz])
    /\ UNCHANGED <<attempts, enrolled, started, caches>>

\* cache.Delete after the commit; its error is ignored (Fail).
QuizEvict(h) ==
    /\ req[h].at = "quiz.evict"
    /\ quizCache' = [quizCache EXCEPT ![req[h].quiz] = Null]
    /\ Done(h)
    /\ UNCHANGED <<tables, enrolled, started, listCache, gradebook>>

\* After a cache miss (a hit changes nothing) the database is read; the answer is
\* cached in a later step.  By the time of the read the key may be back in Redis,
\* or it was there all along and Redis failed: so no guard on quizCache.
GetQuizRead(h, q) ==
    /\ Begin(h, "GetQuiz")
    /\ QuizFound(q)
    /\ Become(h, [NoRequest EXCEPT !.at = "getQuiz.fill", !.quiz = q,
                                   !.quizRow = quizzes[q]])
    /\ UNCHANGED <<tables, enrolled, started, caches>>

GetQuizFill(h) ==
    /\ req[h].at = "getQuiz.fill"
    /\ quizCache' = [quizCache EXCEPT ![req[h].quiz] = req[h].quizRow]
    /\ Done(h)
    /\ UNCHANGED <<tables, enrolled, started, listCache, gradebook>>

\* Reads a page of the quizzes of the course.  The cache key names the course
\* alone, so that one page is cached for all pages.
ListQuizzesRead(h, c, page) ==
    /\ Begin(h, "ListQuizzes")
    /\ \A q \in page : QuizFound(q) /\ quizzes[q].course = c
    /\ Become(h, [NoRequest EXCEPT !.at = "listQuizzes.fill", !.course = c, !.view = page])
    /\ UNCHANGED <<tables, enrolled, started, caches>>

ListQuizzesFill(h) ==
    /\ req[h].at = "listQuizzes.fill"
    /\ listCache' = [listCache EXCEPT ![req[h].course] = req[h].view]
    /\ Done(h)
    /\ UNCHANGED <<tables, enrolled, started, quizCache, gradebook>>
-------------------------------------------------------------------------------
(***************************************************************************)
(* Attempts.                                                               *)
(***************************************************************************)

StartAttemptRead(h, s, q) ==
    /\ Begin(h, "StartAttempt")
    /\ QuizFound(q)
    /\ Become(h, [NoRequest EXCEPT !.at = "start.check", !.caller = s, !.quiz = q,
                                   !.course = quizzes[q].course])
    /\ UNCHANGED <<tables, enrolled, started, caches>>

\* checker.IsEnrolled: ListEnrollments at the course service.
IsEnrolled(c, s) == <<c, s>> \in enrolled

StartAttemptCheck(h) ==
    /\ req[h].at = "start.check"
    /\ IsEnrolled(req[h].course, req[h].caller)
    /\ Become(h, [req[h] EXCEPT !.at = "start.create"])
    /\ UNCHANGED <<tables, enrolled, started, caches>>

\* Mutant: the foreign key is not checked when an attempt is inserted.
QuizNotNeeded(q) == TRUE

\* INSERT INTO attempts fails if the quiz is gone: its foreign key.
QuizReferable(q) == QuizFound(q)

StartAttemptCreate(h, a) ==
    /\ req[h].at = "start.create"
    /\ attempts[a] = Null
    /\ QuizReferable(req[h].quiz)
    /\ attempts' = [attempts EXCEPT
                      ![a] = [quiz |-> req[h].quiz, student |-> req[h].caller,
                              status |-> "in_progress", answers |-> Null,
                              auto |-> Null, manual |-> Null]]
    /\ Become(h, [NoRequest EXCEPT !.at = "start.publish", !.attempt = a])
    /\ UNCHANGED <<quizzes, outbox, enrolled, started, caches>>

\* Best-effort publish, without the outbox; its error is only logged (Fail).
StartAttemptPublish(h) ==
    /\ req[h].at = "start.publish"
    /\ started' = started \union {req[h].attempt}
    /\ Done(h)
    /\ UNCHANGED <<tables, enrolled, caches>>

\* Reads the attempt outside the transaction, checks owner and status.
SubmitAttemptRead(h, s, a) ==
    /\ Begin(h, "SubmitAttempt")
    /\ AttemptFound(a)
    /\ attempts[a].student = s
    /\ attempts[a].status = "in_progress"
    /\ Become(h, [NoRequest EXCEPT !.at = "submit.quiz", !.caller = s, !.attempt = a,
                                   !.row = attempts[a]])
    /\ UNCHANGED <<tables, enrolled, started, caches>>

\* Mutant: a status the CHECK constraint does not know.
FinishedCopy(row, sheet) ==
    [row EXCEPT !.status = "finished", !.answers = sheet, !.auto = AutoScore[sheet]]

SubmittedCopy(row, sheet) ==
    [row EXCEPT !.status = "submitted", !.answers = sheet, !.auto = AutoScore[sheet]]

\* Reads the quiz and grades the answer sheet into the copy.
SubmitAttemptLoadQuiz(h, sheet) ==
    /\ req[h].at = "submit.quiz"
    /\ QuizFound(req[h].row.quiz)
    /\ Become(h, [req[h] EXCEPT !.at = "submit.tx",
                    !.row = SubmittedCopy(@, sheet)])
    /\ UNCHANGED <<tables, enrolled, started, caches>>

\* Mutant: UPDATE attempts without the status column.
OverwrittenButStatus(row, copy) ==
    [row EXCEPT !.answers = copy.answers, !.auto = copy.auto, !.manual = copy.manual]

\* Mutant: UPDATE attempts without the answers column.
OverwrittenButAnswers(row, copy) ==
    [row EXCEPT !.status = copy.status, !.auto = copy.auto, !.manual = copy.manual]

\* attemptRepository.Update: five columns of the copy replace the row's, whatever
\* the row holds by now (quiz_id and student_id are not written).
Overwritten(row, copy) ==
    [row EXCEPT !.status = copy.status, !.answers = copy.answers,
                !.auto = copy.auto, !.manual = copy.manual]

SubmitAttemptCommit(h) ==
    LET a == req[h].attempt IN
    /\ req[h].at = "submit.tx"
    /\ AttemptFound(a)
    /\ attempts' = [attempts EXCEPT ![a] = Overwritten(@, req[h].row)]
    /\ Insert("attempt.submitted", a, req[h].row.auto)
    /\ Done(h)
    /\ UNCHANGED <<quizzes, enrolled, started, caches>>
-------------------------------------------------------------------------------
(***************************************************************************)
(* Grades.                                                                 *)
(***************************************************************************)

\* Mutant: refuses only what is graded already.
GradableTooEarly(row) == row.status # "graded"

\* GradeSubmission accepts an attempt whose copy says submitted.
Gradable(row) == row.status = "submitted"

GradeSubmissionRead(h, t, a) ==
    /\ Begin(h, "GradeSubmission")
    /\ AttemptFound(a)
    /\ Gradable(attempts[a])
    /\ Become(h, [NoRequest EXCEPT !.at = "grade.quiz", !.caller = t, !.attempt = a,
                                   !.row = attempts[a]])
    /\ UNCHANGED <<tables, enrolled, started, caches>>

\* Mutant: any teacher may grade.
OwnsNothing(t, q) == TRUE

OwnsQuiz(t, q) == quizzes[q].teacher = t

GradeSubmissionLoadQuiz(h, score) ==
    LET q == req[h].row.quiz IN
    /\ req[h].at = "grade.quiz"
    /\ QuizFound(q)
    /\ OwnsQuiz(req[h].caller, q)
    /\ Become(h, [req[h] EXCEPT !.at = "grade.tx", !.course = quizzes[q].course,
                    !.row = [@ EXCEPT !.status = "graded", !.manual = score]])
    /\ UNCHANGED <<tables, enrolled, started, caches>>

GradeSubmissionCommit(h) ==
    LET a == req[h].attempt IN
    /\ req[h].at = "grade.tx"
    /\ AttemptFound(a)
    /\ attempts' = [attempts EXCEPT ![a] = Overwritten(@, req[h].row)]
    /\ Insert("submission.graded", a, req[h].row.manual)
    /\ Become(h, [NoRequest EXCEPT !.at = "grade.evict", !.course = req[h].course])
    /\ UNCHANGED <<quizzes, enrolled, started, caches>>

\* cache.Delete after the commit; its error is ignored (Fail).
GradeSubmissionEvict(h) ==
    /\ req[h].at = "grade.evict"
    /\ gradebook' = [gradebook EXCEPT ![req[h].course] = Null]
    /\ Done(h)
    /\ UNCHANGED <<tables, enrolled, started, quizCache, listCache>>

\* Mutant: the automatic score takes precedence.
ShownAutoFirst(row) == IF row.auto # Null THEN row.auto ELSE row.manual

\* The score a gradebook shows: manual, else automatic, else none (Null; the code
\* writes 0.0).
ShownScore(row) == IF row.manual # Null THEN row.manual ELSE row.auto

\* ListByCourseID joins attempts with the quizzes of the course.
BookOf(c) ==
    [a \in Attempts |->
       IF AttemptFound(a) /\ QuizFound(attempts[a].quiz)
                          /\ quizzes[attempts[a].quiz].course = c
       THEN [score |-> ShownScore(attempts[a]), status |-> attempts[a].status]
       ELSE Null]

GetGradebookRead(h, c) ==
    /\ Begin(h, "GetGradebook")
    /\ Become(h, [NoRequest EXCEPT !.at = "gradebook.fill", !.course = c,
                                   !.view = BookOf(c)])
    /\ UNCHANGED <<tables, enrolled, started, caches>>

GetGradebookFill(h) ==
    /\ req[h].at = "gradebook.fill"
    /\ gradebook' = [gradebook EXCEPT ![req[h].course] = req[h].view]
    /\ Done(h)
    /\ UNCHANGED <<tables, enrolled, started, quizCache, listCache>>
-------------------------------------------------------------------------------
(***************************************************************************)
(* The rest of the system.                                                 *)
(***************************************************************************)

\* The course service changes enrolments at any time.
Enroll(c, s) ==
    /\ "Enroll" \in Workload
    /\ enrolled' = enrolled \union {<<c, s>>}
    /\ UNCHANGED <<tables, started, caches, req>>

Unenroll(c, s) ==
    /\ "Unenroll" \in Workload
    /\ enrolled' = enrolled \ {<<c, s>>}
    /\ UNCHANGED <<tables, started, caches, req>>

\* Redis drops a key when its TTL has run out (or under memory pressure).
Expire ==
    /\ "Expire" \in Workload
    /\ \/ \E q \in Quizzes : /\ quizCache[q] # Null
                             /\ quizCache' = [quizCache EXCEPT ![q] = Null]
                             /\ UNCHANGED <<listCache, gradebook>>
       \/ \E c \in Courses : /\ listCache[c] # Null
                             /\ listCache' = [listCache EXCEPT ![c] = Null]
                             /\ UNCHANGED <<quizCache, gradebook>>
       \/ \E c \in Courses : /\ gradebook[c] # Null
                             /\ gradebook' = [gradebook EXCEPT ![c] = Null]
                             /\ UNCHANGED <<quizCache, listCache>>
    /\ UNCHANGED <<tables, enrolled, started, req>>

\* The next statement of a request fails, is refused by a check, or never runs:
\* an error return, a cancelled context, a lost connection or the crash of the
\* process (which fails every request at once).  A transaction has no effect;
\* an event or an eviction that was still due is lost.
Fail(h) ==
    /\ "Fail" \in Workload
    /\ ~Idle(h)
    /\ Done(h)
    /\ UNCHANGED <<tables, enrolled, started, caches>>

Quiz(h) ==
    \/ \E t \in Teachers, q \in Quizzes :
         \/ \E title \in Titles : UpdateQuizRead(h, t, q, title)
         \/ DeleteQuizRead(h, t, q)
    \/ \E q \in Quizzes : GetQuizRead(h, q)
    \/ \E c \in Courses, page \in Page : ListQuizzesRead(h, c, page)
    \/ UpdateQuizCommit(h) \/ DeleteQuizCheck(h) \/ DeleteQuizCommit(h)
    \/ QuizEvict(h) \/ GetQuizFill(h) \/ ListQuizzesFill(h)

Attempt(h) ==
    \/ \E s \in Students, q \in Quizzes : StartAttemptRead(h, s, q)
    \/ StartAttemptCheck(h)
    \/ \E a \in Attempts : StartAttemptCreate(h, a)
    \/ StartAttemptPublish(h)
    \/ \E s \in Students, a \in Attempts : SubmitAttemptRead(h, s, a)
    \/ \E sheet \in Answers : SubmitAttemptLoadQuiz(h, sheet)
    \/ SubmitAttemptCommit(h)

Grading(h) ==
    \/ \E t \in Teachers, a \in Attempts : GradeSubmissionRead(h, t, a)
    \/ \E score \in Scores : GradeSubmissionLoadQuiz(h, score)
    \/ GradeSubmissionCommit(h) \/ GradeSubmissionEvict(h)
    \/ \E c \in Courses : GetGradebookRead(h, c)
    \/ GetGradebookFill(h)

Next ==
    \/ \E t \in Teachers, c \in Courses, q \in Quizzes, title \in Titles :
         CreateQuiz(t, c, q, title)
    \/ \E h \in Handlers : Quiz(h) \/ Attempt(h) \/ Grading(h) \/ Fail(h)
    \/ \E c \in Courses, s \in Students : Enroll(c, s) \/ Unenroll(c, s)
    \/ Expire

Spec == Init /\ [][Next]_vars
-------------------------------------------------------------------------------
(***************************************************************************)
(* Properties.                                                             *)
(***************************************************************************)

\* The handlers, with their copies, caches and failures, keep the ledger's
\* promise: each of their steps is one atomic change of the ledger or none.
ImplementsLedger == Ledger!Spec

\* No attempt is left without its quiz (delete_quiz.go checks before the
\* transaction, start_attempt.go creates without one).
AttemptsHaveQuiz == Ledger!AttemptsHaveQuiz

\* The row of an attempt and its committed events agree (submit_attempt.go and
\* grade_submission.go write both in one transaction).
EventsMatchStatus == Ledger!EventsMatchStatus

\* No grade event comes before a submission event of the same attempt.
GradedAfterSubmitted == Ledger!GradedAfterSubmitted

\* The scores of a row come from its events and fit its answers, although rows
\* are overwritten whole with copies that may be stale.
ScoresWereAnnounced == Ledger!ScoresWereAnnounced

\* No event of a quiz follows its deletion or precedes its creation.
QuizEventsInOrder == Ledger!QuizEventsInOrder

\* No step loses a started attempt or gives it another quiz or student: the
\* foreign key of migration 000003 refuses to delete a quiz that has one, where
\* the schema of ARCHITECTURE.md:268 would delete its attempts with it.
AttemptsNeverLost == Ledger!AttemptsNeverLost

\* A handler's copy of an attempt may be old but is never wrong: the attempt is
\* still that student's attempt at that quiz, the quiz is still there, the answers
\* in the copy were graded by autoGrade, and those a grade is about to write back
\* were submitted before; whoever is about to write a grade owns the quiz.
Grounded(r) ==
    LET a == r.attempt IN
    /\ r.at \in {"submit.quiz", "submit.tx", "grade.quiz", "grade.tx"} =>
         /\ AttemptFound(a)
         /\ r.row.quiz = attempts[a].quiz
         /\ r.row.student = attempts[a].student
         /\ QuizFound(r.row.quiz)
    /\ r.at \in {"submit.quiz", "submit.tx", "grade.quiz"} => r.row.manual = Null
    /\ r.at = "submit.tx" => r.row.status = "submitted"
    /\ r.at \in {"submit.tx", "grade.quiz", "grade.tx"} =>
         r.row.answers # Null /\ r.row.auto = AutoScore[r.row.answers]
    /\ r.at \in {"grade.quiz", "grade.tx"} =>
         r.row.auto \in Announced("attempt.submitted", a)
    /\ r.at = "grade.tx" =>
         /\ r.row.status = "graded" /\ r.row.manual # Null
         /\ r.caller = quizzes[r.row.quiz].teacher

CopiesAreGrounded == \A h \in Handlers : Grounded(req[h])

\* A manual score enters the database only through a request of the teacher who
\* owns the quiz of the attempt.
OnlyOwnerGrades ==
    [][\A a \in Attempts :
         attempts[a] # Null /\ attempts'[a].manual \notin {attempts[a].manual, Null} =>
           \E h \in Handlers :
             /\ req[h].at = "grade.tx" /\ req[h].attempt = a
             /\ req[h].caller = quizzes[attempts[a].quiz].teacher]_vars

\* A cached gradebook may be old, but every line of it was true: what it shows as
\* graded or submitted was announced as such, with that score.
GradebookShowsAnnouncedScores ==
    \A c \in Courses : gradebook[c] # Null =>
        \A a \in Attempts : gradebook[c][a] # Null =>
            LET line == gradebook[c][a] IN
            CASE line.status = "in_progress" -> line.score = Null
              [] line.status = "submitted"   ->
                   line.score \in Announced("attempt.submitted", a)
              [] line.status = "graded"      ->
                   line.score \in Announced("submission.graded", a)

\* A cached quiz existed, with that owner and in that course, even if it is
\* deleted by now; ownership never changes under a cached copy.
CachedQuizExisted ==
    \A q \in Quizzes : quizCache[q] # Null =>
        /\ Happened("quiz.created", q)
        /\ QuizFound(q) => /\ quizCache[q].teacher = quizzes[q].teacher
                           /\ quizCache[q].course = quizzes[q].course
        /\ ~QuizFound(q) => Happened("quiz.deleted", q)

\* submit_attempt.go:45 refuses an attempt that is already submitted, so that a
\* grade once given is not taken back by a submission.
GradeSurvives ==
    [][\A a \in Attempts :
         attempts[a] # Null /\ attempts[a].status = "graded" =>
           attempts'[a].status = "graded"]_vars

\* ARCHITECTURE.md:390: GradeSubmission invalidates the gradebook, which must
\* reflect the new grade: at rest, no cached line hides a grade.
GradebookReflectsGrades ==
    (\A h \in Handlers : Idle(h)) =>
        \A c \in Courses : gradebook[c] # Null =>
            \A a \in Attempts :
                BookOf(c)[a] # Null /\ BookOf(c)[a].status = "graded" =>
                    gradebook[c][a] = BookOf(c)[a]
=============================================================================
