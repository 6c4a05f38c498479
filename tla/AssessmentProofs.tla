--------------------------- MODULE AssessmentProofs ---------------------------
(***************************************************************************)
(* Proofs about the assessment service: its handlers implement the ledger, *)
(* whatever the numbers of goroutines, quizzes, attempts and events, and   *)
(* therefore keep everything the ledger promises.                          *)
(***************************************************************************)
EXTENDS Assessment, TLAPS

LP == INSTANCE AssessmentLedgerProofs

\* The ledger's invariant, the types of what only the handlers have, and what
\* their copies of rows are worth.
IInv == TypeOK /\ CopiesAreGrounded /\ LP!LedgerInv

LedgerStep == LP!Next \/ UNCHANGED <<quizzes, attempts, outbox>>

LEMMA SameData == LP!DataAssumption
BY DataAssumption DEF LP!DataAssumption, QuizRow, LP!QuizRow, AttemptRow,
   LP!AttemptRow, Statuses, LP!Statuses

LEMMA NullFacts ==
    /\ Null \notin Scores /\ Null \notin Answers /\ Null \notin Attempts
    /\ Null \notin QuizRow /\ Null \notin AttemptRow
    /\ AutoScore \in [Answers -> Scores]
BY DataAssumption

\* The ledger's facts in the words of this module.
LEMMA LedgerFacts ==
    ASSUME LP!LedgerInv
    PROVE  /\ \A a \in Attempts : AttemptFound(a) =>
                /\ attempts[a] \in AttemptRow
                /\ QuizFound(attempts[a].quiz)
                /\ attempts[a].answers = Null <=> attempts[a].status = "in_progress"
                /\ attempts[a].manual # Null <=> attempts[a].status = "graded"
                /\ attempts[a].answers # Null =>
                     /\ attempts[a].auto = AutoScore[attempts[a].answers]
                     /\ attempts[a].auto \in Announced("attempt.submitted", a)
           /\ \A q \in Quizzes : QuizFound(q) => /\ quizzes[q] \in QuizRow
                                                /\ Happened("quiz.created", q)
<1>1. TablesOK
  BY DEF LP!LedgerInv, LP!TablesOK, TablesOK, LP!QuizRow, QuizRow, LP!AttemptRow,
     AttemptRow, LP!Statuses, Statuses, LP!OutboxRow, OutboxRow, LP!QuizEvents, QuizEvents,
     LP!AttemptEvents, AttemptEvents
<1>2. \A t, id : LP!Happened(t, id) = Happened(t, id) /\ LP!Announced(t, id) = Announced(t, id)
  BY DEF LP!Happened, LP!Announced, LP!EventsOf, Happened, Announced, EventsOf
<1>3. ASSUME NEW a \in Attempts, AttemptFound(a)
      PROVE  /\ attempts[a] \in AttemptRow
             /\ QuizFound(attempts[a].quiz)
             /\ attempts[a].answers = Null <=> attempts[a].status = "in_progress"
             /\ attempts[a].manual # Null <=> attempts[a].status = "graded"
             /\ attempts[a].answers # Null =>
                     /\ attempts[a].auto = AutoScore[attempts[a].answers]
                     /\ attempts[a].auto \in Announced("attempt.submitted", a)
  BY <1>1, <1>2, <1>3 DEF LP!LedgerInv, AttemptFound, QuizFound, LP!AttemptsHaveQuiz,
     LP!RowsFitStatus, LP!ScoresWereAnnounced, TablesOK
<1>4. ASSUME NEW q \in Quizzes, QuizFound(q)
      PROVE  quizzes[q] \in QuizRow /\ Happened("quiz.created", q)
  BY <1>1, <1>2, <1>4 DEF LP!LedgerInv, QuizFound, LP!QuizRowMatchesEvents, TablesOK
<1> QED BY <1>3, <1>4

\* A grounded copy stays grounded whatever the other handlers commit.
LEMMA LedgerStepKeepsGrounded ==
    ASSUME IInv, LedgerStep, NEW r \in Request, ReadsSetFields(r), Grounded(r)
    PROVE  Grounded(r)'
<1>1. LP!LedgerInv /\ LP!LedgerInv'
  BY SameData, LP!NextLedgerInv DEF IInv, LedgerStep, LP!vars
<1>2. LP!AttemptsKept /\ LP!OwnersKept /\ LP!NewsKept
  BY <1>1, SameData, LP!StepKeepsAttempts, LP!StepKeepsOwners, LP!StepKeepsNews,
     LP!StutterKeepsAll DEF LedgerStep, LP!vars
<1> DEFINE a == r.attempt
<1>3. CASE r.at \in {"submit.quiz", "submit.tx", "grade.quiz", "grade.tx"}
  <2>1. a \in Attempts /\ AttemptFound(a) /\ r.row \in AttemptRow
    BY <1>3 DEF ReadsSetFields, Grounded
  <2>2. /\ AttemptFound(a)'
        /\ r.row.quiz = attempts'[a].quiz
        /\ r.row.student = attempts'[a].student
    BY <1>2, <1>3, <2>1 DEF Grounded, LP!AttemptsKept, AttemptFound
  <2>3. QuizFound(r.row.quiz)'
    BY <1>1, <2>1, <2>2 DEF LP!LedgerInv, LP!AttemptsHaveQuiz, QuizFound, AttemptFound
  <2>4. r.row.quiz \in Quizzes /\ QuizFound(r.row.quiz)
    BY <1>3, <2>1 DEF AttemptRow, Grounded
  <2>5. quizzes'[r.row.quiz].teacher = quizzes[r.row.quiz].teacher
    BY <1>2, <2>3, <2>4 DEF LP!OwnersKept, QuizFound
  <2>6. Announced("attempt.submitted", a) \subseteq Announced("attempt.submitted", a)'
    BY <1>2 DEF LP!NewsKept, LP!Announced, LP!EventsOf, Announced, EventsOf
  <2> QED BY <1>3, <2>2, <2>3, <2>5, <2>6 DEF Grounded
<1>4. CASE r.at \notin {"submit.quiz", "submit.tx", "grade.quiz", "grade.tx"}
  BY <1>4 DEF Grounded
<1> QED BY <1>3, <1>4

-------------------------------------------------------------------------------
(***************************************************************************)
(* One step of a handler.                                                  *)
(***************************************************************************)

\* The types of what is neither a table nor a request.
RestOK ==
    /\ enrolled \subseteq Courses \X Students
    /\ started \subseteq Attempts
    /\ quizCache \in [Quizzes -> QuizRow \union {Null}]
    /\ listCache \in [Courses -> Page \union {Null}]
    /\ gradebook \in [Courses -> Book \union {Null}]

\* The steps at which a handler holds a copy of an attempt.
Copying == {"submit.quiz", "submit.tx", "grade.quiz", "grade.tx"}

LEMMA LedgerStepKeepsTables ==
    ASSUME IInv, LedgerStep
    PROVE  LP!LedgerInv' /\ TablesOK'
<1>1. LP!LedgerInv'
  BY SameData, LP!NextLedgerInv DEF IInv, LedgerStep, LP!vars
<1> QED
  BY <1>1 DEF LP!LedgerInv, LP!TablesOK, TablesOK, LP!QuizRow, QuizRow, LP!AttemptRow,
     AttemptRow, LP!Statuses, Statuses, LP!OutboxRow, OutboxRow, LP!QuizEvents, QuizEvents,
     LP!AttemptEvents, AttemptEvents

\* No handler moves.
LEMMA StayKeepsIInv ==
    ASSUME IInv, LedgerStep, UNCHANGED req, RestOK'
    PROVE  IInv'
<1>1. TypeOK'
  BY LedgerStepKeepsTables DEF IInv, TypeOK, RestOK
<1>2. ASSUME NEW k \in Handlers PROVE Grounded(req[k])'
  <2>1. PICK r \in Request : r = req[k] /\ ReadsSetFields(r) /\ Grounded(r)
    BY DEF IInv, TypeOK, CopiesAreGrounded
  <2>2. Grounded(r)'
    BY <2>1, LedgerStepKeepsGrounded
  <2>3. req'[k] = r
    BY <2>1
  <2> QED BY <2>2, <2>3 DEF Grounded
<1> QED BY <1>1, <1>2, LedgerStepKeepsTables DEF IInv, CopiesAreGrounded

\* One handler moves and holds r afterwards.
LEMMA MoveKeepsIInv ==
    ASSUME IInv, LedgerStep, RestOK', NEW h \in Handlers, NEW r \in Request,
           Become(h, r), ReadsSetFields(r), Grounded(r)'
    PROVE  IInv'
<1>1. /\ req' \in [Handlers -> Request]
      /\ req'[h] = r
      /\ \A k \in Handlers : k # h => req'[k] = req[k]
  BY DEF Become, IInv, TypeOK
<1>2. TypeOK'
  BY <1>1, LedgerStepKeepsTables DEF IInv, TypeOK, RestOK
<1>3. ASSUME NEW k \in Handlers PROVE Grounded(req[k])'
  <2>1. CASE k = h
    BY <1>1, <2>1 DEF Grounded
  <2>2. CASE k # h
    <3>1. PICK s \in Request : s = req[k] /\ ReadsSetFields(s) /\ Grounded(s)
      BY DEF IInv, TypeOK, CopiesAreGrounded
    <3>2. Grounded(s)'
      BY <3>1, LedgerStepKeepsGrounded
    <3>3. req'[k] = s
      BY <1>1, <2>2, <3>1
    <3> QED BY <3>2, <3>3 DEF Grounded
  <2> QED BY <2>1, <2>2
<1> QED BY <1>2, <1>3, LedgerStepKeepsTables DEF IInv, CopiesAreGrounded

\* A request that holds no copy of an attempt has nothing to be grounded.
LEMMA NothingToGround ==
    ASSUME NEW r, r.at \notin Copying PROVE Grounded(r)'
BY DEF Copying, Grounded

LEMMA Finished == NoRequest \in Request /\ ReadsSetFields(NoRequest)
BY DEF NoRequest, Request, Steps, ReadsSetFields

\* A request ends.
LEMMA DoneKeepsIInv ==
    ASSUME IInv, LedgerStep, RestOK', NEW h \in Handlers, Done(h)
    PROVE  IInv'
<1>1. PICK r \in Request : r = NoRequest /\ ReadsSetFields(r)
  BY Finished
<1>2. Grounded(r)'
  BY <1>1, NothingToGround DEF Copying, NoRequest
<1>3. Become(h, r)
  BY <1>1 DEF Done, Become
<1> QED BY <1>1, <1>2, <1>3, MoveKeepsIInv

LEMMA QuietFrame ==
    ASSUME IInv, UNCHANGED <<tables, enrolled, started, caches>>
    PROVE  LedgerStep /\ RestOK'
BY DEF IInv, TypeOK, LedgerStep, tables, caches, RestOK

\* A step that only reads: the goroutine changes what it holds to r, in which no
\* copy of an attempt is.
LEMMA ReadKeepsIInv ==
    ASSUME IInv, UNCHANGED <<tables, enrolled, started, caches>>,
           NEW h \in Handlers, NEW r \in Request, Become(h, r),
           ReadsSetFields(r), r.at \notin Copying
    PROVE  IInv'
<1>1. Grounded(r)'
  BY NothingToGround
<1> QED BY <1>1, QuietFrame, MoveKeepsIInv

LEMMA QuizReads ==
    ASSUME IInv, NEW h \in Handlers,
           \/ \E t \in Teachers, q \in Quizzes :
                \/ \E title \in Titles : UpdateQuizRead(h, t, q, title)
                \/ DeleteQuizRead(h, t, q)
           \/ \E q \in Quizzes : GetQuizRead(h, q)
           \/ \E c \in Courses, page \in Page : ListQuizzesRead(h, c, page)
           \/ DeleteQuizCheck(h)
    PROVE  IInv'
<1> USE DEF Copying, Steps
<1>1. ASSUME NEW t \in Teachers, NEW q \in Quizzes, NEW title \in Titles,
             UpdateQuizRead(h, t, q, title)
      PROVE  IInv'
  <2>1. quizzes[q] \in QuizRow
    BY <1>1, LedgerFacts DEF UpdateQuizRead, IInv
  <2>2. PICK row : row = [quizzes[q] EXCEPT !.title = title]
    OBVIOUS
  <2>3. row \in QuizRow
    BY <2>1, <2>2 DEF QuizRow
  <2>4. PICK r : r = [NoRequest EXCEPT !.at = "updateQuiz.tx", !.caller = t, !.quiz = q,
                                       !.quizRow = row]
    OBVIOUS
  <2>5. r \in Request /\ ReadsSetFields(r) /\ r.at \notin Copying
    BY <2>3, <2>4 DEF NoRequest, Request, ReadsSetFields
  <2>6. Become(h, r)
    BY <1>1, <2>2, <2>4 DEF UpdateQuizRead, Become
  <2> QED BY <1>1, <2>5, <2>6, ReadKeepsIInv DEF UpdateQuizRead
<1>2. ASSUME NEW t \in Teachers, NEW q \in Quizzes, DeleteQuizRead(h, t, q)
      PROVE  IInv'
  <2>1. PICK r : r = [NoRequest EXCEPT !.at = "deleteQuiz.check", !.caller = t, !.quiz = q]
    OBVIOUS
  <2>2. r \in Request /\ ReadsSetFields(r) /\ r.at \notin Copying
    BY <2>1 DEF NoRequest, Request, ReadsSetFields
  <2>3. Become(h, r)
    BY <1>2, <2>1 DEF DeleteQuizRead, Become
  <2> QED BY <1>2, <2>2, <2>3, ReadKeepsIInv DEF DeleteQuizRead
<1>3. CASE DeleteQuizCheck(h)
  <2>1. PICK r : r = [req[h] EXCEPT !.at = "deleteQuiz.tx"]
    OBVIOUS
  <2>2. req[h] \in Request /\ req[h].quiz \in Quizzes
    BY <1>3 DEF DeleteQuizCheck, IInv, TypeOK, ReadsSetFields
  <2>3. r \in Request /\ ReadsSetFields(r) /\ r.at \notin Copying
    BY <2>1, <2>2 DEF Request, ReadsSetFields
  <2>4. Become(h, r)
    BY <1>3, <2>1 DEF DeleteQuizCheck, Become
  <2> QED BY <1>3, <2>3, <2>4, ReadKeepsIInv DEF DeleteQuizCheck
<1>4. ASSUME NEW q \in Quizzes, GetQuizRead(h, q)
      PROVE  IInv'
  <2>1. quizzes[q] \in QuizRow
    BY <1>4, LedgerFacts DEF GetQuizRead, IInv
  <2>2. PICK r : r = [NoRequest EXCEPT !.at = "getQuiz.fill", !.quiz = q,
                                       !.quizRow = quizzes[q]]
    OBVIOUS
  <2>3. r \in Request /\ ReadsSetFields(r) /\ r.at \notin Copying
    BY <2>1, <2>2 DEF NoRequest, Request, ReadsSetFields
  <2>4. Become(h, r)
    BY <1>4, <2>2 DEF GetQuizRead, Become
  <2> QED BY <1>4, <2>3, <2>4, ReadKeepsIInv DEF GetQuizRead
<1>5. ASSUME NEW c \in Courses, NEW page \in Page, ListQuizzesRead(h, c, page)
      PROVE  IInv'
  <2>1. page \in View
    BY DEF View
  <2>2. PICK r : r = [NoRequest EXCEPT !.at = "listQuizzes.fill", !.course = c,
                                       !.view = page]
    OBVIOUS
  <2>3. r \in Request /\ ReadsSetFields(r) /\ r.at \notin Copying
    BY <2>1, <2>2 DEF NoRequest, Request, ReadsSetFields
  <2>4. Become(h, r)
    BY <1>5, <2>2 DEF ListQuizzesRead, Become
  <2> QED BY <1>5, <2>3, <2>4, ReadKeepsIInv DEF ListQuizzesRead
<1> QED BY <1>1, <1>2, <1>3, <1>4, <1>5

LEMMA AttemptReads ==
    ASSUME IInv, NEW h \in Handlers,
           \/ \E s \in Students, q \in Quizzes : StartAttemptRead(h, s, q)
           \/ StartAttemptCheck(h)
           \/ \E s \in Students, a \in Attempts : SubmitAttemptRead(h, s, a)
           \/ \E sheet \in Answers : SubmitAttemptLoadQuiz(h, sheet)
    PROVE  IInv'
<1> USE NullFacts DEF Copying, Steps
<1>1. ASSUME NEW s \in Students, NEW q \in Quizzes, StartAttemptRead(h, s, q)
      PROVE  IInv'
  <2>1. quizzes[q].course \in Courses
    BY <1>1, LedgerFacts DEF StartAttemptRead, IInv, QuizRow
  <2>2. PICK r : r = [NoRequest EXCEPT !.at = "start.check", !.caller = s, !.quiz = q,
                                       !.course = quizzes[q].course]
    OBVIOUS
  <2>3. r \in Request /\ ReadsSetFields(r) /\ r.at \notin Copying
    BY <2>1, <2>2 DEF NoRequest, Request, ReadsSetFields
  <2>4. Become(h, r)
    BY <1>1, <2>2 DEF StartAttemptRead, Become
  <2> QED BY <1>1, <2>3, <2>4, ReadKeepsIInv DEF StartAttemptRead
<1>2. CASE StartAttemptCheck(h)
  <2>1. PICK r : r = [req[h] EXCEPT !.at = "start.create"]
    OBVIOUS
  <2>2. /\ req[h] \in Request /\ req[h].quiz \in Quizzes
        /\ req[h].caller \in Students /\ req[h].course \in Courses
    BY <1>2 DEF StartAttemptCheck, IInv, TypeOK, ReadsSetFields
  <2>3. r \in Request /\ ReadsSetFields(r) /\ r.at \notin Copying
    BY <2>1, <2>2 DEF Request, ReadsSetFields
  <2>4. Become(h, r)
    BY <1>2, <2>1 DEF StartAttemptCheck, Become
  <2> QED BY <1>2, <2>3, <2>4, ReadKeepsIInv DEF StartAttemptCheck
<1>3. ASSUME NEW s \in Students, NEW a \in Attempts, SubmitAttemptRead(h, s, a)
      PROVE  IInv'
  <2>1. /\ AttemptFound(a) /\ attempts[a] \in AttemptRow
        /\ QuizFound(attempts[a].quiz)
        /\ attempts[a].manual = Null
    BY <1>3, LedgerFacts DEF SubmitAttemptRead, IInv
  <2>2. PICK r : r = [NoRequest EXCEPT !.at = "submit.quiz", !.caller = s, !.attempt = a,
                                       !.row = attempts[a]]
    OBVIOUS
  <2>3. /\ r.at = "submit.quiz" /\ r.attempt = a /\ r.row = attempts[a]
        /\ r \in Request
    BY <2>1, <2>2 DEF NoRequest, Request
  <2>4. ReadsSetFields(r) /\ Grounded(r)
    BY <2>1, <2>3 DEF ReadsSetFields, Grounded
  <2>5. LedgerStep /\ RestOK' /\ Become(h, r)
    BY <1>3, <2>2, QuietFrame DEF SubmitAttemptRead, Become
  <2> QED BY <2>3, <2>4, <2>5, LedgerStepKeepsGrounded, MoveKeepsIInv
<1>4. ASSUME NEW sheet \in Answers, SubmitAttemptLoadQuiz(h, sheet)
      PROVE  IInv'
  <2> DEFINE old == req[h]
  <2>1. /\ old \in Request /\ old.at = "submit.quiz" /\ old.row \in AttemptRow
        /\ old.attempt \in Attempts /\ Grounded(old)
    BY <1>4 DEF SubmitAttemptLoadQuiz, IInv, TypeOK, ReadsSetFields, CopiesAreGrounded
  <2>2. PICK row : row = SubmittedCopy(old.row, sheet)
    OBVIOUS
  <2>3. /\ row \in AttemptRow /\ row.status = "submitted"
        /\ row.quiz = old.row.quiz /\ row.student = old.row.student
        /\ row.answers = sheet /\ row.auto = AutoScore[sheet]
        /\ row.manual = old.row.manual
    <3>1. AutoScore[sheet] \in Scores
      OBVIOUS
    <3> QED BY <2>1, <2>2, <3>1 DEF SubmittedCopy, AttemptRow, Statuses
  <2>4. PICK r : r = [old EXCEPT !.at = "submit.tx", !.row = row]
    OBVIOUS
  <2>5. /\ r \in Request /\ r.at = "submit.tx" /\ r.row = row
        /\ r.attempt = old.attempt
    BY <2>1, <2>3, <2>4 DEF Request
  <2>6. ReadsSetFields(r)
    BY <2>1, <2>3, <2>5 DEF ReadsSetFields
  <2>7. Grounded(r)
    BY <2>1, <2>3, <2>5 DEF Grounded
  <2>8. LedgerStep /\ RestOK' /\ Become(h, r)
    BY <1>4, <2>1, <2>2, <2>4, QuietFrame DEF SubmitAttemptLoadQuiz, Become, Request
  <2> QED BY <2>5, <2>6, <2>7, <2>8, LedgerStepKeepsGrounded, MoveKeepsIInv
<1> QED BY <1>1, <1>2, <1>3, <1>4

LEMMA GradingReads ==
    ASSUME IInv, NEW h \in Handlers,
           \/ \E t \in Teachers, a \in Attempts : GradeSubmissionRead(h, t, a)
           \/ \E score \in Scores : GradeSubmissionLoadQuiz(h, score)
           \/ \E c \in Courses : GetGradebookRead(h, c)
    PROVE  IInv'
<1> USE NullFacts DEF Copying, Steps
<1>1. ASSUME NEW t \in Teachers, NEW a \in Attempts, GradeSubmissionRead(h, t, a)
      PROVE  IInv'
  <2>1. /\ AttemptFound(a) /\ attempts[a] \in AttemptRow
        /\ QuizFound(attempts[a].quiz)
        /\ attempts[a].manual = Null /\ attempts[a].answers # Null
        /\ attempts[a].auto = AutoScore[attempts[a].answers]
        /\ attempts[a].auto \in Announced("attempt.submitted", a)
    BY <1>1, LedgerFacts DEF GradeSubmissionRead, Gradable, IInv
  <2>2. PICK r : r = [NoRequest EXCEPT !.at = "grade.quiz", !.caller = t, !.attempt = a,
                                       !.row = attempts[a]]
    OBVIOUS
  <2>3. /\ r.at = "grade.quiz" /\ r.attempt = a /\ r.row = attempts[a]
        /\ r \in Request
    BY <2>1, <2>2 DEF NoRequest, Request
  <2>4. ReadsSetFields(r) /\ Grounded(r)
    BY <2>1, <2>3 DEF ReadsSetFields, Grounded
  <2>5. LedgerStep /\ RestOK' /\ Become(h, r)
    BY <1>1, <2>2, QuietFrame DEF GradeSubmissionRead, Become
  <2> QED BY <2>3, <2>4, <2>5, LedgerStepKeepsGrounded, MoveKeepsIInv
<1>2. ASSUME NEW score \in Scores, GradeSubmissionLoadQuiz(h, score)
      PROVE  IInv'
  <2> DEFINE old == req[h]
             q == old.row.quiz
  <2>1. /\ old \in Request /\ old.at = "grade.quiz" /\ old.row \in AttemptRow
        /\ old.attempt \in Attempts /\ Grounded(old)
    BY <1>2 DEF GradeSubmissionLoadQuiz, IInv, TypeOK, ReadsSetFields, CopiesAreGrounded
  <2>2. /\ q \in Quizzes /\ quizzes[q].course \in Courses
        /\ quizzes[q].teacher = old.caller
    BY <1>2, <2>1, LedgerFacts DEF GradeSubmissionLoadQuiz, IInv, AttemptRow, QuizRow, OwnsQuiz
  <2>3. PICK row : row = [old.row EXCEPT !.status = "graded", !.manual = score]
    OBVIOUS
  <2>4. /\ row \in AttemptRow /\ row.status = "graded" /\ row.manual = score
        /\ row.quiz = q /\ row.student = old.row.student
        /\ row.answers = old.row.answers /\ row.auto = old.row.auto
    BY <2>1, <2>3 DEF AttemptRow, Statuses
  <2>5. PICK r : r = [old EXCEPT !.at = "grade.tx", !.course = quizzes[q].course, !.row = row]
    OBVIOUS
  <2>6. /\ r \in Request /\ r.at = "grade.tx" /\ r.row = row
        /\ r.attempt = old.attempt /\ r.caller = old.caller /\ r.course \in Courses
    BY <2>1, <2>2, <2>4, <2>5 DEF Request
  <2>7. ReadsSetFields(r)
    BY <2>1, <2>4, <2>6 DEF ReadsSetFields
  <2>8. Grounded(r)
    BY <2>1, <2>2, <2>4, <2>6 DEF Grounded
  <2>9. LedgerStep /\ RestOK' /\ Become(h, r)
    BY <1>2, <2>1, <2>3, <2>5, QuietFrame DEF GradeSubmissionLoadQuiz, Become, Request
  <2> QED BY <2>6, <2>7, <2>8, <2>9, LedgerStepKeepsGrounded, MoveKeepsIInv
<1>3. ASSUME NEW c \in Courses, GetGradebookRead(h, c)
      PROVE  IInv'
  <2>1. PICK book : book = BookOf(c)
    OBVIOUS
  <2>2. ASSUME NEW b \in Attempts, AttemptFound(b)
        PROVE  [score |-> ShownScore(attempts[b]), status |-> attempts[b].status] \in Entry
    BY <2>2, LedgerFacts DEF IInv, AttemptRow, ShownScore, Entry
  <2>3. book \in Book
    BY <2>1, <2>2 DEF BookOf, Book
  <2>4. book \in View
    BY <2>3 DEF View
  <2>5. PICK r : r = [NoRequest EXCEPT !.at = "gradebook.fill", !.course = c, !.view = book]
    OBVIOUS
  <2>6. r \in Request /\ ReadsSetFields(r) /\ r.at \notin Copying
    BY <2>3, <2>4, <2>5 DEF NoRequest, Request, ReadsSetFields
  <2>7. Become(h, r)
    BY <1>3, <2>1, <2>5 DEF GetGradebookRead, Become
  <2> QED BY <1>3, <2>6, <2>7, ReadKeepsIInv DEF GetGradebookRead
<1> QED BY <1>1, <1>2, <1>3

\* What the caches and the world outside change.
LEMMA CacheSteps ==
    ASSUME IInv, NEW h \in Handlers,
           \/ QuizEvict(h) \/ GetQuizFill(h) \/ ListQuizzesFill(h) \/ StartAttemptPublish(h)
           \/ GradeSubmissionEvict(h) \/ GetGradebookFill(h) \/ Fail(h)
    PROVE  IInv'
<1>1. LedgerStep /\ Done(h)
  BY DEF LedgerStep, tables, caches, QuizEvict, GetQuizFill, ListQuizzesFill,
     StartAttemptPublish, GradeSubmissionEvict, GetGradebookFill, Fail
<1>2. RestOK
  BY DEF IInv, TypeOK, RestOK
<1>3. ReadsSetFields(req[h])
  BY DEF IInv, TypeOK
<1>4. RestOK'
  <2>1. CASE QuizEvict(h)
    BY <1>2, <1>3, <2>1 DEF QuizEvict, RestOK, ReadsSetFields
  <2>2. CASE GetQuizFill(h)
    BY <1>2, <1>3, <2>2 DEF GetQuizFill, RestOK, ReadsSetFields
  <2>3. CASE ListQuizzesFill(h)
    BY <1>2, <1>3, <2>3 DEF ListQuizzesFill, RestOK, ReadsSetFields
  <2>4. CASE StartAttemptPublish(h)
    BY <1>2, <1>3, <2>4 DEF StartAttemptPublish, RestOK, ReadsSetFields, caches
  <2>5. CASE GradeSubmissionEvict(h)
    BY <1>2, <1>3, <2>5 DEF GradeSubmissionEvict, RestOK, ReadsSetFields
  <2>6. CASE GetGradebookFill(h)
    BY <1>2, <1>3, <2>6 DEF GetGradebookFill, RestOK, ReadsSetFields
  <2>7. CASE Fail(h)
    BY <1>2, <2>7 DEF Fail, RestOK, caches
  <2> QED BY <2>1, <2>2, <2>3, <2>4, <2>5, <2>6, <2>7
<1> QED BY <1>1, <1>4, DoneKeepsIInv

LEMMA WorldSteps ==
    ASSUME IInv,
           \/ \E c \in Courses, s \in Students : Enroll(c, s) \/ Unenroll(c, s)
           \/ Expire
    PROVE  IInv'
<1>1. LedgerStep /\ UNCHANGED req
  BY DEF LedgerStep, tables, Enroll, Unenroll, Expire
<1>2. RestOK
  BY DEF IInv, TypeOK, RestOK
<1>3. RestOK'
  <2>1. ASSUME NEW c \in Courses, NEW s \in Students, Enroll(c, s)
        PROVE  RestOK'
    BY <1>2, <2>1 DEF Enroll, RestOK, caches
  <2>2. ASSUME NEW c \in Courses, NEW s \in Students, Unenroll(c, s)
        PROVE  RestOK'
    BY <1>2, <2>2 DEF Unenroll, RestOK, caches
  <2>3. CASE Expire
    <3>1. quizCache' \in [Quizzes -> QuizRow \union {Null}]
      BY <1>2, <2>3 DEF Expire, RestOK
    <3>2. listCache' \in [Courses -> Page \union {Null}]
      BY <1>2, <2>3 DEF Expire, RestOK
    <3>3. gradebook' \in [Courses -> Book \union {Null}]
      BY <1>2, <2>3 DEF Expire, RestOK
    <3> QED BY <1>2, <2>3, <3>1, <3>2, <3>3 DEF Expire, RestOK
  <2> QED BY <2>1, <2>2, <2>3
<1> QED BY <1>1, <1>3, StayKeepsIInv

-------------------------------------------------------------------------------
(***************************************************************************)
(* The six steps that change the tables: each is a step of the ledger.     *)
(***************************************************************************)

LEMMA QuizWritesImplement ==
    ASSUME IInv,
           \/ \E t \in Teachers, c \in Courses, q \in Quizzes, title \in Titles :
                CreateQuiz(t, c, q, title)
           \/ \E h \in Handlers : UpdateQuizCommit(h) \/ DeleteQuizCommit(h)
    PROVE  LP!Next
<1>1. ASSUME NEW t \in Teachers, NEW c \in Courses, NEW q \in Quizzes, NEW title \in Titles,
             CreateQuiz(t, c, q, title)
      PROVE  LP!Next
  <2>1. [teacher |-> t, course |-> c, title |-> title] \in LP!QuizRow
    BY DEF LP!QuizRow
  <2>2. quizzes[q] = Null /\ ~LP!Happened("quiz.created", q)
    BY <1>1, LedgerFacts DEF CreateQuiz, IInv, QuizFound, LP!Happened, LP!EventsOf,
       Happened, EventsOf
  <2>3. LP!CreateQuiz(q, [teacher |-> t, course |-> c, title |-> title])
    BY <1>1, <2>2 DEF CreateQuiz, LP!CreateQuiz, Insert, LP!Append1
  <2> QED BY <2>1, <2>3 DEF LP!Next
<1>2. ASSUME NEW h \in Handlers, UpdateQuizCommit(h)
      PROVE  LP!Next
  <2> DEFINE p == req[h].quiz
             new == req[h].quizRow.title
  <2>1. p \in Quizzes /\ new \in Titles /\ QuizFound(p)
    BY <1>2 DEF UpdateQuizCommit, UpdateAffects, IInv, TypeOK, ReadsSetFields, QuizRow
  <2>2. LP!UpdateQuiz(p, new)
    BY <1>2, <2>1 DEF UpdateQuizCommit, Retitled, QuizFound, Insert, LP!UpdateQuiz, LP!Append1
  <2> QED BY <2>1, <2>2 DEF LP!Next
<1>3. ASSUME NEW h \in Handlers, DeleteQuizCommit(h)
      PROVE  LP!Next
  <2> DEFINE p == req[h].quiz
  <2>1. p \in Quizzes
    BY <1>3 DEF DeleteQuizCommit, IInv, TypeOK, ReadsSetFields
  <2>2. LP!DeleteQuiz(p)
    BY <1>3, <2>1 DEF DeleteQuizCommit, Deletes, QuizFound, Insert, Unreferenced,
       LP!DeleteQuiz, LP!Append1, LP!Unreferenced
  <2> QED BY <2>1, <2>2 DEF LP!Next
<1> QED BY <1>1, <1>2, <1>3

LEMMA AttemptWritesImplement ==
    ASSUME IInv, NEW h \in Handlers,
           \/ \E a \in Attempts : StartAttemptCreate(h, a)
           \/ SubmitAttemptCommit(h) \/ GradeSubmissionCommit(h)
    PROVE  LP!Next
<1> USE NullFacts
<1>1. ASSUME NEW a \in Attempts, StartAttemptCreate(h, a)
      PROVE  LP!Next
  <2>1. req[h].quiz \in Quizzes /\ req[h].caller \in Students
    BY <1>1 DEF StartAttemptCreate, IInv, TypeOK, ReadsSetFields
  <2>2. LP!StartAttempt(a, req[h].quiz, req[h].caller)
    BY <1>1 DEF StartAttemptCreate, QuizReferable, QuizFound, LP!StartAttempt
  <2> QED BY <2>1, <2>2 DEF LP!Next
<1> DEFINE old == req[h]
           b == old.attempt
<1>2. ASSUME old.at \in {"submit.tx", "grade.tx"}
      PROVE  /\ b \in Attempts /\ AttemptFound(b) /\ old.row \in AttemptRow
             /\ old.row.answers \in Answers
             /\ old.row.auto = AutoScore[old.row.answers]
  BY <1>2 DEF IInv, TypeOK, ReadsSetFields, CopiesAreGrounded, Grounded, AttemptRow
<1>3. CASE SubmitAttemptCommit(h)
  <2>1. old.at = "submit.tx" /\ old.row.status = "submitted" /\ old.row.manual = Null
    BY <1>3 DEF SubmitAttemptCommit, IInv, CopiesAreGrounded, Grounded
  <2>2. LP!Submit(b, old.row.answers)
    BY <1>2, <1>3, <2>1 DEF SubmitAttemptCommit, Overwritten, Insert, AttemptFound,
       LP!Submit, LP!Append1
  <2> QED BY <1>2, <2>1, <2>2 DEF LP!Next
<1>4. CASE GradeSubmissionCommit(h)
  <2>1. /\ old.at = "grade.tx" /\ old.row.status = "graded"
        /\ old.row.auto \in Announced("attempt.submitted", b)
        /\ old.row.manual # Null
    BY <1>4 DEF GradeSubmissionCommit, IInv, CopiesAreGrounded, Grounded
  <2>2. old.row.manual \in Scores
    BY <1>2, <2>1 DEF AttemptRow
  <2>3. AutoScore[old.row.answers] \in LP!Announced("attempt.submitted", b)
    BY <1>2, <2>1 DEF LP!Announced, LP!EventsOf, Announced, EventsOf
  <2>4. LP!Grade(b, old.row.manual, old.row.answers)
    BY <1>2, <1>4, <2>1, <2>3 DEF GradeSubmissionCommit, Overwritten, Insert, AttemptFound,
       LP!Grade, LP!Append1
  <2> QED BY <1>2, <2>1, <2>2, <2>4 DEF LP!Next
<1> QED BY <1>1, <1>3, <1>4

LEMMA WriteSteps ==
    ASSUME IInv, NEW h \in Handlers,
           \/ UpdateQuizCommit(h) \/ DeleteQuizCommit(h)
           \/ \E a \in Attempts : StartAttemptCreate(h, a)
           \/ SubmitAttemptCommit(h) \/ GradeSubmissionCommit(h)
    PROVE  IInv'
<1> USE DEF Copying, Steps
<1>1. LedgerStep
  BY QuizWritesImplement, AttemptWritesImplement DEF LedgerStep
<1>2. RestOK'
  BY DEF IInv, TypeOK, RestOK, caches, UpdateQuizCommit, DeleteQuizCommit,
     StartAttemptCreate, SubmitAttemptCommit, GradeSubmissionCommit
<1>3. req[h] \in Request /\ ReadsSetFields(req[h])
  BY DEF IInv, TypeOK
<1>4. CASE SubmitAttemptCommit(h)
  BY <1>1, <1>2, <1>4, DoneKeepsIInv DEF SubmitAttemptCommit
<1>5. ASSUME NEW r \in Request, Become(h, r), ReadsSetFields(r), r.at \notin Copying
      PROVE  IInv'
  BY <1>1, <1>2, <1>5, NothingToGround, MoveKeepsIInv
<1>6. CASE UpdateQuizCommit(h) \/ DeleteQuizCommit(h)
  <2>1. PICK r : r = [NoRequest EXCEPT !.at = "quiz.evict", !.quiz = req[h].quiz]
    OBVIOUS
  <2>2. req[h].quiz \in Quizzes
    BY <1>3, <1>6 DEF UpdateQuizCommit, DeleteQuizCommit, ReadsSetFields
  <2>3. r \in Request /\ ReadsSetFields(r) /\ r.at \notin Copying
    BY <2>1, <2>2 DEF NoRequest, Request, ReadsSetFields
  <2>4. Become(h, r)
    BY <1>6, <2>1 DEF UpdateQuizCommit, DeleteQuizCommit, Become
  <2> QED BY <1>5, <2>3, <2>4
<1>7. ASSUME NEW a \in Attempts, StartAttemptCreate(h, a)
      PROVE  IInv'
  <2>1. PICK r : r = [NoRequest EXCEPT !.at = "start.publish", !.attempt = a]
    OBVIOUS
  <2>2. r \in Request /\ ReadsSetFields(r) /\ r.at \notin Copying
    BY <2>1 DEF NoRequest, Request, ReadsSetFields
  <2>3. Become(h, r)
    BY <1>7, <2>1 DEF StartAttemptCreate, Become
  <2> QED BY <1>5, <2>2, <2>3
<1>8. CASE GradeSubmissionCommit(h)
  <2>1. PICK r : r = [NoRequest EXCEPT !.at = "grade.evict", !.course = req[h].course]
    OBVIOUS
  <2>2. req[h].course \in Courses
    BY <1>3, <1>8 DEF GradeSubmissionCommit, ReadsSetFields
  <2>3. r \in Request /\ ReadsSetFields(r) /\ r.at \notin Copying
    BY <2>1, <2>2 DEF NoRequest, Request, ReadsSetFields
  <2>4. Become(h, r)
    BY <1>8, <2>1 DEF GradeSubmissionCommit, Become
  <2> QED BY <1>5, <2>3, <2>4
<1> QED BY <1>4, <1>6, <1>7, <1>8

LEMMA CreateStep ==
    ASSUME IInv, NEW t \in Teachers, NEW c \in Courses, NEW q \in Quizzes,
           NEW title \in Titles, CreateQuiz(t, c, q, title)
    PROVE  IInv'
<1>1. LedgerStep
  BY QuizWritesImplement DEF LedgerStep
<1>2. RestOK' /\ UNCHANGED req
  BY DEF IInv, TypeOK, RestOK, caches, CreateQuiz
<1> QED BY <1>1, <1>2, StayKeepsIInv

-------------------------------------------------------------------------------
(***************************************************************************)
(* The specification.                                                      *)
(***************************************************************************)

LEMMA InitIInv == Init => IInv /\ LP!Init
<1> SUFFICES ASSUME Init PROVE IInv /\ LP!Init
  OBVIOUS
<1>1. LP!Init
  BY DEF Init, Ledger!Init, LP!Init
<1>2. LP!LedgerInv
  BY <1>1, SameData, LP!InitLedgerInv
<1>3. TablesOK
  BY <1>2 DEF LP!LedgerInv, LP!TablesOK, TablesOK, LP!QuizRow, QuizRow, LP!AttemptRow,
     AttemptRow, LP!Statuses, Statuses, LP!OutboxRow, OutboxRow, LP!QuizEvents, QuizEvents,
     LP!AttemptEvents, AttemptEvents
<1>4. RestOK
  BY DEF Init, RestOK
<1>5. \A h \in Handlers : req[h] = NoRequest
  BY DEF Init
<1>6. TypeOK
  BY <1>3, <1>4, <1>5, Finished DEF Init, TypeOK, RestOK
<1>7. CopiesAreGrounded
  BY <1>5 DEF CopiesAreGrounded, Grounded, NoRequest
<1> QED BY <1>1, <1>2, <1>6, <1>7 DEF IInv

LEMMA NextIInv == IInv /\ [Next]_vars => IInv'
<1> SUFFICES ASSUME IInv, [Next]_vars PROVE IInv'
  OBVIOUS
<1>1. ASSUME NEW h \in Handlers, Quiz(h) PROVE IInv'
  BY <1>1, QuizReads, CacheSteps, WriteSteps DEF Quiz
<1>2. ASSUME NEW h \in Handlers, Attempt(h) PROVE IInv'
  BY <1>2, AttemptReads, CacheSteps, WriteSteps DEF Attempt
<1>3. ASSUME NEW h \in Handlers, Grading(h) PROVE IInv'
  BY <1>3, GradingReads, CacheSteps, WriteSteps DEF Grading
<1>4. ASSUME NEW h \in Handlers, Fail(h) PROVE IInv'
  BY <1>4, CacheSteps
<1>5. CASE UNCHANGED vars
  <2>1. UNCHANGED req /\ UNCHANGED <<tables, enrolled, started, caches>>
    BY <1>5 DEF vars
  <2> QED BY <2>1, QuietFrame, StayKeepsIInv
<1> QED BY <1>1, <1>2, <1>3, <1>4, <1>5, CreateStep, WorldSteps DEF Next

\* Every step of a handler is a step of the ledger or changes no table.
LEMMA NextImplements == IInv /\ [Next]_vars => [LP!Next]_LP!vars
<1> SUFFICES ASSUME IInv, [Next]_vars PROVE LP!Next \/ UNCHANGED tables
  BY DEF LP!vars, tables
<1>1. ASSUME NEW h \in Handlers, Quiz(h) PROVE LP!Next \/ UNCHANGED tables
  BY <1>1, QuizWritesImplement DEF Quiz, tables, UpdateQuizRead, DeleteQuizRead, GetQuizRead,
     ListQuizzesRead, DeleteQuizCheck, QuizEvict, GetQuizFill, ListQuizzesFill
<1>2. ASSUME NEW h \in Handlers, Attempt(h) PROVE LP!Next \/ UNCHANGED tables
  BY <1>2, AttemptWritesImplement DEF Attempt, tables, StartAttemptRead, StartAttemptCheck,
     StartAttemptPublish, SubmitAttemptRead, SubmitAttemptLoadQuiz
<1>3. ASSUME NEW h \in Handlers, Grading(h) PROVE LP!Next \/ UNCHANGED tables
  BY <1>3, AttemptWritesImplement DEF Grading, tables, GradeSubmissionRead,
     GradeSubmissionLoadQuiz, GradeSubmissionEvict, GetGradebookRead, GetGradebookFill
<1> QED
  BY <1>1, <1>2, <1>3, QuizWritesImplement DEF Next, Fail, Enroll, Unenroll, Expire, vars

\* The inductive invariant holds of every reachable state.
THEOREM Invariance == Spec => []IInv
BY InitIInv, NextIInv, PTL DEF Spec

\* Every value stays in its type; a handler never uses a variable it has not set.
THEOREM TypeCorrect == Spec => []TypeOK
BY Invariance, PTL DEF IInv

\* A handler's stale copy of an attempt is never wrong (submit_attempt.go:37,
\* grade_submission.go:37 read it outside the transaction).
THEOREM CopiesStayGrounded == Spec => []CopiesAreGrounded
BY Invariance, PTL DEF IInv

\* The service implements the ledger: with any number of goroutines, caches and
\* failures, each commit is one ledger step.
THEOREM Refinement == Spec => ImplementsLedger
<1>1. LP!Init <=> Ledger!Init
  BY DEF LP!Init, Ledger!Init
<1>2. [LP!Next]_LP!vars <=> [Ledger!Next]_Ledger!vars
  BY DEF LP!Next, Ledger!Next, LP!vars, Ledger!vars, LP!CreateQuiz, Ledger!CreateQuiz,
     LP!UpdateQuiz, Ledger!UpdateQuiz, LP!DeleteQuiz, Ledger!DeleteQuiz,
     LP!StartAttempt, Ledger!StartAttempt, LP!Submit, Ledger!Submit, LP!Grade, Ledger!Grade,
     LP!Append1, Ledger!Append1, LP!QuizRow, Ledger!QuizRow, LP!Unreferenced,
     Ledger!Unreferenced, LP!Happened, Ledger!Happened, LP!Announced, Ledger!Announced,
     LP!EventsOf, Ledger!EventsOf
<1> QED
  BY <1>1, <1>2, InitIInv, NextImplements, Invariance, PTL
     DEF Spec, ImplementsLedger, Ledger!Spec

-------------------------------------------------------------------------------
(***************************************************************************)
(* What the service inherits from the ledger.                              *)
(***************************************************************************)

LEMMA LedgerInherited ==
    LP!LedgerInv => /\ AttemptsHaveQuiz /\ EventsMatchStatus /\ GradedAfterSubmitted
                    /\ ScoresWereAnnounced /\ QuizEventsInOrder
<1> SUFFICES ASSUME LP!LedgerInv
             PROVE  /\ AttemptsHaveQuiz /\ EventsMatchStatus /\ GradedAfterSubmitted
                    /\ ScoresWereAnnounced /\ QuizEventsInOrder
  OBVIOUS
<1>1. AttemptsHaveQuiz
  BY DEF LP!LedgerInv, LP!AttemptsHaveQuiz, AttemptsHaveQuiz, Ledger!AttemptsHaveQuiz
<1>2. \A type, id : /\ LP!EventsOf(type, id) = Ledger!EventsOf(type, id)
                   /\ LP!Happened(type, id) = Ledger!Happened(type, id)
                   /\ LP!Announced(type, id) = Ledger!Announced(type, id)
  BY DEF LP!EventsOf, Ledger!EventsOf, LP!Happened, Ledger!Happened, LP!Announced,
     Ledger!Announced
<1>3. EventsMatchStatus
  BY <1>2 DEF LP!LedgerInv, LP!EventsMatchStatus, EventsMatchStatus, Ledger!EventsMatchStatus
<1>4. GradedAfterSubmitted
  BY <1>2 DEF LP!LedgerInv, LP!GradedAfterSubmitted, GradedAfterSubmitted,
     Ledger!GradedAfterSubmitted
<1>5. ScoresWereAnnounced
  BY <1>2 DEF LP!LedgerInv, LP!ScoresWereAnnounced, ScoresWereAnnounced,
     Ledger!ScoresWereAnnounced
<1>6. QuizEventsInOrder
  BY DEF LP!LedgerInv, LP!QuizEventsInOrder, QuizEventsInOrder, Ledger!QuizEventsInOrder,
     LP!QuizEvents, Ledger!QuizEvents
<1> QED BY <1>1, <1>3, <1>4, <1>5, <1>6

\* DeleteQuiz never leaves an attempt without its quiz, though it looks for attempts
\* before its transaction (delete_quiz.go:40).
THEOREM NoOrphanAttempts == Spec => []AttemptsHaveQuiz
BY Invariance, LedgerInherited, PTL DEF IInv

\* The rows of the attempts and the committed events agree.
THEOREM RowsAndEventsAgree == Spec => []EventsMatchStatus
BY Invariance, LedgerInherited, PTL DEF IInv

\* The outbox never holds a grade before a submission of the attempt.
THEOREM GradesFollowSubmissions == Spec => []GradedAfterSubmitted
BY Invariance, LedgerInherited, PTL DEF IInv

\* Rows overwritten whole with stale copies hold announced scores that fit their
\* answers.
THEOREM ScoresAreAnnounced == Spec => []ScoresWereAnnounced
BY Invariance, LedgerInherited, PTL DEF IInv

\* The events of a quiz begin with its creation and end with its deletion.
THEOREM QuizHistoriesAreOrdered == Spec => []QuizEventsInOrder
BY Invariance, LedgerInherited, PTL DEF IInv

\* No step loses a started attempt or changes its quiz or student.
THEOREM AttemptsSurvive == Spec => AttemptsNeverLost
<1>1. IInv /\ [Next]_vars => [LP!AttemptsKept]_LP!vars
  <2> SUFFICES ASSUME IInv, [Next]_vars PROVE [LP!AttemptsKept]_LP!vars
    OBVIOUS
  <2>1. LP!LedgerInv /\ [LP!Next]_LP!vars
    BY NextImplements DEF IInv
  <2> QED BY <2>1, SameData, LP!StepKeepsAttempts
<1>2. [LP!AttemptsKept]_LP!vars <=>
        [\A a \in Attempts : attempts[a] # Null =>
           /\ attempts'[a] # Null
           /\ attempts'[a].quiz = attempts[a].quiz
           /\ attempts'[a].student = attempts[a].student]_Ledger!vars
  BY DEF LP!AttemptsKept, LP!vars, Ledger!vars
<1> QED
  BY <1>1, <1>2, Invariance, PTL DEF Spec, AttemptsNeverLost, Ledger!AttemptsNeverLost

\* Only a request of the quiz's owner changes a manual score (grade_submission.go:50).
THEOREM GradesComeFromOwners == Spec => OnlyOwnerGrades
<1> DEFINE Owned == \A a \in Attempts :
         attempts[a] # Null /\ attempts'[a].manual \notin {attempts[a].manual, Null} =>
           \E h \in Handlers :
             /\ req[h].at = "grade.tx" /\ req[h].attempt = a
             /\ req[h].caller = quizzes[attempts[a].quiz].teacher
<1>1. IInv /\ [Next]_vars => [Owned]_vars
  <2> SUFFICES ASSUME IInv, Next PROVE Owned
    OBVIOUS
  <2> USE NullFacts
  <2>1. /\ attempts \in [Attempts -> AttemptRow \union {Null}]
        /\ \A a \in Attempts : attempts[a] # Null => attempts[a] \in AttemptRow
    BY DEF IInv, TypeOK, TablesOK
  <2>2. CASE UNCHANGED attempts
    BY <2>2
  <2>3. ASSUME NEW h \in Handlers, NEW b \in Attempts, StartAttemptCreate(h, b)
        PROVE  Owned
    BY <2>1, <2>3 DEF StartAttemptCreate
  <2>4. ASSUME NEW h \in Handlers, SubmitAttemptCommit(h)
        PROVE  Owned
    <3> DEFINE b == req[h].attempt
    <3>1. /\ b \in Attempts /\ attempts[b] \in AttemptRow /\ req[h].row.manual = Null
      BY <2>1, <2>4 DEF SubmitAttemptCommit, IInv, TypeOK, ReadsSetFields, AttemptFound,
         CopiesAreGrounded, Grounded
    <3>2. attempts'[b].manual = Null /\ \A a \in Attempts : a # b => attempts'[a] = attempts[a]
      BY <2>1, <2>4, <3>1 DEF SubmitAttemptCommit, Overwritten, AttemptRow
    <3> QED BY <3>1, <3>2
  <2>5. ASSUME NEW h \in Handlers, GradeSubmissionCommit(h)
        PROVE  Owned
    <3> DEFINE b == req[h].attempt
    <3>1. /\ b \in Attempts /\ req[h].at = "grade.tx"
          /\ req[h].caller = quizzes[attempts[b].quiz].teacher
      BY <2>5 DEF GradeSubmissionCommit, IInv, TypeOK, ReadsSetFields, CopiesAreGrounded,
         Grounded
    <3>2. \A a \in Attempts : a # b => attempts'[a] = attempts[a]
      BY <2>1, <2>5, <3>1 DEF GradeSubmissionCommit
    <3> QED BY <3>1, <3>2
  <2>6. \/ UNCHANGED attempts
        \/ \E h \in Handlers : \/ \E b \in Attempts : StartAttemptCreate(h, b)
                              \/ SubmitAttemptCommit(h) \/ GradeSubmissionCommit(h)
    BY DEF Next, CreateQuiz, Quiz, Attempt, Grading, Fail, Enroll, Unenroll, Expire, tables,
       UpdateQuizRead, UpdateQuizCommit, DeleteQuizRead, DeleteQuizCheck, DeleteQuizCommit,
       QuizEvict, GetQuizRead, GetQuizFill, ListQuizzesRead, ListQuizzesFill,
       StartAttemptRead, StartAttemptCheck, StartAttemptPublish, SubmitAttemptRead,
       SubmitAttemptLoadQuiz, GradeSubmissionRead, GradeSubmissionLoadQuiz,
       GradeSubmissionEvict, GetGradebookRead, GetGradebookFill
  <2> QED BY <2>2, <2>3, <2>4, <2>5, <2>6
<1>2. OnlyOwnerGrades <=> [][Owned]_vars
  BY DEF OnlyOwnerGrades
<1> QED BY <1>1, <1>2, Invariance, PTL DEF Spec

-------------------------------------------------------------------------------
(***************************************************************************)
(* What the caches show.  A view on its way into a cache was true when it  *)
(* was read, and what makes it true of the past is never taken back.       *)
(***************************************************************************)

\* What CachedQuizExisted says of one copy of a quiz.
QuizWasReal(q, copy) ==
    /\ Happened("quiz.created", q)
    /\ QuizFound(q) => /\ copy.teacher = quizzes[q].teacher
                       /\ copy.course = quizzes[q].course
    /\ ~QuizFound(q) => Happened("quiz.deleted", q)

\* What GradebookShowsAnnouncedScores says of one line, and of one book.
LineWasTrue(a, line) ==
    /\ line.status = "in_progress" => line.score = Null
    /\ line.status = "submitted" => line.score \in Announced("attempt.submitted", a)
    /\ line.status = "graded" => line.score \in Announced("submission.graded", a)

BookWasTrue(book) == \A a \in Attempts : book[a] # Null => LineWasTrue(a, book[a])

ViewsWereTrue ==
    /\ \A q \in Quizzes : quizCache[q] # Null => QuizWasReal(q, quizCache[q])
    /\ \A c \in Courses : gradebook[c] # Null => BookWasTrue(gradebook[c])
    /\ \A h \in Handlers :
         /\ req[h].at = "getQuiz.fill" => QuizWasReal(req[h].quiz, req[h].quizRow)
         /\ req[h].at = "gradebook.fill" => BookWasTrue(req[h].view)

LEMMA HistoryKept ==
    ASSUME IInv, LedgerStep
    PROVE  /\ \A q \in Quizzes : \A copy : QuizWasReal(q, copy) => QuizWasReal(q, copy)'
           /\ \A book : BookWasTrue(book) => BookWasTrue(book)'
<1>1. LP!LedgerInv /\ LP!LedgerInv'
  BY LedgerStepKeepsTables DEF IInv
<1>2. LP!OwnersKept /\ LP!NewsKept
  BY <1>1, SameData, LP!StepKeepsOwners, LP!StepKeepsNews, LP!StutterKeepsAll
     DEF LedgerStep, LP!vars
<1>3. \A type, id : Announced(type, id) \subseteq Announced(type, id)'
  BY <1>2 DEF LP!NewsKept, LP!Announced, LP!EventsOf, Announced, EventsOf
<1>4. \A type, id : Happened(type, id) <=> Announced(type, id) # {}
  BY DEF Happened, Announced
<1>5. \A type, id : Happened(type, id)' <=> Announced(type, id)' # {}
  BY DEF Happened, Announced
<1>6. \A type, id : Happened(type, id) => Happened(type, id)'
  BY <1>3, <1>4, <1>5
<1>7. \A q \in Quizzes :
        /\ QuizFound(q) <=> Happened("quiz.created", q) /\ ~Happened("quiz.deleted", q)
        /\ QuizFound(q)' <=> Happened("quiz.created", q)' /\ ~Happened("quiz.deleted", q)'
  BY <1>1 DEF LP!LedgerInv, LP!QuizRowMatchesEvents, LP!Happened, LP!EventsOf, Happened,
     EventsOf, QuizFound
<1>8. ASSUME NEW q \in Quizzes, NEW copy, QuizWasReal(q, copy)
      PROVE  QuizWasReal(q, copy)'
  <2>1. Happened("quiz.created", q)' /\ (~QuizFound(q)' => Happened("quiz.deleted", q)')
    BY <1>6, <1>7, <1>8 DEF QuizWasReal
  <2>2. QuizFound(q)' => QuizFound(q)
    BY <1>6, <1>7, <1>8 DEF QuizWasReal
  <2>3. QuizFound(q)' => /\ copy.teacher = quizzes'[q].teacher
                         /\ copy.course = quizzes'[q].course
    BY <1>2, <1>8, <2>2 DEF QuizWasReal, LP!OwnersKept, QuizFound
  <2> QED BY <2>1, <2>3 DEF QuizWasReal
<1>9. ASSUME NEW book, BookWasTrue(book) PROVE BookWasTrue(book)'
  <2>1. \A a \in Attempts : LineWasTrue(a, book[a]) => LineWasTrue(a, book[a])'
    BY <1>3 DEF LineWasTrue
  <2> QED BY <1>9, <2>1 DEF BookWasTrue
<1> QED BY <1>8, <1>9

\* What the two queries read is true.
LEMMA ReadsAreTrue ==
    ASSUME IInv
    PROVE  /\ \A q \in Quizzes : QuizFound(q) => QuizWasReal(q, quizzes[q])
           /\ \A c \in Courses : BookWasTrue(BookOf(c))
<1> USE NullFacts
<1>1. LP!LedgerInv
  BY DEF IInv
<1>2. \A q \in Quizzes : QuizFound(q) => Happened("quiz.created", q)
  BY <1>1, LedgerFacts
<1>3. ASSUME NEW c \in Courses, NEW a \in Attempts, BookOf(c)[a] # Null
      PROVE  LineWasTrue(a, BookOf(c)[a])
  <2>1. /\ AttemptFound(a)
        /\ BookOf(c)[a] = [score |-> ShownScore(attempts[a]), status |-> attempts[a].status]
    BY <1>3 DEF BookOf
  <2>2. /\ attempts[a].answers = Null <=> attempts[a].status = "in_progress"
        /\ attempts[a].manual # Null <=> attempts[a].status = "graded"
        /\ attempts[a].answers # Null => attempts[a].auto \in Announced("attempt.submitted", a)
    BY <1>1, <2>1, LedgerFacts
  <2>3. /\ attempts[a].auto = Null <=> attempts[a].answers = Null
        /\ attempts[a].manual # Null =>
             attempts[a].manual \in Announced("submission.graded", a)
    BY <1>1, <2>1 DEF LP!LedgerInv, LP!ScoresWereAnnounced, LP!Announced, LP!EventsOf,
       Announced, EventsOf, AttemptFound
  <2> QED BY <2>1, <2>2, <2>3 DEF LineWasTrue, ShownScore
<1> QED BY <1>2, <1>3 DEF QuizWasReal, BookWasTrue

\* A cache keeps what it holds, drops it, or gets what a request has read.
LEMMA CachesAreFilled ==
    ASSUME IInv, [Next]_vars
    PROVE  /\ \A q \in Quizzes : quizCache'[q] # Null =>
                \/ quizCache'[q] = quizCache[q]
                \/ \E h \in Handlers : /\ req[h].at = "getQuiz.fill" /\ req[h].quiz = q
                                       /\ quizCache'[q] = req[h].quizRow
           /\ \A c \in Courses : gradebook'[c] # Null =>
                \/ gradebook'[c] = gradebook[c]
                \/ \E h \in Handlers : /\ req[h].at = "gradebook.fill"
                                       /\ gradebook'[c] = req[h].view
<1> DEFINE QuizKept == \A q \in Quizzes : quizCache'[q] # Null =>
                \/ quizCache'[q] = quizCache[q]
                \/ \E h \in Handlers : /\ req[h].at = "getQuiz.fill" /\ req[h].quiz = q
                                       /\ quizCache'[q] = req[h].quizRow
           BookKept == \A c \in Courses : gradebook'[c] # Null =>
                \/ gradebook'[c] = gradebook[c]
                \/ \E h \in Handlers : /\ req[h].at = "gradebook.fill"
                                       /\ gradebook'[c] = req[h].view
<1>1. /\ quizCache \in [Quizzes -> QuizRow \union {Null}]
      /\ gradebook \in [Courses -> Book \union {Null}]
  BY DEF IInv, TypeOK
<1>2. CASE UNCHANGED <<quizCache, gradebook>>
  BY <1>2
<1>3. ASSUME NEW h \in Handlers, QuizEvict(h) \/ GetQuizFill(h)
      PROVE  QuizKept /\ BookKept
  BY <1>1, <1>3 DEF QuizEvict, GetQuizFill
<1>4. ASSUME NEW h \in Handlers, GradeSubmissionEvict(h) \/ GetGradebookFill(h)
      PROVE  QuizKept /\ BookKept
  BY <1>1, <1>4 DEF GradeSubmissionEvict, GetGradebookFill
<1>5. CASE Expire
  BY <1>1, <1>5 DEF Expire
<1>6. \A h \in Handlers :
        Quiz(h) => UNCHANGED <<quizCache, gradebook>> \/ QuizEvict(h) \/ GetQuizFill(h)
  BY DEF Quiz, caches, UpdateQuizRead, UpdateQuizCommit, DeleteQuizRead, DeleteQuizCheck,
     DeleteQuizCommit, GetQuizRead, ListQuizzesRead, ListQuizzesFill
<1>7. \A h \in Handlers : Attempt(h) => UNCHANGED <<quizCache, gradebook>>
  BY DEF Attempt, caches, StartAttemptRead, StartAttemptCheck, StartAttemptCreate,
     StartAttemptPublish, SubmitAttemptRead, SubmitAttemptLoadQuiz, SubmitAttemptCommit
<1>8. \A h \in Handlers :
        Grading(h) => \/ UNCHANGED <<quizCache, gradebook>>
                      \/ GradeSubmissionEvict(h) \/ GetGradebookFill(h)
  BY DEF Grading, caches, GradeSubmissionRead, GradeSubmissionLoadQuiz,
     GradeSubmissionCommit, GetGradebookRead
<1>9. \/ UNCHANGED <<quizCache, gradebook>>
      \/ Expire
      \/ \E h \in Handlers : Quiz(h) \/ Attempt(h) \/ Grading(h)
  BY DEF Next, vars, caches, CreateQuiz, Fail, Enroll, Unenroll
<1> QED BY <1>2, <1>3, <1>4, <1>5, <1>6, <1>7, <1>8, <1>9

\* A request that is about to fill a cache was so before, or has just read.
LEMMA ViewsAreRead ==
    ASSUME IInv, [Next]_vars, NEW k \in Handlers
    PROVE  /\ req'[k].at = "getQuiz.fill" =>
                \/ req'[k] = req[k]
                \/ \E q \in Quizzes : /\ QuizFound(q) /\ UNCHANGED tables
                                      /\ req'[k].quiz = q /\ req'[k].quizRow = quizzes[q]
           /\ req'[k].at = "gradebook.fill" =>
                \/ req'[k] = req[k]
                \/ \E c \in Courses : UNCHANGED tables /\ req'[k].view = BookOf(c)
<1> DEFINE Read ==
           /\ req'[k].at = "getQuiz.fill" =>
                \/ req'[k] = req[k]
                \/ \E q \in Quizzes : /\ QuizFound(q) /\ UNCHANGED tables
                                      /\ req'[k].quiz = q /\ req'[k].quizRow = quizzes[q]
           /\ req'[k].at = "gradebook.fill" =>
                \/ req'[k] = req[k]
                \/ \E c \in Courses : UNCHANGED tables /\ req'[k].view = BookOf(c)
<1>1. \A h \in Handlers : \A r : Become(h, r) => req'[k] = IF k = h THEN r ELSE req[k]
  BY DEF IInv, TypeOK, Become
<1>2. CASE UNCHANGED req
  BY <1>2
<1>3. ASSUME NEW h \in Handlers, NEW r, Become(h, r),
             r.at \notin {"getQuiz.fill", "gradebook.fill"}
      PROVE  Read
  BY <1>1, <1>3
<1>4. ASSUME NEW h \in Handlers, NEW q \in Quizzes, GetQuizRead(h, q) PROVE Read
  <2>1. PICK r : r = [NoRequest EXCEPT !.at = "getQuiz.fill", !.quiz = q,
                                       !.quizRow = quizzes[q]]
    OBVIOUS
  <2>2. Become(h, r) /\ QuizFound(q) /\ UNCHANGED tables
    BY <1>4, <2>1 DEF GetQuizRead
  <2>3. r.at = "getQuiz.fill" /\ r.quiz = q /\ r.quizRow = quizzes[q]
    BY <2>1 DEF NoRequest
  <2> QED BY <1>1, <2>2, <2>3
<1>5. ASSUME NEW h \in Handlers, NEW c \in Courses, GetGradebookRead(h, c) PROVE Read
  <2>1. PICK r : r = [NoRequest EXCEPT !.at = "gradebook.fill", !.course = c,
                                       !.view = BookOf(c)]
    OBVIOUS
  <2>2. Become(h, r) /\ UNCHANGED tables
    BY <1>5, <2>1 DEF GetGradebookRead
  <2>3. r.at = "gradebook.fill" /\ r.view = BookOf(c)
    BY <2>1 DEF NoRequest
  <2> QED BY <1>1, <2>2, <2>3
<1>6. ASSUME NEW h \in Handlers, Done(h) PROVE Read
  <2>1. NoRequest.at = "idle"
    BY DEF NoRequest
  <2> QED BY <1>3, <1>6, <2>1 DEF Done
<1>7. ASSUME NEW h \in Handlers, Quiz(h) PROVE Read
  <2>1. CASE \E q \in Quizzes : GetQuizRead(h, q)
    BY <1>4, <2>1
  <2>2. CASE DeleteQuizCheck(h)
    <3>1. [req[h] EXCEPT !.at = "deleteQuiz.tx"].at = "deleteQuiz.tx"
      BY DEF IInv, TypeOK, Request
    <3> QED BY <1>3, <2>2, <3>1 DEF DeleteQuizCheck
  <2>3. CASE QuizEvict(h) \/ GetQuizFill(h) \/ ListQuizzesFill(h)
    BY <1>6, <2>3 DEF QuizEvict, GetQuizFill, ListQuizzesFill
  <2>4. ASSUME NEW t \in Teachers, NEW q \in Quizzes, NEW title \in Titles,
               UpdateQuizRead(h, t, q, title)
        PROVE  Read
    BY <1>3, <2>4 DEF UpdateQuizRead, NoRequest
  <2>5. ASSUME NEW t \in Teachers, NEW q \in Quizzes, DeleteQuizRead(h, t, q)
        PROVE  Read
    BY <1>3, <2>5 DEF DeleteQuizRead, NoRequest
  <2>6. ASSUME NEW c \in Courses, NEW page \in Page, ListQuizzesRead(h, c, page)
        PROVE  Read
    BY <1>3, <2>6 DEF ListQuizzesRead, NoRequest
  <2>7. CASE UpdateQuizCommit(h) \/ DeleteQuizCommit(h)
    BY <1>3, <2>7 DEF UpdateQuizCommit, DeleteQuizCommit, NoRequest
  <2> QED BY <1>7, <2>1, <2>2, <2>3, <2>4, <2>5, <2>6, <2>7 DEF Quiz
<1>8. ASSUME NEW h \in Handlers, Attempt(h) PROVE Read
  <2>0. /\ [req[h] EXCEPT !.at = "start.create"].at = "start.create"
        /\ \A row : [req[h] EXCEPT !.at = "submit.tx", !.row = row].at = "submit.tx"
    BY DEF IInv, TypeOK, Request
  <2>1. CASE StartAttemptCheck(h)
    BY <1>3, <2>0, <2>1 DEF StartAttemptCheck
  <2>2. ASSUME NEW sheet \in Answers, SubmitAttemptLoadQuiz(h, sheet) PROVE Read
    BY <1>3, <2>0, <2>2 DEF SubmitAttemptLoadQuiz
  <2>3. CASE StartAttemptPublish(h) \/ SubmitAttemptCommit(h)
    BY <1>6, <2>3 DEF StartAttemptPublish, SubmitAttemptCommit
  <2>4. ASSUME NEW s \in Students, NEW q \in Quizzes, StartAttemptRead(h, s, q)
        PROVE  Read
    BY <1>3, <2>4 DEF StartAttemptRead, NoRequest
  <2>5. ASSUME NEW a \in Attempts, StartAttemptCreate(h, a) PROVE Read
    BY <1>3, <2>5 DEF StartAttemptCreate, NoRequest
  <2>6. ASSUME NEW s \in Students, NEW a \in Attempts, SubmitAttemptRead(h, s, a)
        PROVE  Read
    BY <1>3, <2>6 DEF SubmitAttemptRead, NoRequest
  <2> QED BY <1>8, <2>1, <2>2, <2>3, <2>4, <2>5, <2>6 DEF Attempt
<1>9. ASSUME NEW h \in Handlers, Grading(h) PROVE Read
  <2>0. \A c, row : [req[h] EXCEPT !.at = "grade.tx", !.course = c, !.row = row].at
                      = "grade.tx"
    BY DEF IInv, TypeOK, Request
  <2>1. ASSUME NEW score \in Scores, GradeSubmissionLoadQuiz(h, score) PROVE Read
    BY <1>3, <2>0, <2>1 DEF GradeSubmissionLoadQuiz
  <2>2. CASE GradeSubmissionEvict(h) \/ GetGradebookFill(h)
    BY <1>6, <2>2 DEF GradeSubmissionEvict, GetGradebookFill
  <2>3. ASSUME NEW t \in Teachers, NEW a \in Attempts, GradeSubmissionRead(h, t, a)
        PROVE  Read
    BY <1>3, <2>3 DEF GradeSubmissionRead, NoRequest
  <2>4. CASE GradeSubmissionCommit(h)
    BY <1>3, <2>4 DEF GradeSubmissionCommit, NoRequest
  <2>5. CASE \E c \in Courses : GetGradebookRead(h, c)
    BY <1>5, <2>5
  <2> QED BY <1>9, <2>1, <2>2, <2>3, <2>4, <2>5 DEF Grading
<1>10. ASSUME NEW h \in Handlers, Fail(h) PROVE Read
  BY <1>6, <1>10 DEF Fail
<1>11. CASE ~ \E h \in Handlers : Quiz(h) \/ Attempt(h) \/ Grading(h) \/ Fail(h)
  <2>1. UNCHANGED req
    BY <1>11 DEF Next, vars, CreateQuiz, Enroll, Unenroll, Expire
  <2> QED BY <1>2, <2>1
<1> QED BY <1>7, <1>8, <1>9, <1>10, <1>11

LEMMA NextViews == IInv /\ ViewsWereTrue /\ [Next]_vars => ViewsWereTrue'
<1> SUFFICES ASSUME IInv, ViewsWereTrue, [Next]_vars PROVE ViewsWereTrue'
  OBVIOUS
<1>1. LedgerStep
  BY NextImplements DEF LedgerStep, LP!vars
<1>2. /\ \A q \in Quizzes : \A copy : QuizWasReal(q, copy) => QuizWasReal(q, copy)'
      /\ \A book : BookWasTrue(book) => BookWasTrue(book)'
  BY <1>1, HistoryKept
<1>3. ASSUME NEW q \in Quizzes, quizCache'[q] # Null PROVE QuizWasReal(q, quizCache[q])'
  <2>1. PICK copy : copy = quizCache'[q]
    OBVIOUS
  <2>2. QuizWasReal(q, copy)
    BY <1>3, <2>1, CachesAreFilled DEF ViewsWereTrue
  <2>3. QuizWasReal(q, copy)'
    BY <1>2, <2>2
  <2> QED BY <2>1, <2>3 DEF QuizWasReal
<1>4. ASSUME NEW c \in Courses, gradebook'[c] # Null PROVE BookWasTrue(gradebook[c])'
  <2>1. PICK book : book = gradebook'[c]
    OBVIOUS
  <2>2. BookWasTrue(book)
    BY <1>4, <2>1, CachesAreFilled DEF ViewsWereTrue
  <2>3. BookWasTrue(book)'
    BY <1>2, <2>2
  <2> QED BY <2>1, <2>3 DEF BookWasTrue, LineWasTrue
<1>5. ASSUME NEW h \in Handlers, req'[h].at = "getQuiz.fill"
      PROVE  QuizWasReal(req[h].quiz, req[h].quizRow)'
  <2>1. PICK q, copy : q = req'[h].quiz /\ copy = req'[h].quizRow
    OBVIOUS
  <2>2. q \in Quizzes /\ QuizWasReal(q, copy)
    <3>1. CASE req'[h] = req[h]
      BY <1>5, <2>1, <3>1 DEF ViewsWereTrue, IInv, TypeOK, ReadsSetFields
    <3>2. CASE req'[h] # req[h]
      BY <1>5, <2>1, <3>2, ViewsAreRead, ReadsAreTrue
    <3> QED BY <3>1, <3>2
  <2>3. QuizWasReal(q, copy)'
    BY <1>2, <2>2
  <2> QED BY <2>1, <2>3 DEF QuizWasReal, QuizFound
<1>6. ASSUME NEW h \in Handlers, req'[h].at = "gradebook.fill"
      PROVE  BookWasTrue(req[h].view)'
  <2>1. PICK book : book = req'[h].view
    OBVIOUS
  <2>2. BookWasTrue(book)
    <3>1. CASE req'[h] = req[h]
      BY <1>6, <2>1, <3>1 DEF ViewsWereTrue
    <3>2. CASE req'[h] # req[h]
      BY <1>6, <2>1, <3>2, ViewsAreRead, ReadsAreTrue
    <3> QED BY <3>1, <3>2
  <2>3. BookWasTrue(book)'
    BY <1>2, <2>2
  <2> QED BY <2>1, <2>3 DEF BookWasTrue, LineWasTrue
<1> QED BY <1>3, <1>4, <1>5, <1>6 DEF ViewsWereTrue

LEMMA InitViews == Init => ViewsWereTrue
BY DEF Init, ViewsWereTrue, NoRequest

\* What the caches hold, and what is on its way into them, was true once.
THEOREM ViewsInvariance == Spec => []ViewsWereTrue
BY InitViews, NextViews, Invariance, PTL DEF Spec

\* A cached quiz was created, has kept its owner and its course, and is deleted if it
\* has no row (get_quiz.go:43 caches what another handler may be changing).
THEOREM CachedQuizzesExisted == Spec => []CachedQuizExisted
<1>1. ViewsWereTrue => CachedQuizExisted
  BY DEF ViewsWereTrue, QuizWasReal, CachedQuizExisted
<1> QED BY <1>1, ViewsInvariance, PTL

\* Every score in a cached gradebook was announced for that attempt, with that status
\* (get_gradebook.go caches what another handler may be changing).
THEOREM CachedBooksWereTrue == Spec => []GradebookShowsAnnouncedScores
<1>1. TypeOK /\ ViewsWereTrue => GradebookShowsAnnouncedScores
  <2> SUFFICES ASSUME TypeOK, ViewsWereTrue, NEW c \in Courses, gradebook[c] # Null,
                      NEW a \in Attempts, gradebook[c][a] # Null
               PROVE  LET line == gradebook[c][a] IN
                      CASE line.status = "in_progress" -> line.score = Null
                        [] line.status = "submitted"   ->
                             line.score \in Announced("attempt.submitted", a)
                        [] line.status = "graded"      ->
                             line.score \in Announced("submission.graded", a)
    BY DEF GradebookShowsAnnouncedScores
  <2>1. gradebook[c][a] \in Entry
    BY DEF TypeOK, Book
  <2>2. gradebook[c][a].status \in {"in_progress", "submitted", "graded"}
    BY <2>1 DEF Entry, Statuses
  <2>3. LineWasTrue(a, gradebook[c][a])
    BY DEF ViewsWereTrue, BookWasTrue
  <2> QED BY <2>2, <2>3 DEF LineWasTrue
<1> QED BY <1>1, ViewsInvariance, TypeCorrect, PTL
=============================================================================
