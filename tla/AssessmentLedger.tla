--------------------------- MODULE AssessmentLedger ---------------------------
(***************************************************************************)
(* What the assessment service promises to everyone who reads its database *)
(* (the students, the teachers and the outbox relay): every change of a    *)
(* quiz or an attempt is one atomic step that also appends the event about *)
(* it, and nothing else is ever appended.  There are no requests, caches,  *)
(* stale copies or failures here; Assessment, which has them all,          *)
(* implements this module.                                                 *)
(*                                                                         *)
(* The promise is the one the code can keep.  It is weaker than a reader   *)
(* of the API would guess in two places, both consequences of rows read    *)
(* before the transaction and written back whole inside it: Submit may hit *)
(* an attempt that is already submitted or graded, and Grade may put back  *)
(* the answers of an earlier submission.                                   *)
(***************************************************************************)
EXTENDS AssessmentData

vars == <<quizzes, attempts, outbox>>

Append1(type, id, score) ==
    outbox' = Append(outbox, [type |-> type, of |-> id, score |-> score])

Init ==
    /\ quizzes = [q \in Quizzes |-> Null]
    /\ attempts = [a \in Attempts |-> Null]
    /\ outbox = <<>>

CreateQuiz(q, row) ==
    /\ ~Happened("quiz.created", q)
    /\ quizzes[q] = Null
    /\ quizzes' = [quizzes EXCEPT ![q] = row]
    /\ Append1("quiz.created", q, Null)
    /\ UNCHANGED attempts

UpdateQuiz(q, title) ==
    /\ quizzes[q] # Null
    /\ quizzes' = [quizzes EXCEPT ![q].title = title]
    /\ Append1("quiz.updated", q, Null)
    /\ UNCHANGED attempts

DeleteQuiz(q) ==
    /\ quizzes[q] # Null
    /\ Unreferenced(q)
    /\ quizzes' = [quizzes EXCEPT ![q] = Null]
    /\ Append1("quiz.deleted", q, Null)
    /\ UNCHANGED attempts

\* The only change without an event of its own in the outbox.
StartAttempt(a, q, s) ==
    /\ quizzes[q] # Null
    /\ attempts[a] = Null
    /\ attempts' = [attempts EXCEPT ![a] =
                      [quiz |-> q, student |-> s, status |-> "in_progress",
                       answers |-> Null, auto |-> Null, manual |-> Null]]
    /\ UNCHANGED <<quizzes, outbox>>

Submit(a, sheet) ==
    /\ attempts[a] # Null
    /\ attempts' = [attempts EXCEPT
                      ![a] = [@ EXCEPT !.status = "submitted",
                                       !.answers = sheet,
                                       !.auto = AutoScore[sheet],
                                       !.manual = Null]]
    /\ Append1("attempt.submitted", a, AutoScore[sheet])
    /\ UNCHANGED quizzes

Grade(a, score, sheet) ==
    /\ attempts[a] # Null
    /\ AutoScore[sheet] \in Announced("attempt.submitted", a)
    /\ attempts' = [attempts EXCEPT
                      ![a] = [@ EXCEPT !.status = "graded",
                                       !.answers = sheet,
                                       !.auto = AutoScore[sheet],
                                       !.manual = score]]
    /\ Append1("submission.graded", a, score)
    /\ UNCHANGED quizzes

Next ==
    \/ \E q \in Quizzes :
         \/ \E row \in QuizRow : CreateQuiz(q, row)
         \/ \E title \in Titles : UpdateQuiz(q, title)
         \/ DeleteQuiz(q)
    \/ \E a \in Attempts :
         \/ \E q \in Quizzes, s \in Students : StartAttempt(a, q, s)
         \/ \E sheet \in Answers : Submit(a, sheet)
         \/ \E sheet \in Answers, score \in Scores : Grade(a, score, sheet)

Spec == Init /\ [][Next]_vars
-------------------------------------------------------------------------------
(***************************************************************************)
(* What a reader of the tables may rely on.                                *)
(***************************************************************************)

\* Every attempt belongs to a quiz that still exists, whatever DeleteQuiz and
\* StartAttempt do at the same time.
AttemptsHaveQuiz ==
    \A a \in Attempts : attempts[a] # Null => quizzes[attempts[a].quiz] # Null

\* Rows and events agree: an attempt is in progress exactly while no submission
\* of it was announced, and graded only after a grade of it was announced.
EventsMatchStatus ==
    \A a \in Attempts :
        /\ Happened("attempt.submitted", a) <=>
             attempts[a] # Null /\ attempts[a].status # "in_progress"
        /\ attempts[a] # Null /\ attempts[a].status = "graded" =>
             Happened("submission.graded", a)

\* The columns of a row fit its status: answers and an automatic score from the
\* submission on, a manual score exactly when graded.
RowsFitStatus ==
    \A a \in Attempts : attempts[a] # Null =>
        LET row == attempts[a] IN
        /\ row.answers = Null <=> row.status = "in_progress"
        /\ row.manual # Null <=> row.status = "graded"

\* A consumer that reads the outbox in order never meets the grade of an attempt
\* before the submission of that attempt.
GradedAfterSubmitted ==
    \A a \in Attempts : \A j \in EventsOf("submission.graded", a) :
        \E i \in EventsOf("attempt.submitted", a) : i < j

\* Each score in an attempt row was announced by a committed event of that
\* attempt, and the automatic score is the score of the answers beside it: a
\* stale copy written back may be old but is never a mixture.
ScoresWereAnnounced ==
    \A a \in Attempts : attempts[a] # Null =>
        LET row == attempts[a] IN
        /\ row.auto = Null <=> row.answers = Null
        /\ row.auto # Null => /\ row.auto = AutoScore[row.answers]
                              /\ row.auto \in Announced("attempt.submitted", a)
        /\ row.manual # Null => row.manual \in Announced("submission.graded", a)

\* quiz.created is the first event of a quiz and quiz.deleted is the last.
QuizEventsInOrder ==
    \A q \in Quizzes : \A i, j \in DOMAIN outbox :
        /\ i < j
        /\ outbox[i].of = q /\ outbox[i].type \in QuizEvents
        /\ outbox[j].of = q /\ outbox[j].type \in QuizEvents
        => /\ outbox[i].type # "quiz.deleted"
           /\ outbox[j].type # "quiz.created"

\* A quiz has a row exactly between its creation and its deletion.
QuizRowMatchesEvents ==
    \A q \in Quizzes :
        /\ quizzes[q] # Null <=> /\ Happened("quiz.created", q)
                                /\ ~Happened("quiz.deleted", q)
        /\ Happened("quiz.updated", q) \/ Happened("quiz.deleted", q) =>
             Happened("quiz.created", q)

\* An attempt, once started, is never lost, whatever happens to its quiz, and
\* never changes its owner or its quiz.  The migrations promise this and not
\* ARCHITECTURE.md:268, by which a quiz is deleted with its attempts.
AttemptsNeverLost ==
    [][\A a \in Attempts : attempts[a] # Null =>
         /\ attempts'[a] # Null
         /\ attempts'[a].quiz = attempts[a].quiz
         /\ attempts'[a].student = attempts[a].student]_vars
=============================================================================
