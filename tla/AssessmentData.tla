---------------------------- MODULE AssessmentData ----------------------------
(***************************************************************************)
(* The tables of the assessment database (migrations/0001..0004) and the   *)
(* values their columns hold, shared by the detailed model of the service  *)
(* (Assessment) and by the promise it keeps (AssessmentLedger).            *)
(*                                                                         *)
(* Data are abstracted to what the properties tell apart.  A UUID is a     *)
(* model value.  A quiz keeps its owner, its course and its title, which   *)
(* stands for the three columns UpdateQuiz may change; its questions never *)
(* change after CreateQuiz, so that the score of an answer sheet is a      *)
(* constant function of the sheet (AutoScore).                             *)
(***************************************************************************)
EXTENDS Naturals, Sequences

CONSTANTS Quizzes,      \* UUIDs quizzes may get
          Attempts,     \* UUIDs attempts may get
          Courses,      \* course ids, issued by the course service
          Teachers,     \* callers that create and grade
          Students,     \* callers that start and submit
          Titles,       \* values of the columns UpdateQuiz writes
          Answers,      \* answer sheets a student may hand in
          Scores,       \* values of auto_score and manual_score
          AutoScore,    \* the score autoGrade gives each answer sheet
          Null          \* an absent row, an SQL NULL, a cache miss

VARIABLES quizzes,      \* table quizzes:  quizzes[q] = Null if there is no row
          attempts,     \* table attempts: attempts[a] = Null if there is no row
          outbox        \* table outbox, in commit order

Statuses == {"in_progress", "submitted", "graded"}

QuizRow == [teacher : Teachers, course : Courses, title : Titles]

AttemptRow == [quiz    : Quizzes,
               student : Students,
               status  : Statuses,
               answers : Answers \union {Null},
               auto    : Scores \union {Null},
               manual  : Scores \union {Null}]

QuizEvents == {"quiz.created", "quiz.updated", "quiz.deleted"}

AttemptEvents == {"attempt.submitted", "submission.graded"}

\* An outbox row: event_type (without its "assessment." prefix), aggregate_id
\* and the score its payload carries.
OutboxRow == [type  : QuizEvents \union AttemptEvents,
              of    : Quizzes \union Attempts,
              score : Scores \union {Null}]

ASSUME DataAssumption ==
    /\ AutoScore \in [Answers -> Scores]
    /\ Null \notin Scores
    /\ Null \notin Answers
    /\ Null \notin QuizRow
    /\ Null \notin AttemptRow
    /\ Null \notin Attempts

TablesOK ==
    /\ quizzes \in [Quizzes -> QuizRow \union {Null}]
    /\ attempts \in [Attempts -> AttemptRow \union {Null}]
    /\ outbox \in Seq(OutboxRow)

\* Committed events of one type about one quiz or attempt.
EventsOf(type, id) ==
    {i \in DOMAIN outbox : outbox[i].type = type /\ outbox[i].of = id}

Happened(type, id) == EventsOf(type, id) # {}

\* Scores that some committed event has announced for an attempt.
Announced(type, a) == {outbox[i].score : i \in EventsOf(type, a)}

\* The foreign key attempts.quiz_id REFERENCES quizzes(id) lets a quiz go only
\* when no attempt refers to it.
Unreferenced(q) == \A a \in Attempts : attempts[a] # Null => attempts[a].quiz # q
=============================================================================
