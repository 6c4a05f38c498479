----------------------------- MODULE MCAssessment -----------------------------
(***************************************************************************)
(* Finite instances of Assessment for TLC.                                 *)
(***************************************************************************)
EXTENDS Assessment, TLC

\* Two answer sheets with different automatic scores; a manual score may repeat
\* one of them.
MCAnswers == {"right", "wrong"}
MCScores == {0, 100}
MCAutoScore == [sheet \in MCAnswers |-> IF sheet = "right" THEN 100 ELSE 0]

\* The workload of the life of an attempt against the deletion of its quiz.
MCLifecycle == {"CreateQuiz", "DeleteQuiz", "StartAttempt", "SubmitAttempt",
                "GradeSubmission", "Enroll", "Unenroll", "Fail"}

\* The workload that reads through the caches.
MCCaching == {"CreateQuiz", "GetQuiz", "UpdateQuiz", "DeleteQuiz", "ListQuizzes",
              "StartAttempt", "SubmitAttempt", "GradeSubmission", "GetGradebook",
              "Enroll", "Expire", "Fail"}

\* No failures and no enrolment changes: what goes wrong here goes wrong by the
\* order of the handlers' steps alone.
MCGrading == {"CreateQuiz", "StartAttempt", "SubmitAttempt", "GradeSubmission", "Enroll"}
MCReporting == MCGrading \union {"GetGradebook"}

\* Goroutines, attempts and teachers are interchangeable.
MCSymmetry == Permutations(Handlers) \union Permutations(Attempts)
                                     \union Permutations(Teachers)
=============================================================================
