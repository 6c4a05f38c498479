\* Two concurrent goroutines, one quiz, two attempts, at most five events.
SPECIFICATION Spec
CONSTANTS
    q1 = q1  a1 = a1  a2 = a2  h1 = h1  h2 = h2
    t1 = t1  t2 = t2  s1 = s1  c1 = c1  v1 = v1
    Null = Null
    Quizzes = {q1}
    Attempts = {a1, a2}
    Courses = {c1}
    Teachers = {t1, t2}
    Students = {s1}
    Titles = {v1}
    Handlers = {h1, h2}
    Answers <- MCAnswers
    Scores <- MCScores
    AutoScore <- MCAutoScore
    Workload <- MCLifecycle
    MaxEvents = 5
SYMMETRY MCSymmetry
INVARIANT TypeOK
INVARIANT AttemptsHaveQuiz
INVARIANT EventsMatchStatus
INVARIANT GradedAfterSubmitted
INVARIANT ScoresWereAnnounced
INVARIANT CopiesAreGrounded
PROPERTY AttemptsNeverLost
PROPERTY ImplementsLedger
PROPERTY OnlyOwnerGrades
