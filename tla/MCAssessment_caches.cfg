\* Two goroutines; every operation of the service; Redis expiring keys.
SPECIFICATION Spec
CONSTANTS
    q1 = q1  a1 = a1  h1 = h1  h2 = h2  t1 = t1  s1 = s1  c1 = c1  v1 = v1  v2 = v2
    Null = Null
    Quizzes = {q1}
    Attempts = {a1}
    Courses = {c1}
    Teachers = {t1}
    Students = {s1}
    Titles = {v1, v2}
    Handlers = {h1, h2}
    Answers <- MCAnswers
    Scores <- MCScores
    AutoScore <- MCAutoScore
    Workload <- MCCaching
    MaxEvents = 4
SYMMETRY MCSymmetry
INVARIANT GradebookShowsAnnouncedScores
INVARIANT CachedQuizExisted
INVARIANT QuizEventsInOrder
