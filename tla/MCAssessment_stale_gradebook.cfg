\* Two goroutines: a gradebook read before a grade is cached after its eviction.
SPECIFICATION Spec
CONSTANTS
    q1 = q1  a1 = a1  h1 = h1  h2 = h2  t1 = t1  s1 = s1  c1 = c1  v1 = v1
    Null = Null
    Quizzes = {q1}
    Attempts = {a1}
    Courses = {c1}
    Teachers = {t1}
    Students = {s1}
    Titles = {v1}
    Handlers = {h1, h2}
    Answers <- MCAnswers
    Scores <- MCScores
    AutoScore <- MCAutoScore
    Workload <- MCReporting
    MaxEvents = 4
INVARIANT GradebookReflectsGrades
