\* Two goroutines and one attempt: a grade is overwritten by a late submission.
SPECIFICATION Spec
CONSTANTS
    q1 = q1  a1 = a1  h1 = h1  h2 = h2  t1 = t1  s1 = s1  c1 = c1  v1 = v1
    Null = Null
    Quizzes = {q1}
    Attempts = {a1}
    Courses = {c1}
    Teachers = {t1}
    Students = {s1}
    Titles = {v1}
    Handlers = {h1, h2}
    Answers <- MCAnswers
    Scores <- MCScores
    AutoScore <- MCAutoScore
    Workload <- MCGrading
    MaxEvents = 4
PROPERTY GradeSurvives
