------------------------ MODULE AssessmentLedgerProofs ------------------------
(***************************************************************************)
(* Proofs about the ledger: its type invariant and, for every value of the *)
(* constants, the five invariants and the action property it states.       *)
(***************************************************************************)
EXTENDS AssessmentLedger, TLAPS

LEMMA NullFacts ==
    /\ Null \notin Scores /\ Null \notin Answers
    /\ Null \notin QuizRow /\ Null \notin AttemptRow
    /\ AutoScore \in [Answers -> Scores]
BY DataAssumption

\* The events of one type about one id after one more event was appended.
LEMMA AppendEvents ==
    ASSUME TablesOK, NEW e \in OutboxRow, outbox' = Append(outbox, e)
    PROVE  /\ outbox' \in Seq(OutboxRow)
           /\ Len(outbox) \in Nat
           /\ DOMAIN outbox = 1..Len(outbox)
           /\ DOMAIN outbox' = 1..(Len(outbox) + 1)
           /\ outbox'[Len(outbox) + 1] = e
           /\ \A i \in DOMAIN outbox : outbox'[i] = outbox[i] /\ i \in DOMAIN outbox'
           /\ \A type, id :
                EventsOf(type, id)' =
                  IF e.type = type /\ e.of = id
                  THEN EventsOf(type, id) \union {Len(outbox) + 1}
                  ELSE EventsOf(type, id)
<1> USE DEF TablesOK
<1>1. /\ outbox' \in Seq(OutboxRow)
      /\ Len(outbox) \in Nat
      /\ DOMAIN outbox = 1..Len(outbox)
      /\ DOMAIN outbox' = 1..(Len(outbox) + 1)
      /\ outbox'[Len(outbox) + 1] = e
  OBVIOUS
<1>2. \A i \in DOMAIN outbox : outbox'[i] = outbox[i] /\ i \in DOMAIN outbox'
  OBVIOUS
<1>3. ASSUME NEW type, NEW id
      PROVE  EventsOf(type, id)' =
                  IF e.type = type /\ e.of = id
                  THEN EventsOf(type, id) \union {Len(outbox) + 1}
                  ELSE EventsOf(type, id)
  <2>1. DOMAIN outbox' = DOMAIN outbox \union {Len(outbox) + 1}
    BY <1>1
  <2> QED BY <1>1, <1>2, <2>1 DEF EventsOf
<1> QED BY <1>1, <1>2, <1>3

\* The inductive invariant.  QuizRowMatchesEvents is what makes the order of the
\* events of a quiz inductive: it turns "there is a row" into "not deleted yet".
LedgerInv ==
    /\ TablesOK
    /\ AttemptsHaveQuiz
    /\ EventsMatchStatus
    /\ RowsFitStatus
    /\ GradedAfterSubmitted
    /\ ScoresWereAnnounced
    /\ QuizRowMatchesEvents
    /\ QuizEventsInOrder

LEMMA InitLedgerInv == Init => LedgerInv
<1> SUFFICES ASSUME Init PROVE LedgerInv
  OBVIOUS
<1>1. /\ TablesOK
      /\ \A a \in Attempts : attempts[a] = Null
      /\ \A q \in Quizzes : quizzes[q] = Null
      /\ DOMAIN outbox = {}
  BY DEF Init, TablesOK
<1>2. \A type, id : EventsOf(type, id) = {} /\ ~Happened(type, id)
  BY <1>1 DEF EventsOf, Happened
<1> QED
  BY <1>1, <1>2 DEF LedgerInv, AttemptsHaveQuiz, EventsMatchStatus, RowsFitStatus,
     GradedAfterSubmitted, ScoresWereAnnounced, QuizRowMatchesEvents, QuizEventsInOrder

\* What an event of a quiz leaves as it was: everything known of attempts.
LEMMA QuizEventKeepsAttempts ==
    ASSUME LedgerInv, NEW q \in Quizzes, NEW type \in QuizEvents,
           Append1(type, q, Null), UNCHANGED attempts
    PROVE  /\ EventsMatchStatus' /\ RowsFitStatus'
           /\ GradedAfterSubmitted' /\ ScoresWereAnnounced'
<1> DEFINE e == [type |-> type, of |-> q, score |-> Null]
<1>1. e \in OutboxRow /\ outbox' = Append(outbox, e)
  BY DEF OutboxRow, Append1
<1>2. /\ \A i \in DOMAIN outbox : outbox'[i] = outbox[i]
      /\ \A t \in AttemptEvents : \A id : EventsOf(t, id)' = EventsOf(t, id)
  BY <1>1, AppendEvents DEF LedgerInv, QuizEvents, AttemptEvents
<1>3. \A t \in AttemptEvents : \A id : /\ Happened(t, id)' = Happened(t, id)
                                       /\ Announced(t, id)' = Announced(t, id)
  BY <1>2 DEF Happened, Announced, EventsOf
<1>4. "attempt.submitted" \in AttemptEvents /\ "submission.graded" \in AttemptEvents
  BY DEF AttemptEvents
<1>5. EventsMatchStatus'
  BY <1>3, <1>4 DEF LedgerInv, EventsMatchStatus
<1>6. GradedAfterSubmitted'
  BY <1>2, <1>4 DEF LedgerInv, GradedAfterSubmitted
<1>7. ScoresWereAnnounced'
  BY <1>3, <1>4 DEF LedgerInv, ScoresWereAnnounced
<1>8. RowsFitStatus'
  BY DEF LedgerInv, RowsFitStatus
<1> QED BY <1>5, <1>6, <1>7, <1>8

\* What an event of a quiz, appended in an order the row allows, does to the order
\* of that quiz's events.
LEMMA QuizEventKeepsOrder ==
    ASSUME LedgerInv, NEW q \in Quizzes, NEW type \in QuizEvents,
           Append1(type, q, Null),
           type = "quiz.created" => quizzes[q] = Null /\ ~Happened("quiz.created", q),
           type # "quiz.created" => quizzes[q] # Null,
           \A p \in Quizzes : p # q => quizzes'[p] = quizzes[p],
           quizzes'[q] # Null <=> type # "quiz.deleted"
    PROVE  QuizRowMatchesEvents' /\ QuizEventsInOrder'
<1> DEFINE e == [type |-> type, of |-> q, score |-> Null]
<1>1. e \in OutboxRow /\ outbox' = Append(outbox, e)
  BY DEF OutboxRow, Append1
<1>2. /\ Len(outbox) \in Nat
      /\ DOMAIN outbox = 1..Len(outbox)
      /\ DOMAIN outbox' = 1..(Len(outbox) + 1)
      /\ outbox'[Len(outbox) + 1] = e
      /\ \A i \in DOMAIN outbox : outbox'[i] = outbox[i]
      /\ \A t, id : EventsOf(t, id)' =
                      IF e.type = t /\ e.of = id
                      THEN EventsOf(t, id) \union {Len(outbox) + 1}
                      ELSE EventsOf(t, id)
  BY <1>1, AppendEvents DEF LedgerInv
<1>3. \A t, id : Happened(t, id)' <=> (Happened(t, id) \/ (t = type /\ id = q))
  BY <1>2 DEF Happened
<1>4. QuizRowMatchesEvents'
  BY <1>3 DEF LedgerInv, QuizRowMatchesEvents, QuizEvents
<1>5. \A i \in DOMAIN outbox : outbox[i].of = q /\ outbox[i].type \in QuizEvents =>
          type # "quiz.created" /\ outbox[i].type # "quiz.deleted"
  <2> SUFFICES ASSUME NEW i \in DOMAIN outbox, outbox[i].of = q,
                      outbox[i].type \in QuizEvents
               PROVE  type # "quiz.created" /\ outbox[i].type # "quiz.deleted"
    OBVIOUS
  <2>1. Happened(outbox[i].type, q)
    BY DEF Happened, EventsOf
  <2> QED BY <2>1 DEF LedgerInv, QuizRowMatchesEvents, QuizEvents
<1>6. QuizEventsInOrder'
  <2> SUFFICES ASSUME NEW p \in Quizzes, NEW i \in DOMAIN outbox', NEW j \in DOMAIN outbox',
                      i < j,
                      outbox'[i].of = p, outbox'[i].type \in QuizEvents,
                      outbox'[j].of = p, outbox'[j].type \in QuizEvents
               PROVE  outbox'[i].type # "quiz.deleted" /\ outbox'[j].type # "quiz.created"
    BY DEF QuizEventsInOrder
  <2>1. i \in DOMAIN outbox /\ outbox'[i] = outbox[i]
    BY <1>2
  <2>2. CASE j \in DOMAIN outbox
    <3>1. outbox'[j] = outbox[j]
      BY <1>2, <2>2
    <3> QED BY <2>1, <2>2, <3>1 DEF LedgerInv, QuizEventsInOrder
  <2>3. CASE j = Len(outbox) + 1
    <3>1. outbox'[j].of = q /\ outbox'[j].type = type
      BY <1>2, <2>3
    <3> QED BY <2>1, <3>1, <1>5
  <2> QED BY <1>2, <2>2, <2>3
<1> QED BY <1>4, <1>6

LEMMA QuizActionsKeepLedgerInv ==
    ASSUME LedgerInv, NEW q \in Quizzes,
           \/ \E row \in QuizRow : CreateQuiz(q, row)
           \/ \E title \in Titles : UpdateQuiz(q, title)
           \/ DeleteQuiz(q)
    PROVE  LedgerInv'
<1>1. ASSUME NEW type \in QuizEvents, Append1(type, q, Null), UNCHANGED attempts,
             quizzes' \in [Quizzes -> QuizRow \union {Null}]
      PROVE  TablesOK'
  <2>1. [type |-> type, of |-> q, score |-> Null] \in OutboxRow
    BY <1>1 DEF OutboxRow
  <2> QED BY <1>1, <2>1, AppendEvents DEF LedgerInv, TablesOK, Append1
<1>2. ASSUME NEW row \in QuizRow, CreateQuiz(q, row)
      PROVE  LedgerInv'
  <2> USE <1>2, NullFacts DEF CreateQuiz
  <2>1. /\ quizzes' \in [Quizzes -> QuizRow \union {Null}]
        /\ quizzes'[q] # Null
        /\ \A p \in Quizzes : p # q => quizzes'[p] = quizzes[p]
    BY DEF LedgerInv, TablesOK
  <2>2. "quiz.created" \in QuizEvents
    BY DEF QuizEvents
  <2>3. TablesOK'
    BY <1>1, <2>1, <2>2
  <2>4. AttemptsHaveQuiz'
    BY <2>1 DEF LedgerInv, AttemptsHaveQuiz, TablesOK, AttemptRow
  <2>5. /\ EventsMatchStatus' /\ RowsFitStatus'
        /\ GradedAfterSubmitted' /\ ScoresWereAnnounced'
    BY <2>2, QuizEventKeepsAttempts
  <2>6. QuizRowMatchesEvents' /\ QuizEventsInOrder'
    BY <2>1, <2>2, QuizEventKeepsOrder
  <2> QED BY <2>3, <2>4, <2>5, <2>6 DEF LedgerInv
<1>3. ASSUME NEW title \in Titles, UpdateQuiz(q, title)
      PROVE  LedgerInv'
  <2> USE <1>3, NullFacts DEF UpdateQuiz
  <2>1. /\ quizzes' \in [Quizzes -> QuizRow \union {Null}]
        /\ quizzes'[q] # Null
        /\ \A p \in Quizzes : p # q => quizzes'[p] = quizzes[p]
    BY DEF LedgerInv, TablesOK, QuizRow
  <2>2. "quiz.updated" \in QuizEvents
    BY DEF QuizEvents
  <2>3. TablesOK'
    BY <1>1, <2>1, <2>2
  <2>4. AttemptsHaveQuiz'
    BY <2>1 DEF LedgerInv, AttemptsHaveQuiz, TablesOK, AttemptRow
  <2>5. /\ EventsMatchStatus' /\ RowsFitStatus'
        /\ GradedAfterSubmitted' /\ ScoresWereAnnounced'
    BY <2>2, QuizEventKeepsAttempts
  <2>6. QuizRowMatchesEvents' /\ QuizEventsInOrder'
    BY <2>1, <2>2, QuizEventKeepsOrder
  <2> QED BY <2>3, <2>4, <2>5, <2>6 DEF LedgerInv
<1>4. ASSUME DeleteQuiz(q)
      PROVE  LedgerInv'
  <2> USE <1>4 DEF DeleteQuiz
  <2>1. /\ quizzes' \in [Quizzes -> QuizRow \union {Null}]
        /\ quizzes'[q] = Null
        /\ \A p \in Quizzes : p # q => quizzes'[p] = quizzes[p]
    BY DEF LedgerInv, TablesOK
  <2>2. "quiz.deleted" \in QuizEvents
    BY DEF QuizEvents
  <2>3. TablesOK'
    BY <1>1, <2>1, <2>2
  <2>4. AttemptsHaveQuiz'
    BY <2>1 DEF LedgerInv, AttemptsHaveQuiz, TablesOK, AttemptRow, Unreferenced
  <2>5. /\ EventsMatchStatus' /\ RowsFitStatus'
        /\ GradedAfterSubmitted' /\ ScoresWereAnnounced'
    BY <2>2, QuizEventKeepsAttempts
  <2>6. QuizRowMatchesEvents' /\ QuizEventsInOrder'
    BY <2>1, <2>2, QuizEventKeepsOrder
  <2> QED BY <2>3, <2>4, <2>5, <2>6 DEF LedgerInv
<1> QED BY <1>2, <1>3, <1>4

LEMMA StartKeepsLedgerInv ==
    ASSUME LedgerInv, NEW a \in Attempts, NEW q \in Quizzes, NEW s \in Students,
           StartAttempt(a, q, s)
    PROVE  LedgerInv'
<1> USE NullFacts DEF StartAttempt
<1> DEFINE row == [quiz |-> q, student |-> s, status |-> "in_progress",
                   answers |-> Null, auto |-> Null, manual |-> Null]
<1>1. /\ row \in AttemptRow
      /\ attempts' = [attempts EXCEPT ![a] = row]
      /\ attempts' \in [Attempts -> AttemptRow \union {Null}]
      /\ attempts'[a] = row /\ row # Null
      /\ \A b \in Attempts : b # a => attempts'[b] = attempts[b]
  BY DEF LedgerInv, TablesOK, AttemptRow, Statuses
<1>2. /\ DOMAIN outbox' = DOMAIN outbox
      /\ \A i \in DOMAIN outbox : outbox'[i] = outbox[i]
      /\ \A t, id : /\ EventsOf(t, id)' = EventsOf(t, id)
                    /\ Happened(t, id)' = Happened(t, id)
                    /\ Announced(t, id)' = Announced(t, id)
  BY DEF EventsOf, Happened, Announced
<1>3. TablesOK'
  BY <1>1 DEF LedgerInv, TablesOK
<1>4. AttemptsHaveQuiz'
  BY <1>1 DEF LedgerInv, AttemptsHaveQuiz
<1>5. EventsMatchStatus'
  BY <1>1, <1>2 DEF LedgerInv, EventsMatchStatus
<1>6. GradedAfterSubmitted'
  BY <1>2 DEF LedgerInv, GradedAfterSubmitted
<1>7. ScoresWereAnnounced'
  BY <1>1, <1>2 DEF LedgerInv, ScoresWereAnnounced
<1>8. QuizRowMatchesEvents'
  BY <1>2 DEF LedgerInv, QuizRowMatchesEvents
<1>9. QuizEventsInOrder'
  BY DEF LedgerInv, QuizEventsInOrder
<1>10. RowsFitStatus'
  BY <1>1 DEF LedgerInv, RowsFitStatus
<1> QED
  BY <1>3, <1>4, <1>5, <1>6, <1>7, <1>8, <1>9, <1>10 DEF LedgerInv

\* Submit and Grade share their shape: five columns of one row, and an event.
LEMMA AttemptEventKeepsLedgerInv ==
    ASSUME LedgerInv, NEW a \in Attempts, NEW type \in AttemptEvents,
           NEW score \in Scores, NEW sheet \in Answers,
           NEW status \in Statuses, NEW manual \in Scores \union {Null},
           attempts[a] # Null,
           attempts' = [attempts EXCEPT
                          ![a] = [@ EXCEPT !.status = status, !.answers = sheet,
                                           !.auto = AutoScore[sheet], !.manual = manual]],
           Append1(type, a, score),
           UNCHANGED quizzes,
           \/ /\ type = "attempt.submitted" /\ status = "submitted"
              /\ score = AutoScore[sheet] /\ manual = Null
           \/ /\ type = "submission.graded" /\ status = "graded"
              /\ AutoScore[sheet] \in Announced("attempt.submitted", a)
              /\ manual = score
    PROVE  LedgerInv'
<1> DEFINE e == [type |-> type, of |-> a, score |-> score]
<1> USE NullFacts
<1>1. e \in OutboxRow /\ outbox' = Append(outbox, e)
  BY DEF OutboxRow, Append1
<1>2. /\ Len(outbox) \in Nat
      /\ DOMAIN outbox = 1..Len(outbox)
      /\ DOMAIN outbox' = 1..(Len(outbox) + 1)
      /\ outbox'[Len(outbox) + 1] = e
      /\ \A i \in DOMAIN outbox : outbox'[i] = outbox[i]
      /\ \A t, id : EventsOf(t, id)' =
                      IF e.type = t /\ e.of = id
                      THEN EventsOf(t, id) \union {Len(outbox) + 1}
                      ELSE EventsOf(t, id)
      /\ outbox' \in Seq(OutboxRow)
  BY <1>1, AppendEvents DEF LedgerInv
<1>3. /\ \A t, id : Happened(t, id)' <=> (Happened(t, id) \/ (t = type /\ id = a))
      /\ \A t, id : Announced(t, id)' =
           IF t = type /\ id = a THEN Announced(t, id) \union {score}
                                 ELSE Announced(t, id)
  <2>1. \A t, id : EventsOf(t, id)' # {} <=> (EventsOf(t, id) # {} \/ (t = type /\ id = a))
    BY <1>2
  <2>2. ASSUME NEW t, NEW id
        PROVE  Announced(t, id)' =
           IF t = type /\ id = a THEN Announced(t, id) \union {score}
                                 ELSE Announced(t, id)
    <3>1. \A i \in EventsOf(t, id) : outbox'[i] = outbox[i]
      BY <1>2 DEF EventsOf
    <3>2. CASE t = type /\ id = a
      <4>1. EventsOf(t, id)' = EventsOf(t, id) \union {Len(outbox) + 1}
        BY <1>2, <3>2
      <4>2. outbox'[Len(outbox) + 1].score = score
        BY <1>2
      <4> QED BY <3>1, <3>2, <4>1, <4>2 DEF Announced
    <3>3. CASE ~(t = type /\ id = a)
      <4>1. EventsOf(t, id)' = EventsOf(t, id)
        BY <1>2, <3>3
      <4> QED BY <3>1, <3>3, <4>1 DEF Announced
    <3> QED BY <3>2, <3>3
  <2> QED BY <2>1, <2>2 DEF Happened
<1>4. /\ attempts[a] \in AttemptRow
      /\ attempts'[a] = [attempts[a] EXCEPT !.status = status, !.answers = sheet,
                                            !.auto = AutoScore[sheet], !.manual = manual]
      /\ \A b \in Attempts : b # a => attempts'[b] = attempts[b]
  BY DEF LedgerInv, TablesOK
<1>5. /\ attempts'[a] \in AttemptRow
      /\ attempts'[a] # Null
      /\ attempts'[a].quiz = attempts[a].quiz
      /\ attempts'[a].student = attempts[a].student
      /\ attempts'[a].status = status /\ attempts'[a].answers = sheet
      /\ attempts'[a].auto = AutoScore[sheet] /\ attempts'[a].manual = manual
  <2>1. AutoScore[sheet] \in Scores
    OBVIOUS
  <2> DEFINE copy == [attempts[a] EXCEPT !.status = status, !.answers = sheet,
                                         !.auto = AutoScore[sheet], !.manual = manual]
  <2>2. attempts[a] \in AttemptRow /\ attempts'[a] = copy
    BY <1>4
  <2>3. /\ copy \in AttemptRow
        /\ copy.quiz = attempts[a].quiz
        /\ copy.student = attempts[a].student
        /\ copy.status = status /\ copy.answers = sheet
        /\ copy.auto = AutoScore[sheet] /\ copy.manual = manual
    <3>1. [attempts[a] EXCEPT !.status = status] \in AttemptRow
      BY <2>2 DEF AttemptRow
    <3>2. [attempts[a] EXCEPT !.status = status, !.answers = sheet] \in AttemptRow
      BY <3>1 DEF AttemptRow
    <3>3. [attempts[a] EXCEPT !.status = status, !.answers = sheet,
                              !.auto = AutoScore[sheet]] \in AttemptRow
      BY <2>1, <3>2 DEF AttemptRow
    <3>4. copy \in AttemptRow
      BY <3>3 DEF AttemptRow
    <3> QED BY <2>2, <3>4 DEF AttemptRow
  <2> HIDE DEF copy
  <2> QED BY <2>2, <2>3
<1>6. TablesOK'
  BY <1>2, <1>5 DEF LedgerInv, TablesOK
<1>7. AttemptsHaveQuiz'
  BY <1>4, <1>5 DEF LedgerInv, AttemptsHaveQuiz
<1>8. EventsMatchStatus'
  BY <1>3, <1>4, <1>5 DEF LedgerInv, EventsMatchStatus, Announced, Happened
<1>9. GradedAfterSubmitted'
  <2> SUFFICES ASSUME NEW b \in Attempts, NEW j \in EventsOf("submission.graded", b)'
               PROVE  \E i \in EventsOf("attempt.submitted", b)' : i < j
    BY DEF GradedAfterSubmitted
  <2>1. CASE j \in EventsOf("submission.graded", b)
    BY <1>2, <2>1 DEF LedgerInv, GradedAfterSubmitted
  <2>2. CASE j \notin EventsOf("submission.graded", b)
    <3>1. type = "submission.graded" /\ b = a /\ j = Len(outbox) + 1
      BY <1>2, <2>2
    <3>2. PICK i \in EventsOf("attempt.submitted", a) : TRUE
      BY <3>1 DEF Announced
    <3>3. i \in 1..Len(outbox) /\ i \in EventsOf("attempt.submitted", a)'
      BY <1>2, <3>1, <3>2 DEF EventsOf
    <3> QED BY <1>2, <3>1, <3>3
  <2> QED BY <2>1, <2>2
<1>10. ScoresWereAnnounced'
  <2> SUFFICES ASSUME NEW b \in Attempts, attempts'[b] # Null
               PROVE  /\ attempts'[b].auto = Null <=> attempts'[b].answers = Null
                      /\ attempts'[b].auto # Null =>
                           /\ attempts'[b].auto = AutoScore[attempts'[b].answers]
                           /\ attempts'[b].auto \in Announced("attempt.submitted", b)'
                      /\ attempts'[b].manual # Null =>
                           attempts'[b].manual \in Announced("submission.graded", b)'
    BY DEF ScoresWereAnnounced
  <2>1. CASE b = a
    BY <1>3, <1>5, <2>1
  <2>2. CASE b # a
    BY <1>3, <1>4, <2>2 DEF LedgerInv, ScoresWereAnnounced
  <2> QED BY <2>1, <2>2
<1>11. QuizRowMatchesEvents'
  BY <1>3 DEF LedgerInv, QuizRowMatchesEvents, AttemptEvents
<1>12. QuizEventsInOrder'
  <2>1. e.type \notin QuizEvents
    BY DEF AttemptEvents, QuizEvents
  <2>2. \A i \in DOMAIN outbox' : outbox'[i].type \in QuizEvents =>
            i \in DOMAIN outbox /\ outbox'[i] = outbox[i]
    BY <1>2, <2>1
  <2> QED BY <2>2 DEF LedgerInv, QuizEventsInOrder
<1>13. RowsFitStatus'
  BY <1>4, <1>5 DEF LedgerInv, RowsFitStatus
<1> QED
  BY <1>6, <1>7, <1>8, <1>9, <1>10, <1>11, <1>12, <1>13 DEF LedgerInv

LEMMA NextLedgerInv == LedgerInv /\ [Next]_vars => LedgerInv'
<1> SUFFICES ASSUME LedgerInv, [Next]_vars PROVE LedgerInv'
  OBVIOUS
<1>1. ASSUME NEW q \in Quizzes,
             \/ \E row \in QuizRow : CreateQuiz(q, row)
             \/ \E title \in Titles : UpdateQuiz(q, title)
             \/ DeleteQuiz(q)
      PROVE  LedgerInv'
  BY <1>1, QuizActionsKeepLedgerInv
<1>2. ASSUME NEW a \in Attempts, NEW q \in Quizzes, NEW s \in Students,
             StartAttempt(a, q, s)
      PROVE  LedgerInv'
  BY <1>2, StartKeepsLedgerInv
<1>3. ASSUME NEW a \in Attempts, NEW sheet \in Answers, Submit(a, sheet)
      PROVE  LedgerInv'
  <2>1. /\ AutoScore[sheet] \in Scores
        /\ "submitted" \in Statuses
        /\ "attempt.submitted" \in AttemptEvents
    BY NullFacts DEF Statuses, AttemptEvents
  <2> QED BY <1>3, <2>1, AttemptEventKeepsLedgerInv DEF Submit
<1>4. ASSUME NEW a \in Attempts, NEW sheet \in Answers, NEW score \in Scores,
             Grade(a, score, sheet)
      PROVE  LedgerInv'
  <2>1. "graded" \in Statuses /\ "submission.graded" \in AttemptEvents
    BY DEF Statuses, AttemptEvents
  <2> QED BY <1>4, <2>1, AttemptEventKeepsLedgerInv DEF Grade
<1>5. CASE UNCHANGED vars
  BY <1>5 DEF vars, LedgerInv, TablesOK, AttemptsHaveQuiz, EventsMatchStatus,
     GradedAfterSubmitted, ScoresWereAnnounced, RowsFitStatus, QuizRowMatchesEvents,
     QuizEventsInOrder, EventsOf, Happened, Announced
<1> QED BY <1>1, <1>2, <1>3, <1>4, <1>5 DEF Next

\* Every reachable state of the ledger satisfies all it states of a state.
THEOREM LedgerInvariant == Spec => []LedgerInv
BY InitLedgerInv, NextLedgerInv, PTL DEF Spec

-------------------------------------------------------------------------------
\* What every step keeps: an attempt with its quiz and its student ...
AttemptsKept ==
    \A a \in Attempts : attempts[a] # Null =>
        /\ attempts'[a] # Null
        /\ attempts'[a].quiz = attempts[a].quiz
        /\ attempts'[a].student = attempts[a].student

\* ... and the owner and the course of a quiz, and what was announced.
OwnersKept ==
    \A q \in Quizzes : quizzes[q] # Null /\ quizzes'[q] # Null =>
        /\ quizzes'[q].teacher = quizzes[q].teacher
        /\ quizzes'[q].course = quizzes[q].course

NewsKept == \A type, id : Announced(type, id) \subseteq Announced(type, id)'

LEMMA StepKeepsAttempts == LedgerInv /\ Next => AttemptsKept
<1> SUFFICES ASSUME LedgerInv, Next PROVE AttemptsKept
  OBVIOUS
<1> USE NullFacts DEF AttemptsKept
<1>1. \A a \in Attempts : attempts[a] # Null => attempts[a] \in AttemptRow
  BY DEF LedgerInv, TablesOK
<1>2. ASSUME UNCHANGED attempts PROVE AttemptsKept
  BY <1>2
<1>3. ASSUME NEW a \in Attempts, NEW q \in Quizzes, NEW s \in Students,
             StartAttempt(a, q, s)
      PROVE  AttemptsKept
  BY <1>3 DEF StartAttempt, LedgerInv, TablesOK
<1>4. ASSUME NEW a \in Attempts, NEW sheet \in Answers,
             Submit(a, sheet) \/ \E score \in Scores : Grade(a, score, sheet)
      PROVE  AttemptsKept
  <2>1. PICK status \in Statuses, manual \in Scores \union {Null} :
            attempts' = [attempts EXCEPT
                           ![a] = [@ EXCEPT !.status = status, !.answers = sheet,
                                     !.auto = AutoScore[sheet], !.manual = manual]]
    BY <1>4 DEF Submit, Grade, Statuses
  <2>2. attempts[a] # Null /\ attempts[a] \in AttemptRow
    BY <1>1, <1>4 DEF Submit, Grade
  <2>3. /\ attempts'[a] \in AttemptRow
        /\ attempts'[a].quiz = attempts[a].quiz
        /\ attempts'[a].student = attempts[a].student
        /\ \A b \in Attempts : b # a => attempts'[b] = attempts[b]
    BY <2>1, <2>2 DEF AttemptRow, LedgerInv, TablesOK
  <2> QED BY <2>3
<1> QED BY <1>2, <1>3, <1>4 DEF Next, CreateQuiz, UpdateQuiz, DeleteQuiz

LEMMA StepKeepsOwners == LedgerInv /\ Next => OwnersKept
<1> SUFFICES ASSUME LedgerInv, Next PROVE OwnersKept
  OBVIOUS
<1> USE NullFacts DEF OwnersKept
<1>1. ASSUME UNCHANGED quizzes PROVE OwnersKept
  BY <1>1
<1>2. ASSUME NEW q \in Quizzes, NEW row \in QuizRow, CreateQuiz(q, row) PROVE OwnersKept
  BY <1>2 DEF CreateQuiz, LedgerInv, TablesOK
<1>3. ASSUME NEW q \in Quizzes, NEW title \in Titles, UpdateQuiz(q, title)
      PROVE  OwnersKept
  BY <1>3 DEF UpdateQuiz, LedgerInv, TablesOK, QuizRow
<1>4. ASSUME NEW q \in Quizzes, DeleteQuiz(q) PROVE OwnersKept
  BY <1>4 DEF DeleteQuiz, LedgerInv, TablesOK
<1> QED BY <1>1, <1>2, <1>3, <1>4 DEF Next, StartAttempt, Submit, Grade

LEMMA StepKeepsNews == LedgerInv /\ Next => NewsKept
<1> SUFFICES ASSUME LedgerInv, Next PROVE NewsKept
  OBVIOUS
<1>1. outbox \in Seq(OutboxRow)
  BY DEF LedgerInv, TablesOK
<1>2. outbox' = outbox \/ \E e : outbox' = Append(outbox, e)
  BY DEF Next, CreateQuiz, UpdateQuiz, DeleteQuiz, StartAttempt, Submit, Grade, Append1
<1>3. \A i \in DOMAIN outbox : i \in DOMAIN outbox' /\ outbox'[i] = outbox[i]
  BY <1>1, <1>2
<1>4. \A type, id : \A i \in EventsOf(type, id) :
          i \in EventsOf(type, id)' /\ outbox'[i] = outbox[i]
  BY <1>3 DEF EventsOf
<1> QED BY <1>4 DEF NewsKept, Announced

LEMMA StutterKeepsAll == UNCHANGED vars => AttemptsKept /\ OwnersKept /\ NewsKept
BY DEF vars, AttemptsKept, OwnersKept, NewsKept, Announced, EventsOf

\* No step of the ledger loses an attempt or changes whose it is.
THEOREM LedgerNeverLoses == Spec => AttemptsNeverLost
<1>1. LedgerInv /\ [Next]_vars => [AttemptsKept]_vars
  BY StepKeepsAttempts
<1>2. AttemptsNeverLost <=> [][AttemptsKept]_vars
  BY DEF AttemptsNeverLost, AttemptsKept
<1> QED BY <1>1, <1>2, LedgerInvariant, PTL DEF Spec
=============================================================================
