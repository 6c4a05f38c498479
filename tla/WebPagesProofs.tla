--------------------------- MODULE WebPagesProofs ---------------------------
(***************************************************************************)
(* Proofs about WebPages, for any slots, texts, roles and pages.  The      *)
(* inductive invariant is built in layers, each proved from the ones       *)
(* before: what a request and the job of its handler have to do with each  *)
(* other and with the form, what a list may lack, what the server has      *)
(* stored for whom, what materials have been seen, and what has been       *)
(* created on the page.                                                    *)
(***************************************************************************)
EXTENDS WebPages, TLAPS

(* A create is about a text of its list.                                   *)
CallsNamed ==
    \A s \in Slots : call[s].op = "create" =>
        call[s].item \in Items /\ call[s].board = BoardOf(call[s].item)

(* Which request the handler of a slot waits for.                          *)
Fits(j, c) ==
    /\ j.ear = "none" <=> j.task = "none"
    /\ j.task \in {"load", "readback"} => c.op = "list" /\ c.at # "idle"
    /\ j.task = "readback" => j.about \in Weeks /\ c.board = "weeks"
    /\ j.task = "create" => c.op = "create" /\ c.at # "idle" /\ c.item = j.about
    /\ j.task \in {"materials", "refused"} => c.at = "idle"
    /\ j.task = "materials" => j.about \in Weeks
    /\ j.task = "refused" => j.about \in Forms \union {"enrollment"}

JobsFit == \A s \in Slots : Fits(job[s], call[s])

(* A form is that of the mounted page, with a text of its own.             *)
FormFits ==
    /\ form.name = "none" => form.text = None /\ ~form.visible
    /\ form.name # "none" =>
          /\ page = Form[form.name].on
          /\ form.text \in TextsFor(form.name) \union {None}

ServerFits == ListsTypeOK /\ CallsNamed

JobsTyped ==
    /\ job \in [Slots -> Job]
    /\ \A s \in Slots : job[s].task \in {"create", "readback"} => job[s].about \in Items

Requests == ServerFits /\ JobsTyped /\ JobsFit

(* What the page shows and what the histories say.                         *)
ViewTyped ==
    /\ role \in RoleChoices
    /\ page \in Pages
    /\ view \in {"loading", "ready", "missing"}
    /\ shown \subseteq Items /\ late \subseteq Items
    /\ form \in [name : Forms \union {"none"}, visible : BOOLEAN, text : Texts]
    /\ toast \in [ok : BOOLEAN, about : Subjects] \union {None}
    /\ open \subseteq Weeks /\ known \subseteq Weeks
    /\ mine \subseteq Items /\ doubtful \subseteq Items /\ overlapped \subseteq Weeks

Base == Requests /\ ViewTyped /\ FormFits

(* A list that is on the server while a create is between its row and the  *)
(* end of its evictions makes the text one that raced; one that has left   *)
(* the server by then has missed it.                                       *)
RacesAreSeen ==
    \A b \in Boards : \A s, t \in Slots :
        Creating(s, b) /\ Listing(t, b) =>
            \/ call[s].item \in raced
            \/ Coming(t, b) /\ call[s].item \in call[t].val \union call[t].missed

Stocked(i) == i \in rows[BoardOf(i)]
Storing(s) == job[s].task \in {"create", "readback"}

(* What is stored, on its way or in the form, without a doubt, is so once. *)
SentOnce ==
    /\ \A s \in Slots :
          call[s].op = "create" /\ call[s].at # "idle" =>
              /\ job[s].task = "create" \/ call[s].item \in doubtful
              /\ (call[s].at \in {"sent", "failed"} /\ Stocked(call[s].item)) =>
                    call[s].item \in doubtful
              /\ call[s].at \in {"stored", "scanned", "answered"} => Stocked(call[s].item)
    /\ \A s \in Slots : job[s].task = "readback" => Stocked(job[s].about)
    /\ \A s, t \in Slots :
          s # t /\ Storing(s) /\ Storing(t) /\ job[s].about = job[t].about
              => job[s].about \in doubtful
    /\ form.text \in Items \ doubtful =>
          /\ Stocked(form.text) => InFlight(form.text)
          /\ \A s \in Slots : Storing(s) /\ job[s].about = form.text => Live(s)

(* Handlers that were started with different materials were started        *)
(* together: whatever one lacks has overlapped.                            *)
Gathering(s) == job[s].task = "materials"

MaterialsMeet ==
    /\ open \subseteq known \union Fetching \union overlapped
    /\ \A s \in Slots : Gathering(s) =>
          /\ known \subseteq job[s].seen \union {job[s].about} \union overlapped
          /\ job[s].seen \subseteq known \union overlapped
    /\ \A s, t \in Slots : Gathering(s) /\ Gathering(t) =>
          /\ job[s].seen \subseteq job[t].seen \union {job[t].about} \union overlapped
          /\ job[s].about = job[t].about \/ job[s].about \in overlapped

(* The list the page is about, and what was created on it.                 *)
HomeOf(i) == IF i \in Courses THEN "courses" ELSE "course"
ListOf(p) == IF p = "course" THEN "weeks" ELSE "courses"
Loading(s) == Live(s) /\ job[s].task = "load"

AtHome(s) ==
    /\ Live(s) /\ Storing(s) => page = HomeOf(job[s].about)
    /\ Loading(s) => call[s].board = ListOf(page)

MineListed ==
    /\ \A i \in mine : Stocked(i) /\ page = HomeOf(i)
    /\ (\A s \in Slots : ~Loading(s)) => mine \subseteq shown \union raced \union late
    /\ \A s \in Slots : AtHome(s)

-----------------------------------------------------------------------------
(* What the proofs use of the tables of pages and forms.                   *)
LEMMA NamesAreForms == "course" \in Forms /\ "week" \in Forms /\ "none" \notin Forms
BY DEF Forms, Form

(* The forms whose calls the server may serve are those of the two lists.  *)
LEMMA StoredForms ==
    \A f \in Forms :
        Form[f].sends \subseteq Remote \ Refused /\ Form[f].sends # {} =>
            /\ f \in {"course", "week"}
            /\ Form[f].typed
            /\ Form[f].on = IF f = "course" THEN "courses" ELSE "course"
<1>1. Forms = {"course", "week", "item", "assignment", "session", "grade",
               "formula", "slot", "news", "notice", "group", "profile"}
    BY DEF Forms, Form
<1>2. /\ Form["course"].typed /\ Form["course"].on = "courses"
      /\ Form["week"].typed /\ Form["week"].on = "course"
    BY DEF Form, CourseForm, WeekForm
<1>3. /\ "courseApi.createMaterial" \in Form["item"].sends
      /\ "assignmentApi.create" \in Form["assignment"].sends
      /\ "sessionApi.create" \in Form["session"].sends
      /\ "gradeApi.create" \in Form["grade"].sends
      /\ "formulaApi.create" \in Form["formula"].sends
      /\ "scheduleApi.create" \in Form["slot"].sends
      /\ "newsApi.create" \in Form["news"].sends
      /\ Form["notice"].sends = {}
      /\ "userApi.createGroup" \in Form["group"].sends
      /\ "userApi.updateProfile" \in Form["profile"].sends
    BY DEF Form, ItemForm, AssignmentForm, SessionForm, GradeForm, FormulaForm,
           SlotForm, NewsForm, NoticeForm, GroupForm, ProfileForm,
           handleAddMaterial, handleCreateAssignment, handleCreateSession,
           handleAddGrade, handleSaveFormula, handleAddSlot, handleCreateNews,
           handleSendNotification, handleCreateGroup, handleSave
<1>4. "courseApi.createMaterial" \in Refused
    BY DEF Refused
<1>5. {"assignmentApi.create", "sessionApi.create", "gradeApi.create",
       "formulaApi.create", "scheduleApi.create", "newsApi.create",
       "userApi.createGroup", "userApi.updateProfile"} \intersect Remote = {}
    BY DEF Remote
<1> QED BY <1>1, <1>2, <1>3, <1>4, <1>5

(* A page loads the list it is about.                                      *)
LEMMA PagesLoad ==
    ASSUME NEW p \in Pages, NEW r, NEW b \in LoadsFor(p, r)
    PROVE  b = IF p = "course" THEN "weeks" ELSE "courses"
<1>1. Pages = {"dashboard", "courses", "schedule", "grades", "attendance", "news",
               "notifications", "analytics", "admin", "profile", "course"}
    BY DEF Pages, navItems
<1>2. PICK c \in Page[p].loads : b \in Listed(c)
    BY DEF LoadsFor
<1>3. \/ c = "courseApi.list" /\ b = "courses"
      \/ c = "courseApi.sections" /\ b = "weeks"
    BY <1>2 DEF Listed
<1>4. "courseApi.sections" \notin Page[p].loads \/ p = "course"
    BY <1>1 DEF Page, DashboardPage, CoursesPage, SchedulePage, GradesPage, AttendancePage,
           NewsPage, NotificationsPage, AnalyticsPage, AdminPage, ProfilePage
<1>5. "courseApi.list" \notin Page["course"].loads
    BY DEF Page, CoursePage
<1> QED BY <1>2, <1>3, <1>4, <1>5

LEMMA BoardsAreTwo ==
    /\ Courses \subseteq Items /\ Weeks \subseteq Items
    /\ \A i \in Items : BoardOf(i) \in Boards /\ (BoardOf(i) = "weeks" <=> i \in Weeks)
                       /\ (BoardOf(i) = "courses" <=> i \in Courses)
BY ListsAssumption DEF Items, BoardOf, Boards

-----------------------------------------------------------------------------
LEMMA RequestTyped ==
    ASSUME NEW o \in Ops, NEW b \in Boards, NEW i \in Items \union {None}, NEW a \in Stages
    PROVE  /\ Request(o, b, i, a) \in Call
           /\ Request(o, b, i, a).op = o /\ Request(o, b, i, a).board = b
           /\ Request(o, b, i, a).item = i /\ Request(o, b, i, a).at = a
BY DEF Request, Call

LEMMA IdleTyped == Idle \in Call /\ Idle.op = "list" /\ Idle.at = "idle"
BY RequestTyped DEF Idle, Ops, Boards, Stages

LEMMA MetAreItems ==
    ASSUME ServerFits, NEW r PROVE MetBy(r) \subseteq Items
BY DEF ServerFits, CallsNamed, MetBy, BeingCreated, Creating

(* A request leaves.                                                       *)
LEMMA SentFits ==
    ASSUME ServerFits, NEW s \in Slots, NEW r \in Call,
           r.op = "create" => r.item \in Items /\ r.board = BoardOf(r.item),
           call' = [call EXCEPT ![s] = r], raced' = raced \union MetBy(r),
           UNCHANGED <<rows, cached>>
    PROVE  ServerFits'
<1>1. raced' \subseteq Items BY MetAreItems DEF ServerFits, ListsTypeOK
<1> QED BY <1>1 DEF ServerFits, ListsTypeOK, CallsNamed

(* The handler of a slot ends.                                             *)
LEMMA EndsFits ==
    ASSUME ServerFits, NEW s \in Slots, Ends(s)
    PROVE  ServerFits'
<1>1. CASE UNCHANGED server BY <1>1 DEF ServerFits, ListsTypeOK, CallsNamed, server
<1>2. CASE call' = [call EXCEPT ![s] = Idle] /\ UNCHANGED <<rows, cached, raced>>
    BY <1>2, IdleTyped DEF ServerFits, ListsTypeOK, CallsNamed
<1> QED BY <1>1, <1>2 DEF Ends

(* A request goes on to its next stage.                                    *)
LEMMA CallMoves ==
    ASSUME NEW c \in [Slots -> Call], NEW s \in Slots, NEW a \in Stages
    PROVE  /\ [c EXCEPT ![s].at = a] \in [Slots -> Call]
           /\ \A v \in SUBSET Items : [c EXCEPT ![s].at = a, ![s].val = v] \in [Slots -> Call]
<1>1. c[s] \in Call OBVIOUS
<1>2. [c[s] EXCEPT !.at = a] \in Call BY <1>1 DEF Call
<1>3. \A v \in SUBSET Items : [c[s] EXCEPT !.at = a, !.val = v] \in Call BY <1>1 DEF Call
<1> QED BY <1>2, <1>3

(* A row that is stored: what its list lacks that is on its way.           *)
LEMMA InsertMoves ==
    ASSUME ServerFits, NEW s \in Slots, Insert(s)
    PROVE  /\ call' \in [Slots -> Call]
           /\ call'[s] = [call[s] EXCEPT !.at = "stored"]
           /\ call'[s].op = "create" /\ call'[s].board = call[s].board
           /\ call'[s].item = call[s].item /\ call'[s].at = "stored"
           /\ \A t \in Slots : t # s =>
                 /\ call'[t].op = call[t].op /\ call'[t].board = call[t].board
                 /\ call'[t].item = call[t].item /\ call'[t].at = call[t].at
                 /\ call'[t].val = call[t].val
                 /\ call[t].missed \subseteq call'[t].missed
                 /\ Coming(t, call[s].board) =>
                       {call[s].item} \subseteq call'[t].missed \union rows[call[s].board]
<1> DEFINE b == call[s].board
           i == call[s].item
           m(t) == [call[t] EXCEPT !.missed = @ \union ({i} \ rows[b])]
<1>1. call \in [Slots -> Call] /\ i \in Items
    BY DEF Insert, ServerFits, CallsNamed, ListsTypeOK
<1>2. call' = [t \in Slots |-> IF t = s THEN [call[s] EXCEPT !.at = "stored"]
                               ELSE IF Coming(t, b) THEN m(t) ELSE call[t]]
    BY DEF Insert
<1>3. \A t \in Slots :
         /\ m(t) \in Call
         /\ m(t).op = call[t].op /\ m(t).board = call[t].board /\ m(t).item = call[t].item
         /\ m(t).at = call[t].at /\ m(t).val = call[t].val
         /\ m(t).missed = call[t].missed \union ({i} \ rows[b])
    BY <1>1 DEF Call
<1>4. /\ [call[s] EXCEPT !.at = "stored"] \in Call
      /\ [call[s] EXCEPT !.at = "stored"].op = "create"
      /\ [call[s] EXCEPT !.at = "stored"].board = b
      /\ [call[s] EXCEPT !.at = "stored"].item = i
      /\ [call[s] EXCEPT !.at = "stored"].at = "stored"
    BY <1>1 DEF Call, Stages, Insert
<1>5. \A t \in Slots : t # s => call'[t] = IF Coming(t, b) THEN m(t) ELSE call[t]
    BY <1>2
<1> HIDE DEF m
<1>6. call' \in [Slots -> Call] BY <1>1, <1>2, <1>3, <1>4
<1> QED BY <1>2, <1>3, <1>4, <1>5, <1>6

(* A step of the server changes neither what a request is for nor whether  *)
(* there is one.                                                           *)
LEMMA WorkKeeps ==
    ASSUME ServerFits, NEW s \in Slots, ListStep(s) \/ CreateStep(s)
    PROVE  /\ ServerFits'
           /\ \A t \in Slots :
                 /\ call'[t].op = call[t].op /\ call'[t].board = call[t].board
                 /\ call'[t].item = call[t].item
                 /\ call'[t].at = "idle" <=> call[t].at = "idle"
<1> DEFINE Goal == /\ ServerFits'
                   /\ \A t \in Slots :
                         /\ call'[t].op = call[t].op /\ call'[t].board = call[t].board
                         /\ call'[t].item = call[t].item
                         /\ call'[t].at = "idle" <=> call[t].at = "idle"
<1>0. /\ rows \in [Boards -> SUBSET Items] /\ cached \in [Boards -> (SUBSET Items) \union {None}]
      /\ call \in [Slots -> Call] /\ raced \subseteq Items
      /\ call[s].board \in Boards /\ call[s].val \in SUBSET Items
    BY DEF ServerFits, ListsTypeOK, Call
<1>1. ASSUME NEW a \in Stages, a # "idle", call[s].at # "idle", NEW v \in SUBSET Items,
             \/ call' = [call EXCEPT ![s].at = a]
             \/ call' = [call EXCEPT ![s].at = a, ![s].val = v],
             rows' \in [Boards -> SUBSET Items], raced' \subseteq Items,
             cached' \in [Boards -> (SUBSET Items) \union {None}]
      PROVE  Goal
    <2>1. call' \in [Slots -> Call] BY <1>0, <1>1, CallMoves
    <2>2. call[s] \in Call BY <1>0
    <2>3. /\ call'[s].op = call[s].op /\ call'[s].board = call[s].board
          /\ call'[s].item = call[s].item /\ call'[s].at = a
        BY <1>0, <1>1, <2>2 DEF Call
    <2>4. \A t \in Slots : t # s => call'[t] = call[t] BY <1>0, <1>1
    <2>5. CallsNamed' BY <2>3, <2>4 DEF ServerFits, CallsNamed
    <2> QED BY <1>1, <2>1, <2>3, <2>4, <2>5 DEF ServerFits, ListsTypeOK
<1>2. {"read", "answered", "stored", "scanned", "failed"} \subseteq Stages BY DEF Stages
<1>3. CASE ListHit(s)
    <2>1. cached[call[s].board] \in SUBSET Items BY <1>0, <1>3 DEF ListHit
    <2> QED BY <1>0, <1>1, <1>2, <1>3, <2>1 DEF ListHit
<1>4. CASE ListQuery(s)
    <2>1. rows[call[s].board] \in SUBSET Items BY <1>0
    <2> QED BY <1>0, <1>1, <1>2, <1>4, <2>1 DEF ListQuery
<1>5. CASE ListFill(s)
    <2>1. cached' \in [Boards -> (SUBSET Items) \union {None}] BY <1>0, <1>5 DEF ListFill
    <2> QED BY <1>0, <1>1, <1>2, <1>5, <2>1 DEF ListFill
<1>6. CASE Insert(s)
    <2>1. call[s].item \in Items /\ call[s].op = "create" /\ call[s].at = "sent"
        BY <1>6 DEF Insert, ServerFits, CallsNamed
    <2>2. rows' \in [Boards -> SUBSET Items] /\ cached' = cached
        BY <1>0, <1>6, <2>1 DEF Insert
    <2>3. raced' \subseteq Items BY <1>0, <1>6, <2>1 DEF Insert
    <2>4. CallsNamed' BY <1>6, <2>1, InsertMoves DEF ServerFits, CallsNamed
    <2> QED BY <1>0, <1>6, <2>1, <2>2, <2>3, <2>4, InsertMoves DEF ServerFits, ListsTypeOK
<1>7. CASE Scan(s) BY <1>0, <1>1, <1>2, <1>7 DEF Scan
<1>8. CASE Evict(s)
    <2>1. cached' \in [Boards -> (SUBSET Items) \union {None}] BY <1>0, <1>8 DEF Evict
    <2>2. call[s].at # "idle" BY <1>8 DEF Evict, MayEvict
    <2> QED BY <1>0, <1>1, <1>2, <1>8, <2>1, <2>2 DEF Evict
<1>9. CASE EvictFails(s)
    <2>1. call[s].item \in Items BY <1>9 DEF EvictFails, ServerFits, CallsNamed
    <2>2. raced' \subseteq Items BY <1>0, <1>9, <2>1 DEF EvictFails
    <2> QED BY <1>0, <1>1, <1>2, <1>9, <2>2 DEF EvictFails
<1>10. CASE Refuse(s) BY <1>0, <1>1, <1>2, <1>10 DEF Refuse
<1> QED BY <1>3, <1>4, <1>5, <1>6, <1>7, <1>8, <1>9, <1>10 DEF ListStep, CreateStep

-----------------------------------------------------------------------------
LEMMA JobTyped ==
    /\ NoJob \in Job /\ NoJob.task = "none" /\ NoJob.ear = "none"
    /\ \A t \in Tasks, about \in Subjects :
          /\ Task(t, about) \in Job
          /\ Task(t, about).task = t /\ Task(t, about).about = about
          /\ Task(t, about).ear = "page"
    /\ \A j \in Job :
          /\ Left(j) \in Job
          /\ Left(j) = NoJob \/ (/\ Left(j).task = j.task /\ Left(j).about = j.about
                                /\ Left(j).ear = "gone"
                                /\ j.task \in {"create", "readback", "refused"})
<1>1. None \in Subjects BY DEF Subjects, Texts
<1> QED BY <1>1 DEF NoJob, Job, Task, Left, Tasks, Ears

(* A request leaves with a job that fits it.                               *)
LEMMA SendKeeps ==
    ASSUME ServerFits, JobsTyped, JobsFit, NEW s \in Slots, NEW r \in Call, NEW j \in Job,
           r.op = "create" => r.item \in Items /\ r.board = BoardOf(r.item),
           Fits(j, r), j.task \in {"create", "readback"} => j.about \in Items,
           Send(s, r, j)
    PROVE  ServerFits' /\ JobsTyped' /\ JobsFit'
<1>1. ServerFits' BY SentFits DEF Send
<1>2. JobsTyped' BY DEF Send, JobsTyped
<1>3. JobsFit' BY DEF Send, JobsTyped, JobsFit, ServerFits, ListsTypeOK
<1> QED BY <1>1, <1>2, <1>3

(* A job starts that has no request of the two lists.                      *)
LEMMA AwaitKeeps ==
    ASSUME ServerFits, JobsTyped, JobsFit, NEW s \in Slots, NEW j \in Job,
           Fits(j, call[s]), j.task \in {"materials", "refused"}, Await(s, j)
    PROVE  ServerFits' /\ JobsTyped' /\ JobsFit'
<1>1. ServerFits' BY DEF Await, server, ServerFits, ListsTypeOK, CallsNamed
<1>2. JobsTyped' BY DEF Await, JobsTyped
<1>3. JobsFit' BY DEF Await, server, JobsTyped, JobsFit
<1> QED BY <1>1, <1>2, <1>3

LEMMA EndsKeeps ==
    ASSUME ServerFits, JobsTyped, JobsFit, NEW s \in Slots, Ends(s)
    PROVE  ServerFits' /\ JobsTyped' /\ JobsFit'
<1>1. ServerFits' BY EndsFits
<1>2. job' = [job EXCEPT ![s] = NoJob] BY DEF Ends
<1>3. \A t \in Slots : t # s => call'[t] = call[t]
    BY DEF Ends, server, ServerFits, ListsTypeOK
<1>4. JobsTyped' BY <1>2, JobTyped DEF JobsTyped
<1>5. Fits(NoJob, call'[s]) BY JobTyped DEF Fits
<1>6. JobsFit' BY <1>2, <1>3, <1>5 DEF JobsTyped, JobsFit
<1> QED BY <1>1, <1>4, <1>6

(* The next request of a handler.                                          *)
LEMMA ReadsKeeps ==
    ASSUME ServerFits, JobsTyped, JobsFit, NEW s \in Slots, NEW t \in {"load", "readback"},
           job[s].task = "create", t = "readback" => job[s].about \in Weeks,
           Reads(s, t)
    PROVE  ServerFits' /\ JobsTyped' /\ JobsFit'
<1> DEFINE r == Request("list", call[s].board, None, "sent")
<1>1. call[s].item = job[s].about /\ call[s].op = "create"
    BY DEF JobsFit, Fits
<1>2. call[s].board = BoardOf(job[s].about) /\ job[s].about \in Items
    BY <1>1 DEF ServerFits, CallsNamed
<1>3. call[s].board \in Boards BY DEF ServerFits, ListsTypeOK, Call
<1>4. r \in Call /\ r.op = "list" /\ r.at = "sent" /\ r.board = call[s].board
    BY <1>3, RequestTyped DEF Ops, Stages
<1> HIDE DEF r
<1>5. /\ call' = [call EXCEPT ![s] = r] /\ raced' = raced \union MetBy(r)
      /\ job' = [job EXCEPT ![s].task = t] /\ UNCHANGED <<rows, cached>>
    BY DEF Reads, r
<1>6. ServerFits' BY <1>4, <1>5, SentFits
<1>7. JobsTyped' BY <1>2, <1>5 DEF JobsTyped, Job, Tasks
<1>8. Fits(job'[s], call'[s])
    BY <1>2, <1>4, <1>5, BoardsAreTwo DEF Fits, JobsFit, JobsTyped, Job, ServerFits, ListsTypeOK
<1>9. JobsFit' BY <1>5, <1>8 DEF JobsTyped, JobsFit, ServerFits, ListsTypeOK
<1> QED BY <1>6, <1>7, <1>9

LEMMA WorkKeepsJobs ==
    ASSUME ServerFits, JobsTyped, JobsFit, NEW s \in Slots, ListStep(s) \/ CreateStep(s),
           job' = job
    PROVE  ServerFits' /\ JobsTyped' /\ JobsFit'
BY WorkKeeps DEF JobsTyped, JobsFit, Fits

-----------------------------------------------------------------------------
LEMMA BaseTyped == Base => TypeOK
BY DEF Base, Requests, ServerFits, JobsTyped, ViewTyped, TypeOK

LEMMA BaseInit == Init => Base
<1> SUFFICES ASSUME Init PROVE Base
    OBVIOUS
<1>1. ServerFits
    BY IdleTyped, ListsAssumption
    DEF Init, ListsInit, ServerFits, ListsTypeOK, CallsNamed, Items, On, Boards
<1>2. JobsTyped /\ JobsFit BY JobTyped DEF Init, JobsTyped, JobsFit, Fits
<1>3. ViewTyped
    BY DEF Init, ViewTyped, NoForm, Texts, Pages
<1>4. FormFits BY DEF Init, FormFits, NoForm
<1> QED BY <1>1, <1>2, <1>3, <1>4 DEF Base, Requests

LEMMA NoFormTyped ==
    /\ NoForm \in [name : Forms \union {"none"}, visible : BOOLEAN, text : Texts]
    /\ NoForm.name = "none" /\ NoForm.text = None /\ ~NoForm.visible
BY DEF NoForm, Texts

(* The one text of a form that the server may store.                       *)
LEMMA StoredTexts ==
    ASSUME ViewTyped, FormFits, NEW f \in Forms, SubmitStored(f)
    PROVE  /\ form.text \in Items /\ form.name = f
           /\ page = IF form.text \in Courses THEN "courses" ELSE "course"
<1>1. /\ f \in {"course", "week"} /\ Form[f].typed
      /\ Form[f].on = IF f = "course" THEN "courses" ELSE "course"
    BY StoredForms DEF SubmitStored
<1>2. form.name = f /\ form.text # None BY <1>1 DEF SubmitStored, Sendable
<1>3. page = Form[f].on /\ form.text \in TextsFor(f)
    BY <1>2, NamesAreForms DEF FormFits
<1>4. \/ f = "course" /\ form.text \in Courses
      \/ f # "course" /\ form.text \in Weeks
    BY <1>1, <1>3 DEF TextsFor
<1> QED BY <1>1, <1>2, <1>3, <1>4, BoardsAreTwo, ListsAssumption

(* A page is mounted.                                                      *)
LEMMA MountKeeps ==
    ASSUME ServerFits, NEW p \in Pages, NEW js \in [Slots -> Job],
           \A s \in Slots : js[s].task \in {"create", "readback"} => js[s].about \in Items,
           \A s \in Slots : Fits(js[s], call[s]),
           Mount(p, js)
    PROVE  Requests'
<1>1. CASE LoadsFor(p, role) = {}
    BY <1>1 DEF Mount, server, Requests, ServerFits, ListsTypeOK, CallsNamed, JobsTyped,
                JobsFit
<1>2. CASE LoadsFor(p, role) # {}
    <2>1. PICK s \in Slots, b \in LoadsFor(p, role) :
               /\ call[s].at = "idle" /\ js[s] = NoJob
               /\ call' = [call EXCEPT ![s] = Request("list", b, None, "sent")]
               /\ raced' = raced \union BeingCreated(b)
               /\ job' = [js EXCEPT ![s] = Task("load", None)]
               /\ UNCHANGED <<rows, cached>>
        BY <1>2 DEF Mount
    <2> DEFINE r == Request("list", b, None, "sent")
               j == Task("load", None)
    <2>2. b \in Boards BY PagesLoad DEF Boards
    <2>3. r \in Call /\ r.op = "list" /\ r.at = "sent" /\ r.board = b
        BY <2>2, RequestTyped DEF Ops, Stages
    <2>4. j \in Job /\ j.task = "load" /\ j.ear = "page"
        BY JobTyped DEF Tasks, Subjects, Texts
    <2>5. MetBy(r) = BeingCreated(b) BY <2>3 DEF MetBy
    <2>6. call' = [call EXCEPT ![s] = r] /\ job' = [js EXCEPT ![s] = j] BY <2>1
    <2> HIDE DEF r, j
    <2>7. ServerFits' BY <2>1, <2>3, <2>5, <2>6, SentFits
    <2>8. JobsTyped' BY <2>4, <2>6 DEF JobsTyped
    <2>9. JobsFit' BY <2>3, <2>4, <2>6 DEF JobsFit, Fits, ServerFits, ListsTypeOK
    <2> QED BY <2>7, <2>8, <2>9 DEF Requests
<1> QED BY <1>1, <1>2

-----------------------------------------------------------------------------
(* Every step keeps them.  First those of the user.                        *)
LEMMA QuietTyped ==
    /\ Quiet => toast' = None
    /\ \A a \in Subjects, ok \in BOOLEAN :
          Tell(ok, a) => toast' \in [ok : BOOLEAN, about : Subjects] \union {None}
BY DEF Quiet, Tell

LEMMA MountViews ==
    ASSUME ViewTyped, NEW p \in Pages, NEW js, Mount(p, js), Quiet, role' = role,
           doubtful' \subseteq Items
    PROVE  ViewTyped' /\ FormFits'
<1>1. ViewTyped' BY NoFormTyped DEF Mount, Quiet, ViewTyped
<1>2. FormFits' BY NoFormTyped DEF Mount, FormFits
<1> QED BY <1>1, <1>2

LEMMA LeavingKeeps ==
    ASSUME Base, NEW p \in Pages, Visit(p) \/ LoadUrl(p)
    PROVE  Base'
<1> USE DEF Base, Requests
<1>1. CASE Visit(p)
    <2> DEFINE js == [s \in Slots |-> Left(job[s])]
    <2>1. Mount(p, js) /\ Quiet /\ role' = role /\ doubtful' = doubtful
        BY <1>1 DEF Visit
    <2>2. \A s \in Slots :
             /\ js[s] = Left(job[s]) /\ job[s] \in Job /\ js[s] \in Job
             /\ js[s] = NoJob \/ (/\ js[s].task = job[s].task /\ js[s].about = job[s].about
                                  /\ js[s].ear = "gone"
                                  /\ job[s].task \in {"create", "readback", "refused"})
        BY JobTyped DEF JobsTyped
    <2>3. js \in [Slots -> Job] BY <2>2
    <2> HIDE DEF js
    <2>4. \A s \in Slots : js[s].task \in {"create", "readback"} => js[s].about \in Items
        BY <2>2, JobTyped DEF JobsTyped
    <2>5. \A s \in Slots : Fits(js[s], call[s])
        BY <2>2, JobTyped DEF JobsFit, Fits
    <2>6. Requests' BY <2>1, <2>3, <2>4, <2>5, MountKeeps
    <2>7. ViewTyped' /\ FormFits' BY <2>1, MountViews DEF ViewTyped
    <2> QED BY <2>6, <2>7
<1>2. CASE LoadUrl(p)
    <2> DEFINE js == [s \in Slots |-> NoJob]
    <2>1. Mount(p, js) /\ Quiet /\ role' = role /\ doubtful' \subseteq Items
        BY <1>2 DEF LoadUrl, ViewTyped
    <2>2. js \in [Slots -> Job] /\ \A s \in Slots : js[s] = NoJob BY JobTyped
    <2> HIDE DEF js
    <2>3. \A s \in Slots : Fits(js[s], call[s]) BY <2>2, JobTyped DEF Fits
    <2>4. Requests' BY <2>1, <2>2, <2>3, JobTyped, MountKeeps
    <2>5. ViewTyped' /\ FormFits' BY <2>1, MountViews
    <2> QED BY <2>4, <2>5
<1> QED BY <1>1, <1>2

LEMMA FormKeeps ==
    ASSUME Base,
           \/ \E x \in Items \union {Text} : Type(x)
           \/ Cancel
           \/ \E f \in Forms : SubmitStubbed(f)
    PROVE  Base'
<1>1. Requests' /\ UNCHANGED <<server, role, page, view, shown, late, open, known, mine,
                              doubtful, overlapped>>
    BY DEF Base, Type, Cancel, SubmitStubbed, Requests, ServerFits, ListsTypeOK,
       CallsNamed, JobsTyped, JobsFit, server
<1>2. ASSUME NEW x \in Items \union {Text}, Type(x) PROVE ViewTyped' /\ FormFits'
    <2>1. x \in TextsFor(form.name) /\ x \in Texts /\ form.visible
        BY <1>2 DEF Type, Texts
    <2>2. form' = [form EXCEPT !.text = x] /\ toast' = None BY <1>2 DEF Type, Quiet
    <2>3. ViewTyped' BY <1>1, <2>1, <2>2 DEF Base, ViewTyped
    <2>4. form.name # "none" BY <2>1, NoFormTyped DEF Base, FormFits
    <2>5. FormFits' BY <1>1, <2>1, <2>2, <2>4 DEF Base, FormFits, ViewTyped, TextsFor
    <2> QED BY <2>3, <2>5
<1>3. CASE Cancel
    <2>1. form' = [form EXCEPT !.visible = FALSE] /\ toast' = None /\ form.visible
        BY <1>3 DEF Cancel, Quiet
    <2>2. ViewTyped' BY <1>1, <2>1 DEF Base, ViewTyped
    <2>3. form.name # "none" BY <2>1, NoFormTyped DEF Base, FormFits
    <2>4. FormFits' BY <1>1, <2>1, <2>3 DEF Base, FormFits, ViewTyped, TextsFor
    <2> QED BY <1>1, <2>2, <2>4 DEF Base
<1>4. ASSUME NEW f \in Forms, SubmitStubbed(f) PROVE ViewTyped' /\ FormFits'
    <2>1. form' = form /\ Tell(FALSE, f) BY <1>4 DEF SubmitStubbed
    <2>2. ViewTyped' BY <1>1, <2>1, QuietTyped DEF Base, ViewTyped, Subjects
    <2>3. FormFits' BY <1>1, <2>1 DEF Base, FormFits, TextsFor
    <2> QED BY <2>2, <2>3
<1> QED BY <1>1, <1>2, <1>3, <1>4 DEF Base

LEMMA OpenFormKeeps ==
    ASSUME Base, NEW f \in Forms, OpenForm(f)
    PROVE  Base'
<1>1. /\ UNCHANGED <<role, page, view, shown, late, open, known, mine, doubtful, overlapped>>
      /\ toast' = None /\ page = Form[f].on /\ form.name \in {"none", f}
      /\ form' = [name |-> f, visible |-> TRUE,
                  text |-> IF Form[f].reopens = "reset" THEN None ELSE form.text]
    BY DEF OpenForm, Openable, Present, Quiet
<1>2. form.text \in TextsFor(f) \union {None}
    BY <1>1, NoFormTyped, NamesAreForms DEF Base, FormFits
<1>3. ViewTyped' BY <1>1 DEF Base, ViewTyped, Texts
<1>4. FormFits' BY <1>1, <1>2, NamesAreForms DEF FormFits, TextsFor
<1>5. Requests'
    <2>1. CASE UNCHANGED <<server, job>>
        BY <2>1 DEF Base, Requests, ServerFits, ListsTypeOK, CallsNamed, JobsTyped,
           JobsFit, server
    <2>2. CASE \E s \in Slots : Send(s, Request("list", "courses", None, "sent"),
                                     Task("load", None))
        BY <2>2, SendKeeps, RequestTyped, JobTyped
        DEF Base, Requests, Fits, Ops, Boards, Stages, Tasks, Subjects, Texts
    <2> QED BY <2>1, <2>2 DEF OpenForm
<1> QED BY <1>3, <1>4, <1>5 DEF Base

LEMMA SubmitKeeps ==
    ASSUME Base, NEW f \in Forms, SubmitStored(f) \/ SubmitRefused(f)
    PROVE  Base'
<1> USE DEF Base
<1>1. UNCHANGED <<role, page, view, shown, late, form, open, known, mine, overlapped>>
      /\ toast' = None
    BY DEF SubmitStored, SubmitRefused, Quiet
<1>2. FormFits' BY <1>1 DEF FormFits, TextsFor
<1>3. CASE SubmitStored(f)
    <2> DEFINE r == Request("create", BoardOf(form.text), form.text, "sent")
               j == Task("create", form.text)
    <2>1. form.text \in Items BY <1>3, StoredTexts
    <2>2. r \in Call /\ r.op = "create" /\ r.item = form.text /\ r.at = "sent"
          /\ r.board = BoardOf(form.text)
        BY <2>1, RequestTyped, BoardsAreTwo DEF Ops, Stages
    <2>3. j \in Job /\ j.task = "create" /\ j.about = form.text /\ j.ear = "page"
        BY <2>1, JobTyped DEF Tasks, Subjects, Texts
    <2>4. PICK s \in Slots : Send(s, r, j) BY <1>3 DEF SubmitStored
    <2> HIDE DEF r, j
    <2>5. Fits(j, r) BY <2>2, <2>3 DEF Fits
    <2>6. Requests' BY <2>1, <2>2, <2>3, <2>4, <2>5, SendKeeps DEF Requests
    <2>7. doubtful' \subseteq Items BY <1>3, <2>1 DEF SubmitStored, ViewTyped
    <2>8. ViewTyped' BY <1>1, <2>7 DEF ViewTyped
    <2> QED BY <1>2, <2>6, <2>8
<1>4. CASE SubmitRefused(f)
    <2>1. PICK s \in Slots : Await(s, Task("refused", f)) BY <1>4 DEF SubmitRefused
    <2>2. Task("refused", f) \in Job /\ Task("refused", f).task = "refused"
          /\ Task("refused", f).about = f /\ Task("refused", f).ear = "page"
        BY JobTyped DEF Tasks, Subjects
    <2>3. Fits(Task("refused", f), call[s]) BY <2>1, <2>2 DEF Fits, Await, Free
    <2>4. Requests' BY <2>1, <2>2, <2>3, AwaitKeeps DEF Requests
    <2>5. ViewTyped' BY <1>1, <1>4 DEF ViewTyped, SubmitRefused
    <2> QED BY <1>2, <2>4, <2>5
<1> QED BY <1>3, <1>4

LEMMA AskKeeps ==
    ASSUME Base, Remove \/ Refilter
    PROVE  Base'
<1> USE DEF Base
<1>1. UNCHANGED <<role, page, view, shown, late, form, open, known, mine, doubtful, overlapped>>
      /\ toast' = None
    BY DEF Remove, Refilter, Quiet
<1>2. ViewTyped' /\ FormFits' BY <1>1 DEF ViewTyped, FormFits, TextsFor
<1>3. CASE Remove
    <2>1. PICK s \in Slots : Await(s, Task("refused", "enrollment")) BY <1>3 DEF Remove
    <2>2. Task("refused", "enrollment") \in Job
          /\ Task("refused", "enrollment").task = "refused"
          /\ Task("refused", "enrollment").about = "enrollment"
          /\ Task("refused", "enrollment").ear = "page"
        BY JobTyped DEF Tasks, Subjects
    <2>3. Fits(Task("refused", "enrollment"), call[s]) BY <2>1, <2>2 DEF Fits, Await, Free
    <2>4. Requests' BY <2>1, <2>2, <2>3, AwaitKeeps DEF Requests
    <2> QED BY <1>2, <2>4
<1>4. CASE Refilter
    <2>1. Requests'
        BY <1>4, SendKeeps, RequestTyped, JobTyped
        DEF Refilter, Requests, Fits, Ops, Boards, Stages, Tasks, Subjects, Texts
    <2> QED BY <1>2, <2>1
<1> QED BY <1>3, <1>4

LEMMA ToggleKeeps ==
    ASSUME Base, NEW w \in Weeks, Toggle(w)
    PROVE  Base'
<1> USE DEF Base
<1>1. UNCHANGED <<role, page, view, shown, late, form, known, mine, doubtful>> /\ toast' = None
    BY DEF Toggle, Quiet
<1>2. open' \subseteq Weeks BY DEF Toggle, ViewTyped
<1>3. FormFits' BY <1>1 DEF FormFits, TextsFor
<1>4. CASE UNCHANGED <<server, job, overlapped>>
    <2>1. ViewTyped' BY <1>1, <1>2, <1>4 DEF ViewTyped
    <2>2. Requests'
        BY <1>4 DEF Requests, ServerFits, ListsTypeOK, CallsNamed, JobsTyped, JobsFit, server
    <2> QED BY <1>3, <2>1, <2>2
<1>5. CASE w \notin open \union known
    <2> DEFINE j == [Task("materials", w) EXCEPT !.seen = known]
    <2>1. PICK s \in Slots : Await(s, j) BY <1>5 DEF Toggle
    <2>2. w \in Subjects BY BoardsAreTwo DEF Subjects, Texts
    <2>3. j \in Job /\ j.task = "materials" /\ j.about = w /\ j.ear = "page"
        BY <2>2, JobTyped DEF Tasks, Job, ViewTyped
    <2> HIDE DEF j
    <2>4. Fits(j, call[s]) BY <2>1, <2>3 DEF Fits, Await, Free
    <2>5. Requests' BY <2>1, <2>3, <2>4, AwaitKeeps DEF Requests
    <2>6. \A s1 \in Slots : job[s1].task = "materials" => job[s1].about \in Weeks
        BY DEF Requests, JobsFit, Fits
    <2>7. overlapped' \subseteq Weeks
        BY <1>5, <2>6 DEF Toggle, ViewTyped, Fetching
    <2>8. ViewTyped' BY <1>1, <1>2, <2>7 DEF ViewTyped
    <2> QED BY <1>3, <2>5, <2>8
<1> QED BY <1>4, <1>5 DEF Toggle

(* Those of the handlers.                                                  *)
LEMMA AnswerTyped ==
    ASSUME Base, NEW s \in Slots
    PROVE  /\ call[s].val \subseteq Items
           /\ job[s].about \in Subjects /\ job[s].seen \subseteq Weeks
           /\ job[s].task \in {"create", "readback"} => job[s].about \in Items
           /\ job[s].task = "materials" => job[s].about \in Weeks
           /\ Cleared \in [name : Forms \union {"none"}, visible : BOOLEAN, text : Texts]
           /\ Cleared.name = form.name /\ Cleared.text = None /\ ~Cleared.visible
<1>1. call[s] \in Call /\ job[s] \in Job
    BY DEF Base, Requests, ServerFits, ListsTypeOK, JobsTyped
<1>2. form \in [name : Forms \union {"none"}, visible : BOOLEAN, text : Texts]
    BY DEF Base, ViewTyped
<1>3. Fits(job[s], call[s])
    BY DEF Base, Requests, JobsFit
<1> QED BY <1>1, <1>2, <1>3 DEF Base, Requests, JobsTyped, Call, Job, Cleared, Texts, Fits

LEMMA FormCleared ==
    ASSUME Base, page' = page, form' \in {form, Cleared}
    PROVE  FormFits'
<1>1. CASE form' = form BY <1>1 DEF Base, FormFits, TextsFor
<1>2. CASE form' = Cleared
    <2>1. Cleared.name = form.name /\ Cleared.text = None /\ ~Cleared.visible
        BY DEF Cleared, Base, ViewTyped
    <2> QED BY <1>2, <2>1 DEF Base, FormFits, TextsFor
<1> QED BY <1>1, <1>2

LEMMA HandleEnds ==
    ASSUME Base, NEW s \in Slots,
           \/ Loaded(s) \/ LoadFails(s) \/ WeekAdded(s) \/ CreateFails(s)
           \/ MaterialsCome(s) \/ RefusalComes(s) \/ Unheard(s)
    PROVE  Base'
<1> USE AnswerTyped
<1>1. Ends(s)
    BY DEF Loaded, LoadFails, WeekAdded, CreateFails, MaterialsCome, RefusalComes, Unheard
<1>2. Requests' BY <1>1, EndsKeeps DEF Base, Requests
<1>3. page' = page /\ form' \in {form, Cleared}
    BY DEF Loaded, LoadFails, WeekAdded, CreateFails, MaterialsCome, RefusalComes, Unheard
<1>4. FormFits' BY <1>3, FormCleared
<1>5. ViewTyped'
    <2> USE DEF Base, ViewTyped, Quiet
    <2>1. CASE Loaded(s) BY <2>1 DEF Loaded, Views, Applies
    <2>2. CASE LoadFails(s) BY <2>2 DEF LoadFails, Views
    <2>3. CASE WeekAdded(s)
        <3>1. Tell(TRUE, job[s].about) BY <2>3 DEF WeekAdded
        <3> QED BY <2>3, <3>1, QuietTyped DEF WeekAdded, Applies
    <2>4. CASE CreateFails(s)
        <3>1. Tell(FALSE, job[s].about) BY <2>4 DEF CreateFails
        <3> QED BY <2>4, <3>1, QuietTyped DEF CreateFails
    <2>5. CASE MaterialsCome(s) BY <2>5 DEF MaterialsCome
    <2>6. CASE RefusalComes(s)
        <3>1. Tell(FALSE, job[s].about) BY <2>6 DEF RefusalComes
        <3> QED BY <2>6, <3>1, QuietTyped DEF RefusalComes
    <2>7. CASE Unheard(s) BY <2>7 DEF Unheard
    <2> QED BY <2>1, <2>2, <2>3, <2>4, <2>5, <2>6, <2>7
<1> QED BY <1>2, <1>4, <1>5 DEF Base

LEMMA HandleReads ==
    ASSUME Base, NEW s \in Slots, CourseCreated(s) \/ WeekCreated(s)
    PROVE  Base'
<1> USE AnswerTyped
<1>1. \/ Reads(s, "load") /\ job[s].task = "create"
      \/ Reads(s, "readback") /\ job[s].task = "create" /\ job[s].about \in Weeks
    BY DEF CourseCreated, WeekCreated
<1>2. Requests' BY <1>1, ReadsKeeps DEF Base, Requests
<1>3. page' = page /\ form' \in {form, Cleared}
    BY DEF CourseCreated, WeekCreated
<1>4. FormFits' BY <1>3, FormCleared
<1>5. ViewTyped'
    <2> USE DEF Base, ViewTyped, Quiet
    <2>1. CASE CourseCreated(s)
        <3>1. Tell(TRUE, job[s].about) BY <2>1 DEF CourseCreated
        <3> QED BY <2>1, <3>1, QuietTyped DEF CourseCreated
    <2>2. CASE WeekCreated(s) BY <2>2 DEF WeekCreated
    <2> QED BY <2>1, <2>2
<1> QED BY <1>2, <1>4, <1>5 DEF Base

(* Those of the server.                                                    *)
LEMMA ServerKeeps ==
    ASSUME Base, (\E s \in Slots : Works(s)) \/ CopyExpires
    PROVE  Base'
<1>1. UNCHANGED <<role, page, view, shown, late, form, open, known, job, mine, doubtful,
                  overlapped>> /\ toast' = None
    BY DEF Works, CopyExpires, Quiet
<1>2. ViewTyped' /\ FormFits' BY <1>1 DEF Base, ViewTyped, FormFits, TextsFor
<1>3. ASSUME NEW s \in Slots, Works(s) PROVE Requests'
    BY <1>1, <1>3, WorkKeepsJobs DEF Works, Base, Requests
<1>4. CASE CopyExpires
    <2>1. PICK b \in Boards : Expire(b) BY <1>4 DEF CopyExpires
    <2>2. UNCHANGED <<rows, call, raced, job>> BY <1>1, <2>1 DEF Expire
    <2>3. cached' \in [Boards -> (SUBSET Items) \union {None}]
        BY <2>1 DEF Expire, Base, Requests, ServerFits, ListsTypeOK
    <2>4. Requests'
        BY <2>2, <2>3 DEF Base, Requests, ServerFits, ListsTypeOK, CallsNamed, JobsTyped,
                          JobsFit
    <2> QED BY <1>2, <2>4 DEF Base
<1> QED BY <1>2, <1>3, <1>4 DEF Base

LEMMA BaseStep == Base /\ [Next]_vars => Base'
<1> SUFFICES ASSUME Base, [Next]_vars PROVE Base'
    OBVIOUS
<1>1. role \in RoleChoices BY DEF Base, ViewTyped
<1>2. Visited[role] \subseteq Pages /\ Used[role] \subseteq Forms
    BY <1>1, PagesAssumption
<1>3. CASE UserStep
    <2>1. CASE \E p \in Visited[role] : Visit(p) \/ LoadUrl(p)
        BY <1>2, <2>1, LeavingKeeps
    <2>2. CASE \E f \in Used[role] : OpenForm(f) \/ SubmitStored(f) \/ SubmitRefused(f)
                                     \/ SubmitStubbed(f)
        BY <1>2, <2>2, OpenFormKeeps, SubmitKeeps, FormKeeps
    <2>3. CASE (\E x \in Items \union {Text} : Type(x)) \/ Cancel BY <2>3, FormKeeps
    <2>4. CASE Remove \/ Refilter BY <2>4, AskKeeps
    <2>5. CASE \E w \in Weeks : Toggle(w) BY <2>5, ToggleKeeps
    <2> QED BY <1>3, <2>1, <2>2, <2>3, <2>4, <2>5 DEF UserStep
<1>4. ASSUME NEW s \in Slots, Handle(s) PROVE Base'
    BY <1>4, HandleEnds, HandleReads DEF Handle
<1>5. CASE (\E s \in Slots : Works(s)) \/ CopyExpires BY <1>5, ServerKeeps
<1>6. CASE UNCHANGED vars
    <2>1. ViewTyped' /\ FormFits' BY <1>6 DEF Base, ViewTyped, FormFits, TextsFor, vars, client
    <2>2. Requests'
        BY <1>6 DEF Base, Requests, ServerFits, ListsTypeOK, CallsNamed,
           JobsTyped, JobsFit, server, vars, client
    <2> QED BY <2>1, <2>2 DEF Base
<1> QED BY <1>3, <1>4, <1>5, <1>6 DEF Next

(* Every state of the client and of the two lists has its type, and a      *)
(* handler that waits for an answer knows what it will say of it.          *)
THEOREM TypeCorrect == Spec => []TypeOK
<1>1. Spec => []Base BY BaseInit, BaseStep, PTL DEF Spec
<1> QED BY <1>1, BaseTyped, PTL

-----------------------------------------------------------------------------
(* What a step may do to the requests and the lists.                       *)
Sends(s, r) ==
    /\ call[s].at = "idle" \/ (call[s].op = "create" /\ call[s].at = "answered" /\ r.op = "list")
    /\ r.at = "sent"
    /\ call' = [call EXCEPT ![s] = r]
    /\ raced' = raced \union MetBy(r)
    /\ UNCHANGED <<rows, cached>>

Drops(s) ==
    /\ call[s].at \in {"answered", "failed"}
    /\ call' = [call EXCEPT ![s] = Idle]
    /\ UNCHANGED <<rows, cached, raced>>

LEMMA MountSends ==
    ASSUME NEW p \in Pages, NEW js, Mount(p, js)
    PROVE  UNCHANGED server \/ \E s \in Slots, r \in Call : Sends(s, r)
<1>1. CASE LoadsFor(p, role) = {} BY <1>1 DEF Mount
<1>2. CASE LoadsFor(p, role) # {}
    <2>1. PICK s \in Slots, b \in LoadsFor(p, role) :
               /\ call[s].at = "idle"
               /\ call' = [call EXCEPT ![s] = Request("list", b, None, "sent")]
               /\ raced' = raced \union BeingCreated(b)
               /\ UNCHANGED <<rows, cached>>
        BY <1>2 DEF Mount
    <2> DEFINE r == Request("list", b, None, "sent")
    <2>2. b \in Boards BY PagesLoad DEF Boards
    <2>3. r \in Call /\ r.op = "list" /\ r.at = "sent" /\ r.board = b
        BY <2>2, RequestTyped DEF Ops, Stages
    <2>4. MetBy(r) = BeingCreated(b) BY <2>3 DEF MetBy
    <2>5. Sends(s, r) BY <2>1, <2>3, <2>4 DEF Sends
    <2> QED BY <2>3, <2>5
<1> QED BY <1>1, <1>2

LEMMA SendSends ==
    ASSUME NEW s \in Slots, NEW r \in Call, NEW j, Send(s, r, j), r.at = "sent"
    PROVE  Sends(s, r)
BY DEF Send, Free, Sends

LEMMA ServerMoves ==
    ASSUME Base, [Next]_vars
    PROVE  \/ UNCHANGED server
           \/ \E s \in Slots, r \in Call : Sends(s, r)
           \/ \E s \in Slots : Drops(s)
           \/ \E s \in Slots : ListStep(s) \/ CreateStep(s)
           \/ \E b \in Boards : Expire(b)
<1> DEFINE Goal == \/ UNCHANGED server
                   \/ \E s \in Slots, r \in Call : Sends(s, r)
                   \/ \E s \in Slots : Drops(s)
                   \/ \E s \in Slots : ListStep(s) \/ CreateStep(s)
                   \/ \E b \in Boards : Expire(b)
<1>0. role \in RoleChoices BY DEF Base, ViewTyped
<1>1. Request("list", "courses", None, "sent") \in Call
      /\ Request("list", "courses", None, "sent").at = "sent"
    BY RequestTyped DEF Ops, Boards, Stages
<1>2. ASSUME NEW p \in Visited[role], Visit(p) \/ LoadUrl(p) PROVE Goal
    <2>1. p \in Pages BY <1>0, PagesAssumption
    <2>2. \E js : Mount(p, js) BY <1>2 DEF Visit, LoadUrl
    <2> QED BY <2>1, <2>2, MountSends
<1>3. ASSUME NEW f, OpenForm(f) PROVE Goal
    BY <1>1, <1>3, SendSends DEF OpenForm, server
<1>4. ASSUME NEW f \in Used[role], SubmitStored(f) PROVE Goal
    <2>1. f \in Forms BY <1>0, PagesAssumption
    <2>2. form.text \in Items BY <1>4, <2>1, StoredTexts DEF Base
    <2>3. Request("create", BoardOf(form.text), form.text, "sent") \in Call
          /\ Request("create", BoardOf(form.text), form.text, "sent").at = "sent"
        BY <2>2, BoardsAreTwo, RequestTyped DEF Ops, Stages
    <2> QED BY <1>4, <2>3, SendSends DEF SubmitStored
<1>5. ASSUME NEW f, SubmitRefused(f) \/ SubmitStubbed(f) PROVE Goal
    BY <1>5 DEF SubmitRefused, SubmitStubbed, Await
<1>6. CASE (\E x \in Items \union {Text} : Type(x)) \/ Cancel \/ Remove
    BY <1>6 DEF Type, Cancel, Remove, Await
<1>7. CASE Refilter BY <1>1, <1>7, SendSends DEF Refilter
<1>8. CASE \E w \in Weeks : Toggle(w) BY <1>8 DEF Toggle, Await
<1>9. CASE UserStep BY <1>2, <1>3, <1>4, <1>5, <1>6, <1>7, <1>8, <1>9 DEF UserStep
<1>10. ASSUME NEW s \in Slots, Ends(s) PROVE Goal
    BY <1>10 DEF Ends, Drops
<1>11. ASSUME NEW s \in Slots, NEW t, Reads(s, t), call[s].at = "answered",
              call[s].op = "create"
       PROVE  Goal
    <2>1. call[s].board \in Boards BY DEF Base, Requests, ServerFits, ListsTypeOK, Call
    <2>2. Request("list", call[s].board, None, "sent") \in Call
          /\ Request("list", call[s].board, None, "sent").at = "sent"
          /\ Request("list", call[s].board, None, "sent").op = "list"
        BY <2>1, RequestTyped DEF Ops, Stages
    <2> QED BY <1>11, <2>2 DEF Reads, Sends
<1>12. ASSUME NEW s \in Slots, Handle(s) PROVE Goal
    <2>1. CASE Ends(s) BY <1>10, <2>1
    <2>2. CASE /\ job[s].task = "create" /\ call[s].at = "answered"
               /\ Reads(s, "load") \/ Reads(s, "readback")
        <3>1. call[s].op = "create" BY <2>2 DEF Base, Requests, JobsFit, Fits
        <3> QED BY <1>11, <2>2, <3>1
    <2> QED
        BY <1>12, <2>1, <2>2 DEF Handle, Loaded, LoadFails, CourseCreated, WeekCreated,
           WeekAdded, CreateFails, MaterialsCome, RefusalComes, Unheard
<1>13. ASSUME NEW s \in Slots, Works(s) PROVE Goal BY <1>13 DEF Works
<1>14. CASE CopyExpires BY <1>14 DEF CopyExpires
<1>15. CASE UNCHANGED vars BY <1>15 DEF vars
<1> QED BY <1>9, <1>12, <1>13, <1>14, <1>15 DEF Next

-----------------------------------------------------------------------------
(* No list lacks a row but for a race.  A create evicts the copies that    *)
(* were there; whatever list is on its way meanwhile has met it.           *)
Fresh(b, v) == rows[b] \subseteq v \union raced \union BeingCreated(b)

FreshInv ==
    /\ \A b \in Boards : cached[b] # None => Fresh(b, cached[b])
    /\ \A b \in Boards : \A s \in Slots :
          Listing(s, b) =>
              /\ call[s].at = "read" => Fresh(b, call[s].val)
              /\ call[s].at = "answered" => Fresh(b, call[s].val \union call[s].missed)
    /\ RacesAreSeen

LEMMA FreshMore ==
    ASSUME NEW b \in Boards, NEW v, Fresh(b, v), NEW w PROVE Fresh(b, v \union w)
BY DEF Fresh

LEMMA FreshIsFresh == FreshInv => ListsAreFresh
BY FreshMore DEF FreshInv, ListsAreFresh, Fresh

(* A list on its way lacks no row but for a race, or what it has missed.   *)
LEMMA ComingWhole ==
    ASSUME FreshInv, NEW b \in Boards, NEW t \in Slots, Coming(t, b)
    PROVE  rows[b] \subseteq call[t].val \union call[t].missed \union raced
<1>1. Listing(t, b) /\ call[t].at = "answered" BY DEF Coming
<1>2. Fresh(b, call[t].val \union call[t].missed) BY <1>1 DEF FreshInv
<1>3. BeingCreated(b) \subseteq call[t].val \union call[t].missed \union raced
    BY <1>1 DEF FreshInv, RacesAreSeen, BeingCreated
<1> QED BY <1>2, <1>3 DEF Fresh

LEMMA FreshInit == Init => FreshInv
BY IdleTyped DEF Init, ListsInit, FreshInv, RacesAreSeen, Listing, Creating

(* What a step that stores nothing and evicts nothing keeps.               *)
LEMMA FreshKept ==
    ASSUME rows' = rows, raced \subseteq raced',
           \A b \in Boards : BeingCreated(b) \subseteq BeingCreated(b)' \union raced'
    PROVE  \A b \in Boards : \A v : Fresh(b, v) => Fresh(b, v)'
BY DEF Fresh

LEMMA FreshSend ==
    ASSUME ListsTypeOK, FreshInv, NEW s \in Slots, NEW r \in Call, Sends(s, r)
    PROVE  FreshInv'
<1>1. \A t \in Slots : call'[t] = IF t = s THEN r ELSE call[t]
    BY DEF Sends, ListsTypeOK
<1>2. rows' = rows /\ cached' = cached /\ raced' = raced \union MetBy(r) BY DEF Sends
<1>3. \A b \in Boards : \A t \in Slots : Creating(t, b)' => Creating(t, b) /\ t # s
    BY <1>1 DEF Creating, Sends
<1>4. \A b \in Boards : BeingCreated(b) \subseteq BeingCreated(b)'
    <2> SUFFICES ASSUME NEW b \in Boards, NEW t \in Slots, Creating(t, b)
                 PROVE  call[t].item \in BeingCreated(b)'
        BY DEF BeingCreated
    <2>1. t # s BY DEF Creating, Sends
    <2>2. Creating(t, b)' /\ call'[t].item = call[t].item BY <1>1, <2>1 DEF Creating
    <2> QED BY <2>2 DEF BeingCreated
<1>5. \A b \in Boards : \A v : Fresh(b, v) => Fresh(b, v)'
    BY <1>2, <1>4, FreshKept
<1>6. \A b \in Boards : \A t \in Slots :
         Listing(t, b)' /\ call'[t].at \in {"read", "answered"} =>
             Listing(t, b) /\ call'[t] = call[t]
    BY <1>1 DEF Listing, Sends
<1>7. RacesAreSeen'
    <2> SUFFICES ASSUME NEW b \in Boards, NEW u \in Slots, NEW t \in Slots,
                        Creating(u, b)', Listing(t, b)'
                 PROVE  \/ call'[u].item \in raced'
                        \/ /\ Coming(t, b)'
                           /\ call'[u].item \in call'[t].val \union call'[t].missed
        BY DEF RacesAreSeen
    <2>1. Creating(u, b) /\ call'[u] = call[u] BY <1>1, <1>3
    <2>2. CASE t # s
        <3>1. Listing(t, b) /\ call'[t] = call[t] BY <1>1, <2>2 DEF Listing
        <3>2. Coming(t, b)' <=> Coming(t, b) BY <3>1 DEF Coming, Listing
        <3> QED BY <1>2, <2>1, <3>1, <3>2 DEF FreshInv, RacesAreSeen
    <2>3. CASE t = s
        <3>1. r.op = "list" /\ r.board = b BY <1>1, <2>3 DEF Listing
        <3>2. call[u].item \in MetBy(r) BY <2>1, <3>1 DEF MetBy, BeingCreated
        <3> QED BY <1>2, <2>1, <3>2
    <2> QED BY <2>2, <2>3
<1> QED BY <1>2, <1>5, <1>6, <1>7 DEF FreshInv

LEMMA FreshDrop ==
    ASSUME ListsTypeOK, FreshInv, NEW s \in Slots, Drops(s)
    PROVE  FreshInv'
<1>1. \A t \in Slots : call'[t] = IF t = s THEN Idle ELSE call[t]
    BY DEF Drops, ListsTypeOK
<1>2. rows' = rows /\ cached' = cached /\ raced' = raced BY DEF Drops
<1>3. \A b \in Boards : \A t \in Slots :
         /\ Creating(t, b)' <=> Creating(t, b)
         /\ Creating(t, b) => call'[t] = call[t]
         /\ Listing(t, b)' => Listing(t, b) /\ call'[t] = call[t]
    BY <1>1, IdleTyped DEF Creating, Listing, Drops
<1>4. \A b \in Boards : BeingCreated(b) \subseteq BeingCreated(b)'
    BY <1>3 DEF BeingCreated
<1>5. \A b \in Boards : \A v : Fresh(b, v) => Fresh(b, v)'
    BY <1>2, <1>4, FreshKept
<1>6. RacesAreSeen'
    <2>1. \A b \in Boards : \A t \in Slots :
             Listing(t, b)' => (Coming(t, b)' <=> Coming(t, b))
        BY <1>3 DEF Coming, Listing
    <2> QED BY <1>2, <1>3, <2>1 DEF RacesAreSeen, FreshInv
<1> QED BY <1>2, <1>3, <1>5, <1>6 DEF FreshInv

(* The requests of the others are where they were.                         *)
LEMMA OthersStay ==
    ASSUME ServerFits, NEW s \in Slots, ListStep(s) \/ CreateStep(s)
    PROVE  \A t \in Slots : t # s =>
              /\ call'[t].op = call[t].op /\ call'[t].board = call[t].board
              /\ call'[t].item = call[t].item /\ call'[t].at = call[t].at
              /\ call'[t].val = call[t].val
              /\ call[t].missed \subseteq call'[t].missed
<1>1. CASE Insert(s) BY <1>1, InsertMoves
<1>2. CASE ~Insert(s)
    <2>1. \A t \in Slots : t # s => call'[t] = call[t]
        BY <1>2 DEF ServerFits, ListsTypeOK, ListStep, CreateStep, ListHit, ListQuery,
           ListFill, Scan, Evict, EvictFails, Refuse
    <2> QED BY <2>1
<1> QED BY <1>1, <1>2

LEMMA FreshList ==
    ASSUME ServerFits, FreshInv, NEW s \in Slots, ListStep(s)
    PROVE  FreshInv'
<1>0. ListsTypeOK BY DEF ServerFits
<1> PICK d \in Boards : d = call[s].board BY <1>0 DEF ListsTypeOK, Call
<1>1. /\ call[s].op = "list" /\ call'[s].op = "list" /\ call'[s].board = d
      /\ call[s].at # "idle" /\ call'[s].at # "idle"
    BY <1>0 DEF ListStep, ListHit, ListQuery, ListFill, ListsTypeOK, Call
<1>2. rows' = rows /\ raced' = raced BY DEF ListStep, ListHit, ListQuery, ListFill
<1>3. \A t \in Slots : t # s => call'[t] = call[t]
    BY <1>0 DEF ListStep, ListHit, ListQuery, ListFill, ListsTypeOK
<1>4. \A b \in Boards : \A t \in Slots :
         /\ Creating(t, b)' <=> Creating(t, b)
         /\ Creating(t, b) => call'[t] = call[t]
         /\ Listing(t, b)' <=> Listing(t, b)
    BY <1>1, <1>3 DEF Creating, Listing
<1>5. \A b \in Boards : BeingCreated(b) \subseteq BeingCreated(b)'
    BY <1>4 DEF BeingCreated
<1>6. \A b \in Boards : \A v : Fresh(b, v) => Fresh(b, v)'
    BY <1>2, <1>5, FreshKept
<1>7. RacesAreSeen'
    <2> SUFFICES ASSUME NEW b \in Boards, NEW u \in Slots, NEW t \in Slots,
                        Creating(u, b)', Listing(t, b)'
                 PROVE  \/ call'[u].item \in raced'
                        \/ /\ Coming(t, b)'
                           /\ call'[u].item \in call'[t].val \union call'[t].missed
        BY DEF RacesAreSeen
    <2>1. Creating(u, b) /\ call'[u] = call[u] /\ Listing(t, b) BY <1>4
    <2>2. CASE t = s
        <3>1. call[s].at # "answered" BY DEF ListStep, ListHit, ListQuery, ListFill
        <3> QED BY <1>2, <2>1, <2>2, <3>1 DEF FreshInv, RacesAreSeen, Coming
    <2>3. CASE t # s
        <3>1. Coming(t, b)' <=> Coming(t, b) BY <1>3, <2>3 DEF Coming, Listing
        <3> QED BY <1>2, <1>3, <2>1, <2>3, <3>1 DEF FreshInv, RacesAreSeen
    <2> QED BY <2>2, <2>3
<1>8. Listing(s, d) /\ \A b \in Boards : Listing(s, b) => b = d BY <1>1 DEF Listing
<1>9. Fresh(d, call'[s].val)
    <2>1. CASE ListHit(s) BY <1>0, <2>1 DEF ListHit, FreshInv, ListsTypeOK
    <2>2. CASE ListQuery(s) BY <1>0, <2>2 DEF ListQuery, Fresh, ListsTypeOK
    <2>3. CASE ListFill(s) BY <1>0, <1>8, <2>3 DEF ListFill, FreshInv, ListsTypeOK, Call
    <2> QED BY <2>1, <2>2, <2>3 DEF ListStep
<1>10. \A b \in Boards : cached'[b] # None => Fresh(b, cached'[b])
    <2>1. CASE cached' = cached BY <2>1 DEF FreshInv
    <2>2. CASE cached' = [cached EXCEPT ![d] = call[s].val] /\ call'[s].val = call[s].val
        BY <1>0, <1>9, <2>2 DEF FreshInv, ListsTypeOK
    <2> QED BY <1>0, <2>1, <2>2 DEF ListStep, ListHit, ListQuery, ListFill, ListsTypeOK, Call
<1>11. \A b \in Boards : \A t \in Slots :
          Listing(t, b)' =>
              /\ call'[t].at = "read" => Fresh(b, call'[t].val)
              /\ call'[t].at = "answered" => Fresh(b, call'[t].val \union call'[t].missed)
    BY <1>3, <1>4, <1>8, <1>9, FreshMore DEF FreshInv
<1> QED BY <1>6, <1>7, <1>10, <1>11 DEF FreshInv

LEMMA FreshCreate ==
    ASSUME ServerFits, FreshInv, NEW s \in Slots, CreateStep(s)
    PROVE  FreshInv'
<1>0. ListsTypeOK BY DEF ServerFits
<1> PICK d \in Boards, i \in Items \union {None} : d = call[s].board /\ i = call[s].item
    BY <1>0 DEF ListsTypeOK, Call
<1>1. /\ call[s].op = "create" /\ call'[s].op = "create"
      /\ call'[s].board = d /\ call'[s].item = i
    <2>1. call[s].op = "create"
        BY DEF CreateStep, Insert, Scan, Evict, MayEvict, EvictFails, Refuse
    <2> QED BY <2>1, WorkKeeps
<1>2. \A t \in Slots : t # s =>
         /\ call'[t].op = call[t].op /\ call'[t].board = call[t].board
         /\ call'[t].item = call[t].item /\ call'[t].at = call[t].at
         /\ call'[t].val = call[t].val /\ call[t].missed \subseteq call'[t].missed
    BY OthersStay
<1>3. \A b \in Boards : \A t \in Slots :
         /\ t # s => (Creating(t, b)' <=> Creating(t, b))
         /\ Listing(t, b)' <=> Listing(t, b)
         /\ Coming(t, b)' <=> Coming(t, b)
         /\ Listing(t, b) => t # s
    BY <1>1, <1>2 DEF Creating, Listing, Coming
<1>4. \A t \in Slots : call'[t].item = call[t].item BY <1>1, <1>2
<1>5. CASE Insert(s) \/ Refuse(s) \/ EvictFails(s) \/ (Scan(s) /\ call'[s].at = "scanned")
    <2>1. /\ cached' = cached /\ raced \subseteq raced'
          /\ \A b \in Boards : rows'[b] \subseteq rows[b] \union (IF Insert(s) /\ b = d THEN {i} ELSE {})
        BY <1>0, <1>5 DEF Insert, Refuse, EvictFails, Scan, ListsTypeOK
    <2>2. \A b \in Boards : Creating(s, b) => b = d /\ (Creating(s, b)' \/ i \in raced')
        <3>1. CASE Insert(s) \/ Refuse(s) BY <3>1 DEF Insert, Refuse, Creating
        <3>2. CASE EvictFails(s) BY <1>1, <3>2 DEF EvictFails, Creating
        <3>3. CASE Scan(s) /\ call'[s].at = "scanned" BY <1>1, <3>3 DEF Creating
        <3> QED BY <1>5, <3>1, <3>2, <3>3
    <2>3. \A b \in Boards : BeingCreated(b) \subseteq BeingCreated(b)' \union raced'
        BY <1>3, <1>4, <2>2 DEF BeingCreated
    <2>4. Insert(s) => Creating(s, d)' BY <1>1, InsertMoves DEF Creating
    <2>5. Insert(s) => i \in BeingCreated(d)' BY <1>4, <2>4 DEF BeingCreated
    <2>6. \A b \in Boards : \A v : Fresh(b, v) => Fresh(b, v)'
        BY <2>1, <2>3, <2>5 DEF Fresh
    <2>7. RacesAreSeen'
        <3> SUFFICES ASSUME NEW b \in Boards, NEW u \in Slots, NEW t \in Slots,
                            Creating(u, b)', Listing(t, b)'
                     PROVE  \/ call'[u].item \in raced'
                            \/ /\ Coming(t, b)'
                               /\ call'[u].item \in call'[t].val \union call'[t].missed
            BY DEF RacesAreSeen
        <3>0. t # s /\ Listing(t, b) BY <1>3
        <3>1. CASE Creating(u, b)
            BY <1>2, <1>3, <1>4, <2>1, <3>0, <3>1 DEF FreshInv, RacesAreSeen
        <3>2. CASE ~Creating(u, b)
            <4>1. u = s /\ b = d BY <1>1, <1>3, <3>2 DEF Creating
            <4>2. Insert(s)
                <5>1. call'[s].at \in {"stored", "scanned"} BY <4>1 DEF Creating
                <5>2. call[s].at \notin {"stored", "scanned"} BY <1>1, <3>2, <4>1 DEF Creating
                <5>3. ~Refuse(s) BY <1>0, <5>1 DEF Refuse, ListsTypeOK, Call
                <5>4. ~EvictFails(s) /\ ~Scan(s) BY <5>2 DEF EvictFails, Scan
                <5> QED BY <1>5, <5>3, <5>4
            <4>3. CASE Serving(t, d)
                <5>1. i \in raced' BY <4>2, <4>3 DEF Insert
                <5> QED BY <1>1, <4>1, <5>1
            <4>4. CASE Coming(t, d)
                <5>1. i \in call'[t].missed \union rows[d]
                    BY <3>0, <4>2, <4>4, InsertMoves
                <5>2. rows[d] \subseteq call[t].val \union call[t].missed \union raced
                    BY <4>4, ComingWhole
                <5>3. i \in call'[t].val \union call'[t].missed \union raced'
                    BY <1>2, <2>1, <3>0, <5>1, <5>2
                <5> QED BY <1>1, <1>3, <4>1, <4>4, <5>3
            <4> QED BY <3>0, <4>1, <4>3, <4>4 DEF Serving, Coming
        <3> QED BY <3>1, <3>2
    <2>8. \A b \in Boards : \A t \in Slots :
             (Listing(t, b) =>
                 /\ call[t].at = "read" => Fresh(b, call[t].val)
                 /\ call[t].at = "answered" => Fresh(b, call[t].val \union call[t].missed))'
        <3> SUFFICES ASSUME NEW b \in Boards, NEW t \in Slots, Listing(t, b)'
                     PROVE  /\ call'[t].at = "read" => Fresh(b, call[t].val)'
                            /\ call'[t].at = "answered"
                                  => Fresh(b, call[t].val \union call[t].missed)'
            OBVIOUS
        <3>1. t # s /\ Listing(t, b) BY <1>3
        <3>2. call'[t].at = call[t].at /\ call'[t].val = call[t].val
            BY <1>2, <3>1
        <3>3. CASE call[t].at = "read"
            <4>1. Fresh(b, call[t].val) BY <3>1, <3>3 DEF FreshInv
            <4>2. \A v : Fresh(b, v) => Fresh(b, v)' BY <2>6
            <4> DEFINE w == call[t].val
            <4>3. rows'[b] \subseteq w \union raced' \union BeingCreated(b)'
                BY <4>1, <4>2 DEF Fresh
            <4> QED BY <3>2, <3>3, <4>3 DEF Fresh
        <3>4. CASE call[t].at = "answered"
            <4>1. Fresh(b, call[t].val \union call[t].missed)
                BY <3>1, <3>4 DEF FreshInv
            <4>2. \A v : Fresh(b, v) => Fresh(b, v)' BY <2>6
            <4> DEFINE w == call[t].val \union call[t].missed
            <4>3. rows'[b] \subseteq w \union raced' \union BeingCreated(b)'
                BY <4>1, <4>2 DEF Fresh
            <4>4. w \subseteq call'[t].val \union call'[t].missed
                BY <1>2, <3>1
            <4> QED BY <3>2, <3>4, <4>3, <4>4 DEF Fresh
        <3> QED BY <3>2, <3>3, <3>4
    <2> QED BY <2>1, <2>6, <2>7, <2>8 DEF FreshInv
<1>6. CASE Evict(s) \/ (Scan(s) /\ call'[s].at # "scanned")
    <2>1. rows' = rows /\ raced' = raced BY <1>6 DEF Evict, Scan
    <2>2. Creating(s, d) /\ \A b \in Boards : ~Creating(s, b)'
        <3>1. call[s].at \in {"stored", "scanned"} BY <1>6 DEF Evict, MayEvict, Scan
        <3>2. call'[s].at = "answered" BY <1>0, <1>6 DEF Evict, Scan, ListsTypeOK, Call
        <3> QED BY <1>1, <3>1, <3>2 DEF Creating
    <2>3. cached'[d] = None /\ \A b \in Boards : b # d => cached'[b] = cached[b]
        <3>1. CASE Evict(s) BY <1>0, <3>1 DEF Evict, ListsTypeOK
        <3>2. CASE Scan(s) /\ call'[s].at # "scanned"
            BY <1>0, <3>2 DEF Scan, ListsTypeOK
        <3> QED BY <1>6, <3>1, <3>2
    <2>4. \A b \in Boards : b # d => BeingCreated(b) \subseteq BeingCreated(b)'
        BY <1>1, <1>3, <1>4 DEF BeingCreated, Creating
    <2>5. BeingCreated(d) \subseteq BeingCreated(d)' \union {i}
        BY <1>3, <1>4 DEF BeingCreated
    <2>6. \A b \in Boards : b # d => \A v : Fresh(b, v) => Fresh(b, v)'
        BY <2>1, <2>4 DEF Fresh
    <2>7. \A v : Fresh(d, v) /\ i \in v \union raced => Fresh(d, v)'
        BY <2>1, <2>5 DEF Fresh
    <2>8. \A t \in Slots : Listing(t, d) =>
             \/ i \in raced
             \/ call[t].at = "answered" /\ i \in call[t].val \union call[t].missed
        BY <2>2 DEF FreshInv, RacesAreSeen, Coming
    <2>9. \A t \in Slots : t # s => call'[t] = call[t]
        BY <1>0, <1>6 DEF Evict, Scan, ListsTypeOK
    <2>10. RacesAreSeen' BY <1>3, <2>1, <2>2, <2>9 DEF FreshInv, RacesAreSeen
    <2>11. \A b \in Boards : (cached[b] # None => Fresh(b, cached[b]))'
        BY <2>3, <2>6 DEF FreshInv
    <2>12. \A b \in Boards : \A t \in Slots :
              (Listing(t, b) =>
                  /\ call[t].at = "read" => Fresh(b, call[t].val)
                  /\ call[t].at = "answered"
                         => Fresh(b, call[t].val \union call[t].missed))'
        <3> SUFFICES ASSUME NEW b \in Boards, NEW t \in Slots, Listing(t, b)'
                     PROVE  /\ call'[t].at = "read" => Fresh(b, call[t].val)'
                            /\ call'[t].at = "answered"
                                  => Fresh(b, call[t].val \union call[t].missed)'
            OBVIOUS
        <3>1. Listing(t, b) /\ call'[t] = call[t] BY <1>3, <2>9
        <3>2. b # d => \A v : Fresh(b, v) => Fresh(b, v)' BY <2>6
        <3>3. ASSUME NEW v, Fresh(b, v), b = d => i \in v \union raced
              PROVE  rows'[b] \subseteq v \union raced' \union BeingCreated(b)'
            BY <2>7, <3>2, <3>3 DEF Fresh
        <3>4. CASE call[t].at = "read"
            <4>1. Fresh(b, call[t].val) /\ (b = d => i \in raced)
                BY <2>8, <3>1, <3>4 DEF FreshInv
            <4> QED BY <3>1, <3>3, <3>4, <4>1 DEF Fresh
        <3>5. CASE call[t].at = "answered"
            <4>1. Fresh(b, call[t].val \union call[t].missed)
                  /\ (b = d => i \in call[t].val \union call[t].missed \union raced)
                BY <2>8, <3>1, <3>5 DEF FreshInv
            <4> QED BY <3>1, <3>3, <3>5, <4>1 DEF Fresh
        <3> QED BY <3>1, <3>4, <3>5
    <2> QED BY <2>10, <2>11, <2>12 DEF FreshInv
<1> QED BY <1>5, <1>6 DEF CreateStep

LEMMA FreshStep == Base /\ FreshInv /\ [Next]_vars => FreshInv'
<1> SUFFICES ASSUME Base, FreshInv, [Next]_vars PROVE FreshInv'
    OBVIOUS
<1>0. ServerFits /\ ListsTypeOK BY DEF Base, Requests, ServerFits
<1>1. CASE UNCHANGED server
    BY <1>1 DEF server, FreshInv, RacesAreSeen, Fresh, Listing, Creating, BeingCreated,
           Coming
<1>2. CASE \E s \in Slots, r \in Call : Sends(s, r) BY <1>0, <1>2, FreshSend
<1>3. CASE \E s \in Slots : Drops(s) BY <1>0, <1>3, FreshDrop
<1>4. CASE \E s \in Slots : ListStep(s) \/ CreateStep(s)
    BY <1>0, <1>4, FreshList, FreshCreate
<1>5. ASSUME NEW b \in Boards, Expire(b) PROVE FreshInv'
    <2>1. /\ UNCHANGED <<rows, call, raced>>
          /\ \A c \in Boards : cached'[c] = IF c = b THEN None ELSE cached[c]
        BY <1>0, <1>5 DEF Expire, ListsTypeOK
    <2> QED
        BY <2>1 DEF FreshInv, RacesAreSeen, Fresh, Listing, Creating, BeingCreated, Coming
<1> QED BY <1>1, <1>2, <1>3, <1>4, <1>5, ServerMoves

LEMMA FreshAlways == Spec => [](Base /\ FreshInv)
<1>1. Base /\ FreshInv /\ [Next]_vars => (Base /\ FreshInv)' BY BaseStep, FreshStep
<1> QED BY <1>1, BaseInit, FreshInit, PTL DEF Spec

(* A copy, or a list on its way, lacks no row but those that are just      *)
(* being created or that raced.                                            *)
THEOREM ListsStayFresh == Spec => []ListsAreFresh
BY FreshAlways, FreshIsFresh, PTL

-----------------------------------------------------------------------------
(* The materials of the weeks.  Most steps have nothing to do with them.   *)
NoMaterials ==
    /\ UNCHANGED <<open, known, overlapped>>
    /\ \A t \in Slots : Gathering(t) => job'[t] = job[t]
    /\ \A t \in Slots : Gathering(t)' => Gathering(t)

LEMMA MaterialsKept == MaterialsMeet /\ NoMaterials => MaterialsMeet'
BY DEF MaterialsMeet, NoMaterials, Gathering, Fetching

(* A slot whose job is not to fetch materials gets one that is not either. *)
LEMMA JobMoves ==
    ASSUME JobsTyped, NEW s \in Slots, ~Gathering(s), NEW j, j.task # "materials",
           job' = [job EXCEPT ![s] = j] \/ job' = job,
           UNCHANGED <<open, known, overlapped>>
    PROVE  NoMaterials
BY DEF NoMaterials, Gathering, JobsTyped

LEMMA UserNoMaterials ==
    ASSUME Base,
           \/ \E f \in Forms : OpenForm(f) \/ SubmitStored(f) \/ SubmitRefused(f)
                               \/ SubmitStubbed(f)
           \/ \E x \in Items \union {Text} : Type(x)
           \/ Cancel \/ Remove \/ Refilter
    PROVE  NoMaterials
<1>1. CASE job' = job /\ UNCHANGED <<open, known, overlapped>>
    BY <1>1 DEF NoMaterials, Gathering
<1>2. ASSUME NEW s \in Slots, NEW r, NEW t \in {"load", "create", "refused"},
             NEW a \in Subjects,
             Send(s, r, Task(t, a)) \/ Await(s, Task(t, a)),
             UNCHANGED <<open, known, overlapped>>
      PROVE  NoMaterials
    <2>1. Task(t, a).task # "materials" BY JobTyped DEF Tasks
    <2>2. job' = [job EXCEPT ![s] = Task(t, a)] /\ ~Gathering(s)
        BY <1>2 DEF Send, Await, Free, Gathering
    <2> QED BY <1>2, <2>1, <2>2, JobMoves DEF Base, Requests
<1>3. None \in Subjects /\ "enrollment" \in Subjects /\ Forms \subseteq Subjects
    BY DEF Subjects, Texts
<1>4. ASSUME NEW f \in Forms, OpenForm(f) PROVE NoMaterials
    <2>1. UNCHANGED <<open, known, overlapped>> BY <1>4 DEF OpenForm
    <2>2. \/ job' = job
          \/ \E s \in Slots : Send(s, Request("list", "courses", None, "sent"),
                                   Task("load", None))
        BY <1>4 DEF OpenForm
    <2> QED BY <1>1, <1>2, <1>3, <2>1, <2>2
<1>5. ASSUME NEW f \in Forms, SubmitStored(f) PROVE NoMaterials
    <2>1. UNCHANGED <<open, known, overlapped>> BY <1>5 DEF SubmitStored
    <2>2. \E s \in Slots : \E r : Send(s, r, Task("create", form.text))
        BY <1>5 DEF SubmitStored
    <2>3. form.text \in Subjects BY DEF Base, ViewTyped, Subjects
    <2> QED BY <1>2, <2>1, <2>2, <2>3
<1>6. ASSUME NEW f \in Forms, SubmitRefused(f) PROVE NoMaterials
    <2>1. UNCHANGED <<open, known, overlapped>> BY <1>6 DEF SubmitRefused
    <2>2. \E s \in Slots : Await(s, Task("refused", f)) BY <1>6 DEF SubmitRefused
    <2> QED BY <1>2, <1>3, <2>1, <2>2
<1>7. ASSUME NEW f \in Forms, SubmitStubbed(f) PROVE NoMaterials
    BY <1>1, <1>7 DEF SubmitStubbed
<1>8. CASE (\E x \in Items \union {Text} : Type(x)) \/ Cancel
    BY <1>1, <1>8 DEF Type, Cancel
<1>9. CASE Remove
    <2>1. UNCHANGED <<open, known, overlapped>> BY <1>9 DEF Remove
    <2>2. \E s \in Slots : Await(s, Task("refused", "enrollment")) BY <1>9 DEF Remove
    <2> QED BY <1>2, <1>3, <2>1, <2>2
<1>10. CASE Refilter
    <2>1. UNCHANGED <<open, known, overlapped>> BY <1>10 DEF Refilter
    <2>2. \E s \in Slots : \E r : Send(s, r, Task("load", None)) BY <1>10 DEF Refilter
    <2> QED BY <1>2, <1>3, <2>1, <2>2
<1> QED BY <1>4, <1>5, <1>6, <1>7, <1>8, <1>9, <1>10

LEMMA OtherNoMaterials ==
    ASSUME Base,
           \/ \E s \in Slots : Handle(s) /\ ~Gathering(s)
           \/ \E s \in Slots : Works(s)
           \/ CopyExpires
           \/ UNCHANGED vars
    PROVE  NoMaterials
<1>1. CASE job' = job /\ UNCHANGED <<open, known, overlapped>>
    BY <1>1 DEF NoMaterials, Gathering
<1>2. ASSUME NEW s \in Slots, Handle(s), ~Gathering(s) PROVE NoMaterials
    <2>1. UNCHANGED <<open, known, overlapped>>
        BY <1>2 DEF Handle, Loaded, LoadFails, CourseCreated, WeekCreated, WeekAdded,
           CreateFails, MaterialsCome, RefusalComes, Unheard, Gathering
    <2>2. Ends(s) \/ Reads(s, "load") \/ Reads(s, "readback")
        BY <1>2 DEF Handle, Loaded, LoadFails, CourseCreated, WeekCreated, WeekAdded,
           CreateFails, MaterialsCome, RefusalComes, Unheard
    <2>3. CASE Ends(s)
        BY <1>2, <2>1, <2>3, JobTyped, JobMoves DEF Ends, Base, Requests
    <2>4. ASSUME NEW t \in {"load", "readback"}, Reads(s, t) PROVE NoMaterials
        <3>1. job' = [job EXCEPT ![s].task = t] BY <2>4 DEF Reads
        <3> QED BY <1>2, <2>1, <3>1 DEF NoMaterials, Gathering, Base, Requests, JobsTyped, Job
    <2> QED BY <2>2, <2>3, <2>4
<1> QED BY <1>1, <1>2 DEF Works, CopyExpires, vars, client

LEMMA MountNoMaterials ==
    ASSUME Base, NEW p \in Pages, NEW js \in [Slots -> Job], Mount(p, js),
           \A s \in Slots : js[s].task # "materials"
    PROVE  MaterialsMeet'
<1>1. open' = {} /\ known' = {} /\ overlapped' = {} BY DEF Mount
<1>2. Task("load", None).task = "load" BY JobTyped DEF Tasks, Subjects, Texts
<1>3. \/ job' = js
      \/ \E s \in Slots : job' = [js EXCEPT ![s] = Task("load", None)]
    BY DEF Mount
<1>4. \A s \in Slots : ~Gathering(s)' BY <1>2, <1>3 DEF Gathering
<1> QED BY <1>1, <1>4 DEF MaterialsMeet

LEMMA ToggleMeets ==
    ASSUME Base, MaterialsMeet, NEW w \in Weeks, Toggle(w)
    PROVE  MaterialsMeet'
<1>1. known' = known /\ open' \subseteq open \union {w} BY DEF Toggle
<1>2. CASE w \notin open \union known
    <2> DEFINE j == [Task("materials", w) EXCEPT !.seen = known]
    <2>1. PICK s \in Slots : Await(s, j) BY <1>2 DEF Toggle
    <2>2. w \in Subjects BY BoardsAreTwo DEF Subjects, Texts
    <2>3. j.task = "materials" /\ j.about = w /\ j.seen = known
        BY <2>2, JobTyped DEF Tasks, Job, Base, ViewTyped
    <2> HIDE DEF j
    <2>4. /\ ~Gathering(s)
          /\ \A t \in Slots : job'[t] = IF t = s THEN j ELSE job[t]
        BY <2>1 DEF Await, Free, Gathering, Base, Requests, JobsTyped
    <2>5. overlapped' = IF Fetching \subseteq {w} THEN overlapped
                        ELSE overlapped \union Fetching \union {w}
        BY <1>2 DEF Toggle
    <2>6. \A t \in Slots : Gathering(t)' <=> t = s \/ Gathering(t)
        BY <2>3, <2>4 DEF Gathering
    <2>7. Fetching' = Fetching \union {w}
        BY <2>3, <2>4, <2>6 DEF Fetching, Gathering
    <2>8. \A t \in Slots : Gathering(t) => job[t].about = w \/ job[t].about \in overlapped'
        BY <2>5 DEF Fetching, Gathering
    <2>9. \A t \in Slots : Gathering(t) => job[t].about = w \/ w \in overlapped'
        BY <2>5 DEF Fetching, Gathering
    <2>10. overlapped \subseteq overlapped' BY <2>5
    <2>11. open' \subseteq known' \union Fetching' \union overlapped'
        BY <1>1, <2>7, <2>10 DEF MaterialsMeet
    <2>12. \A t \in Slots : Gathering(t)' =>
              /\ known \subseteq job'[t].seen \union {job'[t].about} \union overlapped'
              /\ job'[t].seen \subseteq known \union overlapped'
        BY <2>3, <2>4, <2>6, <2>10 DEF MaterialsMeet
    <2>13. \A t, u \in Slots : Gathering(t)' /\ Gathering(u)' =>
              /\ job'[t].seen \subseteq job'[u].seen \union {job'[u].about} \union overlapped'
              /\ job'[t].about = job'[u].about \/ job'[t].about \in overlapped'
        BY <2>3, <2>4, <2>6, <2>8, <2>9, <2>10 DEF MaterialsMeet
    <2> QED BY <1>1, <2>11, <2>12, <2>13 DEF MaterialsMeet
<1>3. CASE w \in open \union known
    <2>1. job' = job /\ overlapped' = overlapped BY <1>3 DEF Toggle
    <2>2. w \in known \union Fetching \union overlapped BY <1>3 DEF MaterialsMeet
    <2> QED BY <1>1, <2>1, <2>2 DEF MaterialsMeet, Gathering, Fetching
<1> QED BY <1>2, <1>3

LEMMA ComeMeets ==
    ASSUME Base, MaterialsMeet, NEW s \in Slots, MaterialsCome(s)
    PROVE  MaterialsMeet'
<1>1. /\ Gathering(s) /\ known' = job[s].seen \union {job[s].about}
      /\ open' = open /\ overlapped' = overlapped
      /\ job' = [job EXCEPT ![s] = NoJob]
    BY DEF MaterialsCome, Gathering, Ends
<1>2. \A t \in Slots : Gathering(t)' <=> t # s /\ Gathering(t)
    BY <1>1, JobTyped DEF Gathering, Base, Requests, JobsTyped
<1>3. \A t \in Slots : Gathering(t)' => job'[t] = job[t]
    BY <1>1, <1>2 DEF Base, Requests, JobsTyped
<1>4. Fetching \subseteq Fetching' \union {job[s].about}
    BY <1>2, <1>3 DEF Fetching, Gathering
<1>5. known \subseteq known' \union overlapped BY <1>1 DEF MaterialsMeet
<1>6. open' \subseteq known' \union Fetching' \union overlapped'
    BY <1>1, <1>4, <1>5 DEF MaterialsMeet
<1>7. \A t \in Slots : Gathering(t)' =>
         /\ known' \subseteq job'[t].seen \union {job'[t].about} \union overlapped'
         /\ job'[t].seen \subseteq known' \union overlapped'
    BY <1>1, <1>2, <1>3 DEF MaterialsMeet
<1>8. \A t, u \in Slots : Gathering(t)' /\ Gathering(u)' =>
         /\ job'[t].seen \subseteq job'[u].seen \union {job'[u].about} \union overlapped'
         /\ job'[t].about = job'[u].about \/ job'[t].about \in overlapped'
    BY <1>1, <1>2, <1>3 DEF MaterialsMeet
<1> QED BY <1>6, <1>7, <1>8 DEF MaterialsMeet

LEMMA MaterialsStep == Base /\ MaterialsMeet /\ [Next]_vars => MaterialsMeet'
<1> SUFFICES ASSUME Base, MaterialsMeet, [Next]_vars PROVE MaterialsMeet'
    OBVIOUS
<1>1. role \in RoleChoices BY DEF Base, ViewTyped
<1>2. Visited[role] \subseteq Pages /\ Used[role] \subseteq Forms
    BY <1>1, PagesAssumption
<1>3. ASSUME NEW p \in Pages, Visit(p) \/ LoadUrl(p) PROVE MaterialsMeet'
    <2>1. CASE Visit(p)
        <3> DEFINE js == [s \in Slots |-> Left(job[s])]
        <3>1. \A s \in Slots : js[s] \in Job /\ js[s].task # "materials"
            BY JobTyped DEF Base, Requests, JobsTyped
        <3>2. js \in [Slots -> Job] BY <3>1
        <3>3. Mount(p, js) BY <2>1 DEF Visit
        <3> HIDE DEF js
        <3> QED BY <3>1, <3>2, <3>3, MountNoMaterials
    <2>2. CASE LoadUrl(p)
        BY <2>2, JobTyped, MountNoMaterials DEF LoadUrl
    <2> QED BY <1>3, <2>1, <2>2
<1>4. CASE UserStep
    <2>1. CASE \E p \in Visited[role] : Visit(p) \/ LoadUrl(p) BY <1>2, <1>3, <2>1
    <2>2. CASE \E w \in Weeks : Toggle(w) BY <2>2, ToggleMeets
    <2>3. CASE \/ \E f \in Forms : OpenForm(f) \/ SubmitStored(f) \/ SubmitRefused(f)
                                   \/ SubmitStubbed(f)
               \/ \E x \in Items \union {Text} : Type(x)
               \/ Cancel \/ Remove \/ Refilter
        BY <2>3, UserNoMaterials, MaterialsKept
    <2> QED BY <1>2, <1>4, <2>1, <2>2, <2>3 DEF UserStep
<1>5. ASSUME NEW s \in Slots, Handle(s) PROVE MaterialsMeet'
    <2>1. CASE Gathering(s)
        <3>1. MaterialsCome(s)
            BY <1>5, <2>1 DEF Gathering, Handle, Loaded, LoadFails, CourseCreated, WeekCreated,
               WeekAdded, CreateFails, RefusalComes, Unheard
        <3> QED BY <3>1, ComeMeets
    <2>2. CASE ~Gathering(s) BY <1>5, <2>2, OtherNoMaterials, MaterialsKept
    <2> QED BY <2>1, <2>2
<1>6. CASE (\E s \in Slots : Works(s)) \/ CopyExpires \/ UNCHANGED vars
    BY <1>6, OtherNoMaterials, MaterialsKept
<1> QED BY <1>4, <1>5, <1>6 DEF Next

(* A week that is expanded has its materials, or waits for them, unless    *)
(* they were fetched together with others (toggleSection).                 *)
THEOREM MaterialsStay == Spec => []MaterialsAreKept
<1>1. Init => MaterialsMeet
    BY JobTyped DEF Init, MaterialsMeet, Gathering
<1>2. Base /\ MaterialsMeet /\ [Next]_vars => (Base /\ MaterialsMeet)'
    BY BaseStep, MaterialsStep
<1>3. MaterialsMeet => MaterialsAreKept BY DEF MaterialsMeet, MaterialsAreKept
<1> QED BY <1>1, <1>2, <1>3, BaseInit, PTL DEF Spec

-----------------------------------------------------------------------------
(* What is stored once.  Most steps neither store nor say so.              *)
Pending(t) == call[t].op = "create" /\ call[t].at # "idle"

NoStoring ==
    /\ rows' = rows /\ doubtful' = doubtful
    /\ form'.text \in {form.text, None}
    /\ \A t \in Slots : Storing(t)' <=> Storing(t)
    /\ \A t \in Slots : Storing(t) => job'[t] = job[t]
    /\ \A t \in Slots : Pending(t)' => call'[t] = call[t]

LEMMA StoringTyped ==
    ASSUME Base, NEW t \in Slots, Storing(t)
    PROVE  job[t].about \in Items
BY DEF Base, Requests, JobsTyped, Storing

LEMMA NoneIsNoText == None \notin Items /\ Text \notin Items
BY ListsAssumption, PagesAssumption DEF Items

LEMMA StoringKept == SentOnce /\ NoStoring => SentOnce'
<1> SUFFICES ASSUME SentOnce, NoStoring PROVE SentOnce'
    OBVIOUS
<1>1. \A i : (Stocked(i)' <=> Stocked(i)) /\ (InFlight(i)' <=> InFlight(i))
    BY DEF NoStoring, Stocked, InFlight, Storing
<1>2. \A t \in Slots : Storing(t) => (Live(t)' <=> Live(t))
    BY DEF NoStoring, Live
<1>3. (\A s \in Slots : Pending(s) =>
              /\ job[s].task = "create" \/ call[s].item \in doubtful
              /\ call[s].at \in {"sent", "failed"} /\ Stocked(call[s].item) =>
                    call[s].item \in doubtful
              /\ call[s].at \in {"stored", "scanned", "answered"} => Stocked(call[s].item))'
    BY <1>1 DEF NoStoring, SentOnce, Pending, Storing
<1>4. (\A s \in Slots : job[s].task = "readback" => Stocked(job[s].about))'
    BY <1>1 DEF NoStoring, SentOnce, Storing
<1>5. (\A s, t \in Slots :
          s # t /\ Storing(s) /\ Storing(t) /\ job[s].about = job[t].about
              => job[s].about \in doubtful)'
    BY DEF NoStoring, SentOnce
<1>6. (form.text \in Items \ doubtful =>
          /\ Stocked(form.text) => InFlight(form.text)
          /\ \A s \in Slots : Storing(s) /\ job[s].about = form.text => Live(s))'
    BY <1>1, <1>2, NoneIsNoText DEF NoStoring, SentOnce
<1> QED BY <1>3, <1>4, <1>5, <1>6 DEF SentOnce, Pending

(* A slot without a create gets a job and a request that are not either.   *)
LEMMA IdleMoves ==
    ASSUME Base, NEW s \in Slots, ~Storing(s), ~Storing(s)',
           \A t \in Slots : t # s => job'[t] = job[t] /\ call'[t] = call[t],
           ~Pending(s)' \/ call' = call,
           rows' = rows, doubtful' = doubtful, form'.text \in {form.text, None}
    PROVE  NoStoring
BY DEF NoStoring, Storing, Pending

LEMMA UserNoStoring ==
    ASSUME Base,
           \/ \E f \in Forms : OpenForm(f) \/ SubmitRefused(f) \/ SubmitStubbed(f)
           \/ Cancel \/ Remove \/ Refilter
           \/ \E w \in Weeks : Toggle(w)
    PROVE  NoStoring
<1>1. CASE job' = job /\ UNCHANGED server /\ doubtful' = doubtful
           /\ form'.text \in {form.text, None}
    BY <1>1 DEF NoStoring, Storing, server, Pending
<1>2. ASSUME NEW s \in Slots, NEW j, Await(s, j), j.task \notin {"create", "readback"},
             doubtful' = doubtful, form'.text \in {form.text, None}
      PROVE  NoStoring
    <2>1. ~Storing(s) /\ job' = [job EXCEPT ![s] = j] BY <1>2 DEF Await, Free, Storing
    <2>2. ~Storing(s)' /\ \A t \in Slots : t # s => job'[t] = job[t]
        BY <1>2, <2>1 DEF Storing, Base, Requests, JobsTyped
    <2> QED BY <1>2, <2>1, <2>2, IdleMoves DEF Await, server
<1>3. ASSUME NEW s \in Slots,
             Send(s, Request("list", "courses", None, "sent"), Task("load", None)),
             doubtful' = doubtful, form'.text \in {form.text, None}
      PROVE  NoStoring
    <2>1. Task("load", None).task = "load" BY JobTyped DEF Tasks, Subjects, Texts
    <2>2. /\ ~Storing(s) /\ job' = [job EXCEPT ![s] = Task("load", None)]
          /\ call' = [call EXCEPT ![s] = Request("list", "courses", None, "sent")]
          /\ rows' = rows
        BY <1>3 DEF Send, Free, Storing
    <2>3. \A t \in Slots : t # s => job'[t] = job[t] /\ call'[t] = call[t]
        BY <2>2 DEF Base, Requests, JobsTyped, ServerFits, ListsTypeOK
    <2>4. ~Storing(s)' BY <2>1, <2>2 DEF Storing, Base, Requests, JobsTyped
    <2>5. ~Pending(s)'
        BY <2>2, RequestTyped DEF Pending, Base, Requests, ServerFits, ListsTypeOK,
           Ops, Boards, Stages
    <2> QED BY <1>3, <2>2, <2>3, <2>4, <2>5, IdleMoves
<1>4. ASSUME NEW f \in Forms, OpenForm(f) PROVE NoStoring
    <2>1. doubtful' = doubtful /\ form'.text \in {form.text, None} BY <1>4 DEF OpenForm
    <2> QED BY <1>1, <1>3, <1>4, <2>1 DEF OpenForm, server
<1>5. ASSUME NEW f \in Forms, SubmitRefused(f) PROVE NoStoring
    <2>1. Task("refused", f).task = "refused" BY JobTyped DEF Tasks, Subjects
    <2> QED BY <1>2, <1>5, <2>1 DEF SubmitRefused
<1>6. ASSUME NEW f \in Forms, SubmitStubbed(f) PROVE NoStoring
    BY <1>1, <1>6 DEF SubmitStubbed
<1>7. CASE Cancel
    <2>1. form'.text = form.text BY <1>7 DEF Cancel, Base, ViewTyped
    <2> QED BY <1>1, <1>7, <2>1 DEF Cancel
<1>8. CASE Remove
    <2>1. Task("refused", "enrollment").task = "refused" BY JobTyped DEF Tasks, Subjects
    <2> QED BY <1>2, <1>8, <2>1 DEF Remove
<1>9. CASE Refilter BY <1>3, <1>9 DEF Refilter
<1>10. ASSUME NEW w \in Weeks, Toggle(w) PROVE NoStoring
    <2>1. w \in Subjects BY BoardsAreTwo DEF Subjects, Texts
    <2>2. [Task("materials", w) EXCEPT !.seen = known].task = "materials"
        BY <2>1, JobTyped DEF Tasks, Job
    <2> QED BY <1>1, <1>2, <1>10, <2>2 DEF Toggle
<1> QED BY <1>4, <1>5, <1>6, <1>7, <1>8, <1>9, <1>10

(* What the end of a handler leaves.                                       *)
LEMMA EndsMoves ==
    ASSUME Base, NEW s \in Slots, Ends(s)
    PROVE  /\ \A t \in Slots : t # s => job'[t] = job[t] /\ call'[t] = call[t]
           /\ job'[s] = NoJob /\ ~Storing(s)' /\ ~Live(s)'
           /\ rows' = rows /\ raced' = raced
           /\ Pending(s)' => call' = call /\ call[s].at \notin {"answered", "failed"}
<1>1. job' = [job EXCEPT ![s] = NoJob] /\ job \in [Slots -> Job] /\ call \in [Slots -> Call]
    BY DEF Ends, Base, Requests, JobsTyped, ServerFits, ListsTypeOK
<1>2. ~Storing(s)' /\ ~Live(s)' BY <1>1, JobTyped DEF Storing, Live
<1>3. CASE call[s].at \in {"answered", "failed"}
    <2>1. call' = [call EXCEPT ![s] = Idle] /\ UNCHANGED <<rows, cached, raced>>
        BY <1>3 DEF Ends
    <2>2. ~Pending(s)' BY <1>1, <2>1, IdleTyped DEF Pending
    <2> QED BY <1>1, <1>2, <2>1, <2>2
<1>4. CASE call[s].at \notin {"answered", "failed"}
    <2>1. UNCHANGED <<call, rows, raced>> BY <1>4 DEF Ends, server
    <2> QED BY <1>1, <1>2, <1>4, <2>1
<1> QED BY <1>3, <1>4

LEMMA HandleNoStoring ==
    ASSUME Base, NEW s \in Slots, Handle(s), ~Storing(s)
    PROVE  NoStoring
<1>1. Loaded(s) \/ LoadFails(s) \/ MaterialsCome(s) \/ RefusalComes(s) \/ Unheard(s)
    BY DEF Handle, Storing, CourseCreated, WeekCreated, WeekAdded, CreateFails
<1>2. Ends(s) /\ doubtful' = doubtful /\ form' = form
    BY <1>1 DEF Loaded, LoadFails, MaterialsCome, RefusalComes, Unheard
<1> QED BY <1>2, EndsMoves, IdleMoves

LEMMA ListNoStoring ==
    ASSUME Base,
           \/ \E s \in Slots : Works(s) /\ ListStep(s)
           \/ CopyExpires \/ UNCHANGED vars
    PROVE  NoStoring
<1>1. ASSUME NEW s \in Slots, Works(s), ListStep(s) PROVE NoStoring
    <2>1. /\ job' = job /\ doubtful' = doubtful /\ form' = form /\ rows' = rows
          /\ call[s].op = "list"
        BY <1>1 DEF Works, ListStep, ListHit, ListQuery, ListFill
    <2>2. call'[s].op = "list" BY <1>1, <2>1, WorkKeeps DEF Base, Requests
    <2>3. \A t \in Slots : t # s => call'[t] = call[t]
        BY <1>1 DEF ListStep, ListHit, ListQuery, ListFill, Base, Requests, ServerFits,
           ListsTypeOK
    <2> QED BY <2>1, <2>2, <2>3 DEF NoStoring, Storing, Pending
<1>2. CASE CopyExpires BY <1>2 DEF CopyExpires, Expire, NoStoring, Storing, Pending
<1>3. CASE UNCHANGED vars BY <1>3 DEF vars, server, client, NoStoring, Storing, Pending
<1> QED BY <1>1, <1>2, <1>3

(* The steps that have to do with a text the server may store.             *)
LEMMA MountStoring ==
    ASSUME Base, NEW p \in Pages, NEW js \in [Slots -> Job], Mount(p, js)
    PROVE  /\ rows' = rows /\ form'.text = None
           /\ \A t \in Slots :
                 /\ Storing(t)' <=> js[t].task \in {"create", "readback"}
                 /\ Storing(t)' => job'[t] = js[t]
                 /\ Pending(t)' => call'[t] = call[t] /\ job'[t] = js[t]
<1>1. form'.text = None BY NoFormTyped DEF Mount
<1>2. CASE LoadsFor(p, role) = {}
    BY <1>1, <1>2 DEF Mount, server, Storing, Pending
<1>3. CASE LoadsFor(p, role) # {}
    <2>1. PICK s \in Slots, b \in LoadsFor(p, role) :
               /\ js[s] = NoJob
               /\ call' = [call EXCEPT ![s] = Request("list", b, None, "sent")]
               /\ job' = [js EXCEPT ![s] = Task("load", None)]
               /\ rows' = rows
        BY <1>3 DEF Mount
    <2>2. b \in Boards BY PagesLoad DEF Boards
    <2>3. Request("list", b, None, "sent").op = "list"
        BY <2>2, RequestTyped DEF Ops, Stages
    <2>4. Task("load", None).task = "load" /\ NoJob.task = "none"
        BY JobTyped DEF Tasks, Subjects, Texts
    <2>5. \A t \in Slots :
             /\ call'[t] = IF t = s THEN Request("list", b, None, "sent") ELSE call[t]
             /\ job'[t] = IF t = s THEN Task("load", None) ELSE js[t]
        BY <2>1 DEF Base, Requests, ServerFits, ListsTypeOK
    <2> QED BY <1>1, <2>1, <2>3, <2>4, <2>5 DEF Storing, Pending
<1> QED BY <1>2, <1>3

LEMMA VisitStores ==
    ASSUME Base, SentOnce, NEW p \in Pages, Visit(p)
    PROVE  SentOnce'
<1> DEFINE js == [s \in Slots |-> Left(job[s])]
<1>1. \A s \in Slots :
         /\ js[s] \in Job
         /\ job[s].task \in {"create", "readback"} =>
               js[s].task = job[s].task /\ js[s].about = job[s].about
         /\ js[s].task \in {"create", "readback"} =>
               js[s].task = job[s].task /\ js[s].about = job[s].about
    <2> SUFFICES ASSUME NEW s \in Slots
                 PROVE  /\ js[s] \in Job
                        /\ job[s].task \in {"create", "readback"} =>
                              js[s].task = job[s].task /\ js[s].about = job[s].about
                        /\ js[s].task \in {"create", "readback"} =>
                              js[s].task = job[s].task /\ js[s].about = job[s].about
        OBVIOUS
    <2>1. job[s] \in Job /\ js[s] = Left(job[s]) BY DEF Base, Requests, JobsTyped
    <2>2. job[s].task \in {"create", "readback"} =>
             Left(job[s]) = [job[s] EXCEPT !.ear = "gone"]
        BY DEF Left
    <2> QED BY <2>1, <2>2, JobTyped DEF Job
<1>2. js \in [Slots -> Job] BY <1>1
<1>3. Mount(p, js) /\ doubtful' = doubtful BY DEF Visit
<1> HIDE DEF js
<1>4. /\ rows' = rows /\ form'.text = None
      /\ \A t \in Slots :
            /\ Storing(t)' <=> Storing(t)
            /\ Storing(t)' => job'[t].task = job[t].task /\ job'[t].about = job[t].about
            /\ Pending(t)' => call'[t] = call[t]
    BY <1>1, <1>2, <1>3, MountStoring DEF Storing
<1>5. \A i : Stocked(i)' <=> Stocked(i) BY <1>4 DEF Stocked
<1>6. (\A s \in Slots : Pending(s) =>
              /\ job[s].task = "create" \/ call[s].item \in doubtful
              /\ call[s].at \in {"sent", "failed"} /\ Stocked(call[s].item) =>
                    call[s].item \in doubtful
              /\ call[s].at \in {"stored", "scanned", "answered"} => Stocked(call[s].item))'
    BY <1>3, <1>4, <1>5 DEF SentOnce, Pending, Storing
<1>7. (\A s \in Slots : job[s].task = "readback" => Stocked(job[s].about))'
    BY <1>4, <1>5 DEF SentOnce, Storing
<1>8. (\A s, t \in Slots :
          s # t /\ Storing(s) /\ Storing(t) /\ job[s].about = job[t].about
              => job[s].about \in doubtful)'
    BY <1>3, <1>4 DEF SentOnce
<1> QED BY <1>4, <1>6, <1>7, <1>8, NoneIsNoText DEF SentOnce, Pending

LEMMA LoadUrlStores ==
    ASSUME Base, SentOnce, NEW p \in Pages, LoadUrl(p)
    PROVE  SentOnce'
<1> DEFINE js == [s \in Slots |-> NoJob]
<1>1. js \in [Slots -> Job] /\ \A s \in Slots : js[s].task = "none" BY JobTyped
<1>2. Mount(p, js) /\ doubtful' = doubtful \union {i \in Items : InFlight(i)}
    BY DEF LoadUrl
<1> HIDE DEF js
<1>3. /\ rows' = rows /\ form'.text = None
      /\ \A t \in Slots : ~Storing(t)' /\ (Pending(t)' => call'[t] = call[t])
    BY <1>1, <1>2, MountStoring
<1>4. \A t \in Slots : Pending(t) => call[t].item \in doubtful'
    <2> SUFFICES ASSUME NEW t \in Slots, Pending(t), job[t].task = "create"
                 PROVE  call[t].item \in doubtful'
        BY <1>2 DEF SentOnce, Pending
    <2>1. call[t].item = job[t].about /\ job[t].about \in Items
        BY StoringTyped DEF Base, Requests, JobsFit, Fits, Storing
    <2>2. InFlight(call[t].item) BY <2>1 DEF InFlight
    <2> QED BY <1>2, <2>1, <2>2
<1>5. \A i : Stocked(i)' <=> Stocked(i) BY <1>3 DEF Stocked
<1>6. (\A s \in Slots : Pending(s) =>
              /\ job[s].task = "create" \/ call[s].item \in doubtful
              /\ call[s].at \in {"sent", "failed"} /\ Stocked(call[s].item) =>
                    call[s].item \in doubtful
              /\ call[s].at \in {"stored", "scanned", "answered"} => Stocked(call[s].item))'
    BY <1>3, <1>4, <1>5 DEF SentOnce, Pending
<1> QED BY <1>3, <1>6, NoneIsNoText DEF SentOnce, Pending, Storing

LEMMA TypeStores ==
    ASSUME Base, SentOnce, NEW x \in Items \union {Text}, Type(x)
    PROVE  SentOnce'
<1>1. /\ form'.text = x /\ UNCHANGED <<server, job, doubtful>>
      /\ x \in Items => (~Stocked(x) /\ ~InFlight(x)) \/ x \in doubtful
    BY DEF Type, Stocked, Base, ViewTyped
<1>2. x \in Items \ doubtful => \A s \in Slots : Storing(s) => job[s].about # x
    BY <1>1 DEF InFlight, Storing
<1> QED BY <1>1, <1>2 DEF SentOnce, server, Stocked, Storing, InFlight, Live

LEMMA SubmitStores ==
    ASSUME Base, SentOnce, NEW f \in Forms, SubmitStored(f)
    PROVE  SentOnce'
<1> DEFINE x == form.text
           r == Request("create", BoardOf(x), x, "sent")
           j == Task("create", x)
<1>1. x \in Items BY StoredTexts DEF Base
<1>2. /\ r.op = "create" /\ r.item = x /\ r.at = "sent"
      /\ j.task = "create" /\ j.about = x /\ j.ear = "page"
    BY <1>1, RequestTyped, BoardsAreTwo, JobTyped DEF Ops, Stages, Tasks, Subjects, Texts
<1>3. PICK s \in Slots : Send(s, r, j) BY DEF SubmitStored
<1>4. /\ doubtful' = IF InFlight(x) THEN doubtful \union {x} ELSE doubtful
      /\ form' = form
    BY DEF SubmitStored
<1> PICK y \in Items : y = x BY <1>1
<1> HIDE DEF r, j, x
<1>5. /\ ~Storing(s) /\ rows' = rows
      /\ \A t \in Slots : /\ job'[t] = IF t = s THEN j ELSE job[t]
                          /\ call'[t] = IF t = s THEN r ELSE call[t]
    BY <1>3 DEF Send, Free, Storing, Base, Requests, JobsTyped, ServerFits, ListsTypeOK
<1>6. doubtful \subseteq doubtful' /\ (InFlight(y) => y \in doubtful')
    BY <1>4
<1>7. \A i : (Stocked(i)' <=> Stocked(i)) /\ (InFlight(i) => InFlight(i)')
    BY <1>5 DEF Stocked, InFlight, Storing
<1>8. Stocked(y) => y \in doubtful'
    BY <1>6 DEF SentOnce, x
<1>9. \A t \in Slots : Storing(t) /\ job[t].about = y => y \in doubtful'
    BY <1>6 DEF InFlight, Storing
<1>10. \A t \in Slots : Storing(t)' <=> t = s \/ Storing(t)
    BY <1>2, <1>5 DEF Storing
<1>11. (\A t \in Slots : Pending(t) =>
              /\ job[t].task = "create" \/ call[t].item \in doubtful
              /\ call[t].at \in {"sent", "failed"} /\ Stocked(call[t].item) =>
                    call[t].item \in doubtful
              /\ call[t].at \in {"stored", "scanned", "answered"} => Stocked(call[t].item))'
    BY <1>2, <1>5, <1>6, <1>7, <1>8 DEF SentOnce, Pending
<1>12. (\A t \in Slots : job[t].task = "readback" => Stocked(job[t].about))'
    BY <1>2, <1>5, <1>7 DEF SentOnce
<1>13. (\A t, u \in Slots :
          t # u /\ Storing(t) /\ Storing(u) /\ job[t].about = job[u].about
              => job[t].about \in doubtful)'
    BY <1>2, <1>5, <1>6, <1>9, <1>10 DEF SentOnce
<1>14. (form.text \in Items \ doubtful =>
          /\ Stocked(form.text) => InFlight(form.text)
          /\ \A t \in Slots : Storing(t) /\ job[t].about = form.text => Live(t))'
    BY <1>2, <1>4, <1>5, <1>6, <1>7, <1>10 DEF SentOnce, Live
<1> QED BY <1>11, <1>12, <1>13, <1>14 DEF SentOnce, Pending

(* The handler of a create goes on or ends.                                *)
LEMMA HandlerStores ==
    ASSUME Base, SentOnce, NEW s \in Slots, Handle(s), Storing(s)
    PROVE  SentOnce'
<1>1. CourseCreated(s) \/ WeekCreated(s) \/ WeekAdded(s) \/ CreateFails(s)
    BY DEF Handle, Storing, Loaded, LoadFails, MaterialsCome, RefusalComes, Unheard
<1> PICK i \in Items : i = job[s].about BY StoringTyped
<1>2. Fits(job[s], call[s]) BY DEF Base, Requests, JobsFit
<1>3. /\ rows' = rows /\ doubtful \subseteq doubtful' /\ form' \in {form, Cleared}
      /\ \A t \in Slots : t # s => job'[t] = job[t] /\ call'[t] = call[t]
      /\ Storing(s)' => WeekCreated(s)
      /\ Pending(s)' => CreateFails(s) /\ call' = call
                        /\ call[s].at \notin {"answered", "failed"}
    <2>1. CASE Ends(s)
        BY <1>1, <2>1, EndsMoves
        DEF CourseCreated, WeekCreated, WeekAdded, CreateFails, Pending, Fits, Reads
    <2>2. ASSUME NEW t \in {"load", "readback"}, Reads(s, t),
                 t = "readback" => WeekCreated(s),
                 doubtful' = doubtful, form' \in {form, Cleared}
          PROVE  /\ rows' = rows /\ doubtful \subseteq doubtful' /\ form' \in {form, Cleared}
                 /\ \A u \in Slots : u # s => job'[u] = job[u] /\ call'[u] = call[u]
                 /\ Storing(s)' => WeekCreated(s)
                 /\ ~Pending(s)'
        <3>1. call[s].board \in Boards
            BY DEF Base, Requests, ServerFits, ListsTypeOK, Call
        <3>2. Request("list", call[s].board, None, "sent").op = "list"
            BY <3>1, RequestTyped DEF Ops, Stages
        <3>3. /\ call' = [call EXCEPT ![s] = Request("list", call[s].board, None, "sent")]
              /\ job' = [job EXCEPT ![s].task = t] /\ rows' = rows
            BY <2>2 DEF Reads
        <3>4. \A u \in Slots : u # s => job'[u] = job[u] /\ call'[u] = call[u]
            BY <3>3 DEF Base, Requests, JobsTyped, ServerFits, ListsTypeOK
        <3>5. ~Pending(s)'
            BY <3>2, <3>3 DEF Pending, Base, Requests, ServerFits, ListsTypeOK
        <3>6. job'[s].task = t
            BY <3>3 DEF Base, Requests, JobsTyped, Job
        <3> QED BY <2>2, <3>3, <3>4, <3>5, <3>6 DEF Storing
    <2>3. CASE CourseCreated(s) BY <2>2, <2>3 DEF CourseCreated
    <2>4. CASE WeekCreated(s) BY <2>2, <2>4 DEF WeekCreated
    <2> QED BY <1>1, <2>1, <2>3, <2>4 DEF WeekAdded, CreateFails
<1>4. WeekCreated(s) => /\ Stocked(i) /\ job'[s].task = "readback"
                        /\ job'[s].about = i /\ job'[s].ear = job[s].ear
                        /\ doubtful' = doubtful /\ form' = form
    <2> SUFFICES ASSUME WeekCreated(s)
                 PROVE  /\ Stocked(i) /\ job'[s].task = "readback"
                        /\ job'[s].about = i /\ job'[s].ear = job[s].ear
                        /\ doubtful' = doubtful /\ form' = form
        OBVIOUS
    <2>1. job' = [job EXCEPT ![s].task = "readback"] BY DEF WeekCreated, Reads
    <2>2. Stocked(i) BY <1>2 DEF WeekCreated, Fits, SentOnce
    <2> QED BY <2>1, <2>2 DEF WeekCreated, Base, Requests, JobsTyped, Job
<1>5. CreateFails(s) => /\ form' = form
                        /\ i \in doubtful' \/ (Stocked(i) => i \in doubtful)
                        /\ Pending(s)' => i \in doubtful' /\ call[s].item = i
    <2> SUFFICES ASSUME CreateFails(s)
                 PROVE  /\ form' = form
                        /\ i \in doubtful' \/ (Stocked(i) => i \in doubtful)
                        /\ Pending(s)' => i \in doubtful' /\ call[s].item = i
        OBVIOUS
    <2>1. CASE job[s].task = "create" /\ call[s].at = "failed"
        BY <1>2, <1>3, <2>1 DEF CreateFails, Fits, SentOnce
    <2>2. CASE ~(job[s].task = "create" /\ call[s].at = "failed")
        <3>1. i \in doubtful' /\ form' = form BY <2>2 DEF CreateFails
        <3>2. Pending(s)' => call[s].op = "create" BY <1>3 DEF Pending
        <3> QED BY <1>2, <3>1, <3>2 DEF Fits, Storing
    <2> QED BY <2>1, <2>2
<1>6. \A k : Stocked(k)' <=> Stocked(k) BY <1>3 DEF Stocked
<1>7. \A t \in Slots : Storing(t)' => Storing(t) /\ job'[t].about = job[t].about
    BY <1>3, <1>4 DEF Storing
<1>8. (\A t \in Slots : Pending(t) =>
              /\ job[t].task = "create" \/ call[t].item \in doubtful
              /\ call[t].at \in {"sent", "failed"} /\ Stocked(call[t].item) =>
                    call[t].item \in doubtful
              /\ call[t].at \in {"stored", "scanned", "answered"} => Stocked(call[t].item))'
    <2> SUFFICES ASSUME NEW t \in Slots, Pending(t)'
                 PROVE  /\ job'[t].task = "create" \/ call'[t].item \in doubtful'
                        /\ call'[t].at \in {"sent", "failed"} /\ Stocked(call[t].item)' =>
                              call'[t].item \in doubtful'
                        /\ call'[t].at \in {"stored", "scanned", "answered"} =>
                              Stocked(call[t].item)'
        OBVIOUS
    <2>1. call'[t] = call[t] BY <1>3
    <2>2. Pending(t) BY <2>1 DEF Pending
    <2>3. Stocked(call[t].item)' <=> Stocked(call[t].item) BY <1>3, <2>1 DEF Stocked
    <2>4. t = s => call[t].item \in doubtful' BY <1>3, <1>5
    <2> QED BY <1>3, <2>1, <2>2, <2>3, <2>4 DEF SentOnce, Pending
<1>9. (\A t \in Slots : job[t].task = "readback" => Stocked(job[t].about))'
    <2> SUFFICES ASSUME NEW t \in Slots, job'[t].task = "readback"
                 PROVE  Stocked(job[t].about)'
        OBVIOUS
    <2>1. CASE t = s BY <1>3, <1>4, <1>6, <2>1 DEF Storing, Stocked
    <2>2. CASE t # s BY <1>3, <2>2 DEF SentOnce, Stocked
    <2> QED BY <2>1, <2>2
<1>10. (\A t, u \in Slots :
          t # u /\ Storing(t) /\ Storing(u) /\ job[t].about = job[u].about
              => job[t].about \in doubtful)'
    BY <1>3, <1>7 DEF SentOnce
<1>11. (form.text \in Items \ doubtful =>
          /\ Stocked(form.text) => InFlight(form.text)
          /\ \A t \in Slots : Storing(t) /\ job[t].about = form.text => Live(t))'
    <2> SUFFICES ASSUME form'.text \in Items \ doubtful'
                 PROVE  /\ Stocked(form.text)' => InFlight(form.text)'
                        /\ \A t \in Slots : Storing(t)' /\ job'[t].about = form'.text => Live(t)'
        OBVIOUS
    <2>1. form' = form BY <1>3, AnswerTyped, NoneIsNoText
    <2>2. form.text \in Items \ doubtful BY <1>3, <2>1
    <2>3. \A t \in Slots : Storing(t)' /\ job'[t].about = form'.text => Live(t)'
        BY <1>3, <1>4, <1>7, <2>1, <2>2 DEF SentOnce, Live
    <2>4. Stocked(form.text)' <=> Stocked(form.text) BY <1>3, <2>1 DEF Stocked
    <2>5. Stocked(form.text) => InFlight(form.text)' \/ form.text = i
        BY <1>3, <2>1, <2>2 DEF SentOnce, InFlight, Storing
    <2>6. form.text = i /\ Stocked(i) => InFlight(form.text)'
        <3>1. CASE WeekCreated(s) BY <1>4, <2>1, <3>1 DEF InFlight
        <3>2. CASE CreateFails(s) BY <1>5, <2>1, <2>2, <3>2
        <3>3. CASE CourseCreated(s) \/ WeekAdded(s)
            <4>1. Live(s) => form' = Cleared BY <3>3 DEF CourseCreated, WeekAdded
            <4>2. Live(s) => form'.text = None BY <4>1, AnswerTyped
            <4>3. form.text = i => Live(s) BY <2>2 DEF SentOnce
            <4> QED BY <4>2, <4>3, NoneIsNoText
        <3> QED BY <1>1, <3>1, <3>2, <3>3
    <2> QED BY <2>3, <2>4, <2>5, <2>6
<1> QED BY <1>8, <1>9, <1>10, <1>11 DEF SentOnce, Pending

LEMMA CreateStores ==
    ASSUME Base, SentOnce, NEW s \in Slots, Works(s), CreateStep(s)
    PROVE  SentOnce'
<1> DEFINE d == call[s].board
<1>1. /\ job' = job /\ doubtful' = doubtful /\ form' = form
      /\ ServerFits /\ ListsTypeOK /\ call[s].op = "create" /\ call[s].at # "idle"
    BY DEF Works, CreateStep, Insert, Scan, Evict, MayEvict, EvictFails, Refuse, Base,
       Requests, ServerFits
<1> PICK i \in Items : i = call[s].item /\ call[s].board = BoardOf(i)
    BY <1>1 DEF ServerFits, CallsNamed
<1>2. /\ \A t \in Slots : t # s => call'[t].at = call[t].at
      /\ \A t \in Slots : call'[t].op = call[t].op /\ call'[t].item = call[t].item
      /\ \A t \in Slots : Pending(t)' <=> Pending(t)
    BY <1>1, OthersStay, WorkKeeps DEF Pending
<1>3. CASE Insert(s)
    <2>1. /\ call'[s].at = "stored" /\ rows' = [rows EXCEPT ![BoardOf(i)] = @ \union {i}]
        BY <1>1, <1>3, InsertMoves DEF Insert
    <2>2. \A k \in Items : Stocked(k)' <=> Stocked(k) \/ k = i
        BY <1>1, <2>1, BoardsAreTwo DEF Stocked, ListsTypeOK
    <2>3. \A t \in Slots : Pending(t) => call[t].item \in Items
        BY <1>1 DEF ServerFits, CallsNamed, Pending
    <2>4. \A t \in Slots : t # s /\ Pending(t) /\ call[t].item = i => i \in doubtful
        <3> SUFFICES ASSUME NEW t \in Slots, t # s, Pending(t), call[t].item = i, i \notin doubtful
                     PROVE  FALSE
            OBVIOUS
        <3>1. job[s].task = "create" /\ job[t].task = "create"
            BY <1>1 DEF SentOnce, Pending
        <3>2. job[s].about = i /\ job[t].about = i
            BY <3>1 DEF Base, Requests, JobsFit, Fits
        <3> QED BY <3>1, <3>2 DEF SentOnce, Storing
    <2>5. (\A t \in Slots : Pending(t) =>
              /\ job[t].task = "create" \/ call[t].item \in doubtful
              /\ call[t].at \in {"sent", "failed"} /\ Stocked(call[t].item) =>
                    call[t].item \in doubtful
              /\ call[t].at \in {"stored", "scanned", "answered"} => Stocked(call[t].item))'
        <3> SUFFICES ASSUME NEW t \in Slots, Pending(t)
                     PROVE  /\ job[t].task = "create" \/ call[t].item \in doubtful
                            /\ call'[t].at \in {"sent", "failed"} /\ Stocked(call[t].item)' =>
                                  call[t].item \in doubtful
                            /\ call'[t].at \in {"stored", "scanned", "answered"} =>
                                  Stocked(call[t].item)'
            BY <1>1, <1>2
        <3>1. Stocked(call[t].item)' <=> Stocked(call[t].item) \/ call[t].item = i
            BY <1>2, <2>2, <2>3 DEF Stocked
        <3>2. CASE t = s BY <2>1, <3>1, <3>2 DEF SentOnce, Pending
        <3>3. CASE t # s BY <1>2, <2>4, <3>1, <3>3 DEF SentOnce, Pending
        <3> QED BY <3>2, <3>3
    <2>6. (\A t \in Slots : job[t].task = "readback" => Stocked(job[t].about))'
        BY <1>1, <2>2, StoringTyped DEF SentOnce, Storing, Stocked
    <2>7. (form.text \in Items \ doubtful =>
              /\ Stocked(form.text) => InFlight(form.text)
              /\ \A t \in Slots : Storing(t) /\ job[t].about = form.text => Live(t))'
        <3> SUFFICES ASSUME form.text \in Items \ doubtful
                     PROVE  /\ Stocked(form.text)' => InFlight(form.text)
                            /\ \A t \in Slots : Storing(t) /\ job[t].about = form.text => Live(t)
            BY <1>1 DEF InFlight, Storing, Live
        <3>1. Stocked(form.text)' <=> Stocked(form.text) \/ form.text = i
            BY <1>1, <2>2 DEF Stocked
        <3>2. form.text = i => InFlight(i)
            <4> SUFFICES ASSUME form.text = i PROVE InFlight(i)
                OBVIOUS
            <4>1. job[s].task = "create" BY <1>1 DEF SentOnce
            <4>2. job[s].about = i BY <4>1 DEF Base, Requests, JobsFit, Fits
            <4> QED BY <4>1, <4>2 DEF InFlight
        <3> QED BY <3>1, <3>2 DEF SentOnce
    <2>8. (\A t, u \in Slots :
          t # u /\ Storing(t) /\ Storing(u) /\ job[t].about = job[u].about
              => job[t].about \in doubtful)'
        BY <1>1 DEF SentOnce, Storing
    <2> QED BY <2>5, <2>6, <2>7, <2>8 DEF SentOnce, Pending
<1>4. CASE Scan(s) \/ Evict(s) \/ EvictFails(s) \/ Refuse(s)
    <2>1. /\ rows' = rows
          /\ \/ call[s].at \in {"stored", "scanned"} /\ call'[s].at \in {"scanned", "answered"}
             \/ call[s].at = "sent" /\ call'[s].at = "failed"
        BY <1>1, <1>4 DEF Scan, Evict, MayEvict, EvictFails, Refuse, ListsTypeOK, Call
    <2>2. \A k : Stocked(k)' <=> Stocked(k) BY <2>1 DEF Stocked
    <2>3. (\A t \in Slots : Pending(t) =>
              /\ job[t].task = "create" \/ call[t].item \in doubtful
              /\ call[t].at \in {"sent", "failed"} /\ Stocked(call[t].item) =>
                    call[t].item \in doubtful
              /\ call[t].at \in {"stored", "scanned", "answered"} => Stocked(call[t].item))'
        <3> SUFFICES ASSUME NEW t \in Slots, Pending(t)
                     PROVE  /\ job[t].task = "create" \/ call[t].item \in doubtful
                            /\ call'[t].at \in {"sent", "failed"} /\ Stocked(call[t].item)' =>
                                  call[t].item \in doubtful
                            /\ call'[t].at \in {"stored", "scanned", "answered"} =>
                                  Stocked(call[t].item)'
            BY <1>1, <1>2
        <3>1. Stocked(call[t].item)' <=> Stocked(call[t].item)
            BY <1>2, <2>1 DEF Stocked
        <3>2. CASE t = s BY <2>1, <3>1, <3>2 DEF SentOnce, Pending
        <3>3. CASE t # s BY <1>2, <3>1, <3>3 DEF SentOnce, Pending
        <3> QED BY <3>2, <3>3
    <2>4. (\A t \in Slots : job[t].task = "readback" => Stocked(job[t].about))'
        BY <1>1, <2>1 DEF SentOnce, Stocked
    <2>5. (form.text \in Items \ doubtful =>
              /\ Stocked(form.text) => InFlight(form.text)
              /\ \A t \in Slots : Storing(t) /\ job[t].about = form.text => Live(t))'
        BY <1>1, <2>1 DEF SentOnce, Stocked, InFlight, Storing, Live
    <2>6. (\A t, u \in Slots :
          t # u /\ Storing(t) /\ Storing(u) /\ job[t].about = job[u].about
              => job[t].about \in doubtful)'
        BY <1>1 DEF SentOnce, Storing
    <2> QED BY <2>3, <2>4, <2>5, <2>6 DEF SentOnce, Pending
<1> QED BY <1>3, <1>4 DEF CreateStep

LEMMA SentOnceInit == Init => SentOnce
<1> SUFFICES ASSUME Init PROVE SentOnce
    OBVIOUS
<1>1. form.text = None BY NoFormTyped DEF Init
<1> QED BY <1>1, IdleTyped, JobTyped, NoneIsNoText DEF Init, ListsInit, SentOnce, Storing

LEMMA SentOnceStep == Base /\ SentOnce /\ [Next]_vars => SentOnce'
<1> SUFFICES ASSUME Base, SentOnce, [Next]_vars PROVE SentOnce'
    OBVIOUS
<1>1. role \in RoleChoices BY DEF Base, ViewTyped
<1>2. Visited[role] \subseteq Pages /\ Used[role] \subseteq Forms
    BY <1>1, PagesAssumption
<1>3. CASE UserStep
    <2>1. CASE \E p \in Visited[role] : Visit(p) \/ LoadUrl(p)
        BY <1>2, <2>1, VisitStores, LoadUrlStores
    <2>2. CASE \E f \in Forms : SubmitStored(f) BY <2>2, SubmitStores
    <2>3. CASE \E x \in Items \union {Text} : Type(x) BY <2>3, TypeStores
    <2>4. CASE \/ \E f \in Forms : OpenForm(f) \/ SubmitRefused(f) \/ SubmitStubbed(f)
               \/ Cancel \/ Remove \/ Refilter
               \/ \E w \in Weeks : Toggle(w)
        BY <2>4, UserNoStoring, StoringKept
    <2> QED BY <1>2, <1>3, <2>1, <2>2, <2>3, <2>4 DEF UserStep
<1>4. ASSUME NEW s \in Slots, Handle(s) PROVE SentOnce'
    BY <1>4, HandlerStores, HandleNoStoring, StoringKept
<1>5. ASSUME NEW s \in Slots, Works(s) PROVE SentOnce'
    BY <1>5, CreateStores, ListNoStoring, StoringKept DEF Works
<1>6. CASE CopyExpires \/ UNCHANGED vars BY <1>6, ListNoStoring, StoringKept
<1> QED BY <1>3, <1>4, <1>5, <1>6 DEF Next

LEMMA SentOnceAlways == Spec => [](Base /\ SentOnce)
<1>1. Base /\ SentOnce /\ [Next]_vars => (Base /\ SentOnce)' BY BaseStep, SentOnceStep
<1> QED BY <1>1, BaseInit, SentOnceInit, PTL DEF Spec

(* No text is stored a second time but by a user who sent it again with    *)
(* reason to doubt the first.                                              *)
THEOREM TextsAreStoredOnce == Spec => TextsStoredOnce
<1>1. Base /\ SentOnce /\ [Next]_vars =>
          [\A s \in Slots :
              call[s].op = "create" /\ call[s].at = "sent" /\ call'[s].at = "stored"
                  => \/ call[s].item \notin rows[call[s].board]
                     \/ call[s].item \in doubtful]_vars
    BY DEF Base, Requests, ServerFits, CallsNamed, SentOnce, Stocked
<1> QED BY <1>1, SentOnceAlways, PTL DEF Spec, TextsStoredOnce

-----------------------------------------------------------------------------
(* The toasts are told of what has been stored.                            *)
LEMMA ToastsStep == Base /\ SentOnce /\ ToastsAreTrue /\ [Next]_vars => ToastsAreTrue'
<1> SUFFICES ASSUME Base, SentOnce, ToastsAreTrue, [Next]_vars PROVE ToastsAreTrue'
    OBVIOUS
<1>1. role \in RoleChoices BY DEF Base, ViewTyped
<1>2. Used[role] \subseteq Forms BY <1>1, PagesAssumption
<1>3. CASE Quiet BY <1>3 DEF Quiet, ToastsAreTrue
<1>4. ASSUME NEW a \in Forms \union {"enrollment"}, Tell(FALSE, a) PROVE ToastsAreTrue'
    BY <1>4, PagesAssumption DEF Tell, ToastsAreTrue
<1>5. CASE UserStep
    <2>1. ASSUME NEW f \in Forms, SubmitStubbed(f) PROVE ToastsAreTrue'
        BY <1>4, <2>1 DEF SubmitStubbed
    <2> QED BY <1>2, <1>3, <1>5, <2>1 DEF UserStep, Visit, LoadUrl, OpenForm, SubmitStored,
                SubmitRefused, Type, Cancel, Remove, Refilter, Toggle
<1>6. ASSUME NEW s \in Slots, Handle(s) PROVE ToastsAreTrue'
    <2>1. Fits(job[s], call[s]) BY DEF Base, Requests, JobsFit
    <2>2. CASE CourseCreated(s)
        <3>1. Stocked(job[s].about) BY <2>1, <2>2 DEF CourseCreated, Fits, SentOnce
        <3>2. rows' = rows /\ Tell(TRUE, job[s].about) BY <2>2 DEF CourseCreated, Reads
        <3> QED BY <3>1, <3>2 DEF Tell, ToastsAreTrue, Stocked
    <2>3. CASE WeekAdded(s)
        <3>1. Stocked(job[s].about) BY <2>3 DEF WeekAdded, SentOnce
        <3>2. rows' = rows /\ Tell(TRUE, job[s].about) BY <2>3, EndsMoves DEF WeekAdded
        <3> QED BY <3>1, <3>2 DEF Tell, ToastsAreTrue, Stocked
    <2>4. CASE CreateFails(s)
        <3>1. rows' = rows /\ Tell(FALSE, job[s].about) BY <2>4, EndsMoves DEF CreateFails
        <3>2. Stocked(job[s].about) => job[s].about \in doubtful'
            <4>1. CASE job[s].task = "create" /\ call[s].at = "failed"
                BY <2>1, <2>4, <4>1 DEF CreateFails, Fits, SentOnce
            <4>2. CASE ~(job[s].task = "create" /\ call[s].at = "failed")
                BY <2>4, <4>2 DEF CreateFails
            <4> QED BY <4>1, <4>2
        <3> QED BY <3>1, <3>2 DEF Tell, ToastsAreTrue, Stocked
    <2>5. CASE RefusalComes(s)
        BY <1>4, <2>1, <2>5 DEF RefusalComes, Fits
    <2> QED BY <1>3, <1>6, <2>2, <2>3, <2>4, <2>5 DEF Handle, Loaded, LoadFails, WeekCreated,
                MaterialsCome, Unheard
<1>7. CASE (\E s \in Slots : Works(s)) \/ CopyExpires
    BY <1>3, <1>7 DEF Works, CopyExpires
<1>8. CASE UNCHANGED vars
    BY <1>8 DEF vars, server, client, ToastsAreTrue
<1> QED BY <1>5, <1>6, <1>7, <1>8 DEF Next

(* A toast says nothing of a course or a week that is not so, but to a     *)
(* user who has reason to doubt it.                                        *)
THEOREM ToastsStayTrue == Spec => []ToastsAreTrue
<1>1. Init => ToastsAreTrue BY DEF Init, ToastsAreTrue
<1>2. Spec => [](Base /\ SentOnce) BY SentOnceAlways
<1> QED BY <1>1, <1>2, ToastsStep, PTL DEF Spec

-----------------------------------------------------------------------------
(* What was created is listed.  Most steps change nothing of it, and start *)
(* nothing that is not about the list of the page.                         *)
NoListing ==
    /\ UNCHANGED <<page, shown, late, mine>>
    /\ raced \subseteq raced' /\ \A i \in mine : Stocked(i) => Stocked(i)'
    /\ \A s \in Slots : Loading(s) => Loading(s)'
    /\ \A s \in Slots : AtHome(s) => AtHome(s)'

LEMMA ListedKept == MineListed /\ NoListing => MineListed'
<1> SUFFICES ASSUME MineListed, NoListing PROVE MineListed'
    OBVIOUS
<1>1. (\A i \in mine : Stocked(i) /\ page = HomeOf(i))'
    BY DEF MineListed, NoListing, HomeOf
<1>2. ((\A s \in Slots : ~Loading(s)) => mine \subseteq shown \union raced \union late)'
    BY DEF MineListed, NoListing
<1>3. (\A s \in Slots : AtHome(s))' BY DEF MineListed, NoListing
<1> QED BY <1>1, <1>2, <1>3 DEF MineListed

(* Nothing but the job and the request of one slot.                        *)
LEMMA OneMoves ==
    ASSUME Base, UNCHANGED <<page, shown, late, mine>>, NEW s \in Slots, ~Loading(s), AtHome(s)',
           \A t \in Slots : t # s => job'[t] = job[t] /\ call'[t] = call[t],
           rows' = rows, raced \subseteq raced'
    PROVE  NoListing
BY DEF NoListing, Loading, Live, Storing, Stocked, AtHome

LEMMA UserNoListing ==
    ASSUME Base,
           \/ \E f \in Forms : OpenForm(f) \/ SubmitStored(f) \/ SubmitRefused(f)
                               \/ SubmitStubbed(f)
           \/ \E x \in Items \union {Text} : Type(x)
           \/ Cancel \/ Remove \/ Refilter
           \/ \E w \in Weeks : Toggle(w)
    PROVE  NoListing
<1>1. CASE job' = job /\ UNCHANGED server /\ UNCHANGED <<page, shown, late, mine>>
    BY <1>1 DEF NoListing, Loading, Live, Storing, Stocked, AtHome, server
<1>2. ASSUME NEW s \in Slots, NEW j, Await(s, j), UNCHANGED <<page, shown, late, mine>>,
             j.task \in {"refused", "materials"}
      PROVE  NoListing
    <2>1. ~Loading(s) /\ job' = [job EXCEPT ![s] = j] BY <1>2 DEF Await, Free, Loading
    <2>2. AtHome(s)' BY <1>2, <2>1 DEF AtHome, Loading, Storing, Base, Requests, JobsTyped
    <2>3. \A t \in Slots : t # s => job'[t] = job[t] BY <2>1 DEF Base, Requests, JobsTyped
    <2> QED BY <1>2, <2>1, <2>2, <2>3, OneMoves DEF Await, server
<1>3. ASSUME NEW s \in Slots, NEW r, NEW j, Send(s, r, j), UNCHANGED <<page, shown, late, mine>>,
             j.task \in {"create", "readback"} => page = HomeOf(j.about),
             j.task = "load" => r.board = ListOf(page)
      PROVE  NoListing
    <2>1. /\ ~Loading(s) /\ job' = [job EXCEPT ![s] = j] /\ call' = [call EXCEPT ![s] = r]
          /\ rows' = rows /\ raced \subseteq raced'
        BY <1>3 DEF Send, Free, Loading
    <2>2. \A t \in Slots : t # s => job'[t] = job[t] /\ call'[t] = call[t]
        BY <2>1 DEF Base, Requests, JobsTyped, ServerFits, ListsTypeOK
    <2>3. job'[s] = j /\ call'[s] = r
        BY <2>1 DEF Base, Requests, JobsTyped, ServerFits, ListsTypeOK
    <2>4. AtHome(s)' BY <1>3, <2>3 DEF AtHome, Loading, Storing, HomeOf, ListOf
    <2> QED BY <1>3, <2>1, <2>2, <2>4, OneMoves
<1>4. ASSUME NEW s \in Slots, page # "course", UNCHANGED <<page, shown, late, mine>>,
             Send(s, Request("list", "courses", None, "sent"), Task("load", None))
      PROVE  NoListing
    <2>1. Task("load", None).task = "load" BY JobTyped DEF Tasks, Subjects, Texts
    <2>2. Request("list", "courses", None, "sent").board = ListOf(page)
        BY <1>4, RequestTyped DEF Ops, Boards, Stages, ListOf
    <2> QED BY <1>3, <1>4, <2>1, <2>2
<1>5. ASSUME NEW f \in Forms, OpenForm(f) PROVE NoListing
    <2>1. UNCHANGED <<page, shown, late, mine>> BY <1>5 DEF OpenForm
    <2>2. CASE f = "slot"
        <3>1. page = "schedule"
            BY <1>5, <2>2 DEF OpenForm, Openable, Present, Form, SlotForm
        <3> QED BY <1>4, <1>5, <2>1, <2>2, <3>1 DEF OpenForm
    <2> QED BY <1>1, <1>5, <2>1, <2>2 DEF OpenForm, server
<1>6. ASSUME NEW f \in Forms, SubmitStored(f) PROVE NoListing
    <2>1. form.text \in Items /\ page = HomeOf(form.text)
        BY <1>6, StoredTexts DEF Base, HomeOf
    <2>2. Task("create", form.text).task = "create"
          /\ Task("create", form.text).about = form.text
        BY <2>1, JobTyped DEF Tasks, Subjects, Texts
    <2>3. PICK s \in Slots :
               Send(s, Request("create", BoardOf(form.text), form.text, "sent"),
                    Task("create", form.text))
        BY <1>6 DEF SubmitStored
    <2> QED BY <1>3, <1>6, <2>1, <2>2, <2>3 DEF SubmitStored
<1>7. ASSUME NEW f \in Forms, SubmitRefused(f) PROVE NoListing
    <2>1. Task("refused", f).task = "refused" BY JobTyped DEF Tasks, Subjects
    <2> QED BY <1>2, <1>7, <2>1 DEF SubmitRefused
<1>8. CASE (\E f \in Forms : SubmitStubbed(f)) \/ (\E x \in Items \union {Text} : Type(x))
           \/ Cancel
    BY <1>1, <1>8 DEF SubmitStubbed, Type, Cancel
<1>9. CASE Remove
    <2>1. Task("refused", "enrollment").task = "refused" BY JobTyped DEF Tasks, Subjects
    <2> QED BY <1>2, <1>9, <2>1 DEF Remove
<1>10. CASE Refilter BY <1>4, <1>10 DEF Refilter, Present
<1>11. ASSUME NEW w \in Weeks, Toggle(w) PROVE NoListing
    <2>1. w \in Subjects BY BoardsAreTwo DEF Subjects, Texts
    <2>2. [Task("materials", w) EXCEPT !.seen = known].task = "materials"
        BY <2>1, JobTyped DEF Tasks, Job
    <2> QED BY <1>1, <1>2, <1>11, <2>2 DEF Toggle
<1> QED BY <1>5, <1>6, <1>7, <1>8, <1>9, <1>10, <1>11

LEMMA ServerNoListing ==
    ASSUME Base, (\E s \in Slots : Works(s)) \/ CopyExpires \/ UNCHANGED vars
    PROVE  NoListing
<1>1. ASSUME NEW s \in Slots, Works(s) PROVE NoListing
    <2>1. ListStep(s) \/ CreateStep(s) BY <1>1 DEF Works
    <2>2. \A t \in Slots : call'[t].board = call[t].board
        BY <2>1, WorkKeeps DEF Base, Requests
    <2>3. raced \subseteq raced' /\ \A i \in Items : Stocked(i) => Stocked(i)'
        <3>1. CASE Insert(s)
            <4>1. \A b \in Boards : rows[b] \subseteq rows'[b]
                BY <3>1 DEF Insert, Base, Requests, ServerFits, ListsTypeOK
            <4> QED BY <3>1, <4>1, BoardsAreTwo DEF Insert, Stocked
        <3>2. CASE ~Insert(s)
            <4>1. rows' = rows /\ raced \subseteq raced'
                BY <2>1, <3>2 DEF ListStep, CreateStep, ListHit, ListQuery, ListFill, Scan,
                   Evict, EvictFails, Refuse
            <4> QED BY <4>1 DEF Stocked
        <3> QED BY <3>1, <3>2
    <2>4. mine \subseteq Items BY DEF Base, ViewTyped
    <2>5. UNCHANGED <<page, shown, late, mine, job>> BY <1>1 DEF Works
    <2>6. \A t \in Slots : (Loading(t) => Loading(t)') /\ (AtHome(t) => AtHome(t)')
        BY <2>2, <2>5 DEF Loading, Live, Storing, AtHome
    <2> QED BY <2>3, <2>4, <2>5, <2>6 DEF NoListing
<1>2. CASE CopyExpires
    BY <1>2 DEF CopyExpires, Expire, NoListing, Loading, Live, Storing, AtHome, Stocked
<1>3. CASE UNCHANGED vars
    BY <1>3 DEF vars, server, client, NoListing, Loading, Live, Storing, AtHome, Stocked
<1> QED BY <1>1, <1>2, <1>3

(* Nothing is created yet on a page that is just mounted.                  *)
LEMMA MountListed ==
    ASSUME Base, NEW p \in Pages, NEW js \in [Slots -> Job], Mount(p, js),
           \A t \in Slots : js[t].ear # "page"
    PROVE  MineListed'
<1>1. mine' = {} /\ page' = p BY DEF Mount
<1>2. CASE LoadsFor(p, role) = {}
    <2>1. \A t \in Slots : ~Live(t)' BY <1>2 DEF Mount, Live
    <2> QED BY <1>1, <2>1 DEF MineListed, AtHome, Loading
<1>3. CASE LoadsFor(p, role) # {}
    <2>1. PICK s \in Slots, b \in LoadsFor(p, role) :
               /\ call' = [call EXCEPT ![s] = Request("list", b, None, "sent")]
               /\ job' = [js EXCEPT ![s] = Task("load", None)]
        BY <1>3 DEF Mount
    <2>2. b = ListOf(p) /\ b \in Boards BY PagesLoad DEF ListOf, Boards
    <2>3. Request("list", b, None, "sent").board = b
        BY <2>2, RequestTyped DEF Ops, Stages
    <2>4. Task("load", None).task = "load" BY JobTyped DEF Tasks, Subjects, Texts
    <2>5. call'[s].board = b /\ job'[s].task = "load"
        BY <2>1, <2>3, <2>4 DEF Base, Requests, ServerFits, ListsTypeOK
    <2>6. \A t \in Slots : t # s => ~Live(t)' BY <2>1 DEF Live
    <2>7. \A t \in Slots : AtHome(t)'
        BY <1>1, <2>2, <2>5, <2>6 DEF AtHome, Loading, Storing, ListOf
    <2>8. mine' \subseteq (shown \union raced \union late)' BY <1>1
    <2> QED BY <1>1, <2>7, <2>8 DEF MineListed
<1> QED BY <1>2, <1>3

LEMMA LeavingListed ==
    ASSUME Base, NEW p \in Pages, Visit(p) \/ LoadUrl(p)
    PROVE  MineListed'
<1>1. ASSUME NEW js, \A s \in Slots : js[s] \in {NoJob, Left(job[s])}
      PROVE  \A s \in Slots : js[s].ear # "page" /\ js[s] \in Job
    BY <1>1, JobTyped DEF Base, Requests, JobsTyped
<1>2. CASE Visit(p)
    <2> DEFINE js == [s \in Slots |-> Left(job[s])]
    <2>1. Mount(p, js) BY <1>2 DEF Visit
    <2>2. \A s \in Slots : js[s].ear # "page" /\ js[s] \in Job BY <1>1
    <2> QED BY <2>1, <2>2, MountListed
<1>3. CASE LoadUrl(p)
    <2> DEFINE js == [s \in Slots |-> NoJob]
    <2>1. Mount(p, js) BY <1>3 DEF LoadUrl
    <2>2. \A s \in Slots : js[s].ear # "page" /\ js[s] \in Job BY <1>1
    <2> QED BY <2>1, <2>2, MountListed
<1> QED BY <1>2, <1>3

(* A list that has come has every text of its list that is stored, but for *)
(* a race and for those stored since the server answered it.               *)
LEMMA ComesWhole ==
    ASSUME Base, FreshInv, NEW s \in Slots, call[s].op = "list", call[s].at = "answered",
           NEW i \in Items, Stocked(i), BoardOf(i) = call[s].board
    PROVE  i \in call[s].val \union call[s].missed \union raced
<1>1. call[s].board \in Boards /\ Coming(s, call[s].board)
    BY BoardsAreTwo DEF Coming, Listing
<1> QED BY <1>1, ComingWhole DEF Stocked

(* What was created on the page is of the list of the page.                *)
LEMMA HomesMatch ==
    ASSUME NEW i \in Items, page = HomeOf(i)
    PROVE  BoardOf(i) = ListOf(page)
BY DEF HomeOf, ListOf, BoardOf

(* A handler that has nothing to do with a list of a live page.            *)
LEMMA OtherEndsListed ==
    ASSUME Base, MineListed, NEW s \in Slots, Ends(s), ~Loading(s),
           UNCHANGED <<page, shown, late, mine>>
    PROVE  MineListed'
<1>1. AtHome(s)' BY EndsMoves DEF AtHome, Loading
<1> QED BY <1>1, EndsMoves, OneMoves, ListedKept

(* The list of the page has come, and with it what was created.            *)
LEMMA ListComes ==
    ASSUME Base, FreshInv, MineListed, NEW s \in Slots, Ends(s),
           call[s].op = "list", call[s].at = "answered", call[s].board = ListOf(page),
           shown' = call[s].val, late' = mine' \intersect call[s].missed, page' = page,
           \A i \in mine' : i \in mine \/ (i \in Items /\ Stocked(i) /\ page = HomeOf(i))
    PROVE  MineListed'
<1>1. \A i \in mine' : i \in Items /\ Stocked(i) /\ page = HomeOf(i)
    BY DEF MineListed, Base, ViewTyped
<1>2. mine' \subseteq shown' \union raced \union late'
    BY <1>1, HomesMatch, ComesWhole
<1>3. rows' = rows /\ raced' = raced BY EndsMoves
<1>4. \A t \in Slots : AtHome(t)'
    <2>1. AtHome(s)' BY EndsMoves DEF AtHome, Loading
    <2>2. \A t \in Slots : t # s => (AtHome(t) => AtHome(t)')
        BY EndsMoves DEF AtHome, Loading, Live, Storing
    <2> QED BY <2>1, <2>2 DEF MineListed
<1>5. (\A i \in mine : Stocked(i) /\ page = HomeOf(i))'
    BY <1>1, <1>3 DEF Stocked
<1> QED BY <1>2, <1>3, <1>4, <1>5 DEF MineListed

(* The list is asked for once more, after a course was created, or weeks.  *)
LEMMA ReadsListed ==
    ASSUME Base, SentOnce, MineListed, NEW s \in Slots, CourseCreated(s) \/ WeekCreated(s)
    PROVE  MineListed'
<1> DEFINE i == job[s].about
<1>1. /\ job[s].task = "create" /\ call[s].at = "answered" /\ call[s].op = "create"
      /\ call[s].item = i /\ i \in Items
    BY DEF CourseCreated, WeekCreated, Base, Requests, JobsFit, JobsTyped, Fits
<1>2. Stocked(i) BY <1>1 DEF SentOnce
<1>3. call[s].board = BoardOf(i) BY <1>1 DEF Base, Requests, ServerFits, CallsNamed
<1>4. Live(s) => page = HomeOf(i) BY <1>1 DEF MineListed, AtHome, Storing
<1>5. PICK t \in {"load", "readback"} :
           Reads(s, t) /\ (t = "load" <=> CourseCreated(s)) /\ (t = "readback" <=> WeekCreated(s))
    BY ListsAssumption DEF CourseCreated, WeekCreated
<1>6. /\ job' = [job EXCEPT ![s].task = t] /\ rows' = rows /\ raced \subseteq raced'
      /\ call' = [call EXCEPT ![s] = Request("list", call[s].board, None, "sent")]
    BY <1>5 DEF Reads
<1>7. Request("list", call[s].board, None, "sent").board = call[s].board
    BY <1>1, <1>3, BoardsAreTwo, RequestTyped DEF Ops, Stages
<1>8. /\ \A u \in Slots : u # s => job'[u] = job[u] /\ call'[u] = call[u]
      /\ job'[s].task = t /\ job'[s].about = i /\ job'[s].ear = job[s].ear
      /\ call'[s].board = call[s].board
    BY <1>6, <1>7 DEF Base, Requests, JobsTyped, ServerFits, ListsTypeOK, Job
<1>9. ~Loading(s) BY <1>1 DEF Loading
<1>10. CASE WeekCreated(s)
    <2>1. t = "readback" /\ UNCHANGED <<page, shown, late, mine>> BY <1>5, <1>10 DEF WeekCreated
    <2>2. AtHome(s)' BY <1>4, <1>8, <2>1 DEF AtHome, Loading, Live, HomeOf
    <2> QED BY <1>6, <1>8, <1>9, <2>1, <2>2, OneMoves, ListedKept
<1>11. CASE CourseCreated(s)
    <2>1. t = "load" /\ UNCHANGED <<page, shown, late>> /\ i \in Courses
        BY <1>5, <1>11 DEF CourseCreated
    <2>2. Live(s) => call'[s].board = ListOf(page)
        BY <1>3, <1>4, <1>8, <2>1 DEF HomeOf, ListOf, BoardOf
    <2>3. AtHome(s)' BY <1>8, <2>1, <2>2 DEF AtHome, Loading, Live, Storing, ListOf
    <2>4. CASE ~Live(s)
        <3>1. mine' = mine BY <1>11, <2>4 DEF CourseCreated
        <3> QED BY <1>6, <1>8, <1>9, <2>1, <2>3, <3>1, OneMoves, ListedKept
    <2>5. CASE Live(s)
        <3>1. mine' = mine \union {i} BY <1>11, <2>5 DEF CourseCreated
        <3>2. Loading(s)' BY <1>8, <2>1, <2>5 DEF Loading, Live
        <3>3. \A u \in Slots : u # s => (AtHome(u) => AtHome(u)')
            BY <1>8, <2>1 DEF AtHome, Loading, Live, Storing
        <3>4. \A u \in Slots : AtHome(u)' BY <2>3, <3>3 DEF MineListed
        <3>5. (\A j \in mine : Stocked(j) /\ page = HomeOf(j))'
            BY <1>2, <1>4, <1>6, <2>1, <2>5, <3>1 DEF MineListed, Stocked, HomeOf
        <3> QED BY <3>2, <3>4, <3>5 DEF MineListed
    <2> QED BY <2>4, <2>5
<1> QED BY <1>10, <1>11

LEMMA HandlerListed ==
    ASSUME Base, FreshInv, SentOnce, MineListed, NEW s \in Slots, Handle(s)
    PROVE  MineListed'
<1>1. Fits(job[s], call[s]) /\ AtHome(s) BY DEF Base, Requests, JobsFit, MineListed
<1>2. CASE Loaded(s)
    <2>1. Ends(s) /\ UNCHANGED <<page, mine>> BY <1>2 DEF Loaded
    <2>2. CASE ~Live(s)
        BY <1>2, <2>1, <2>2, OtherEndsListed DEF Loaded, Loading
    <2>3. CASE Live(s)
        <3>1. /\ Loading(s) /\ shown' = call[s].val /\ call[s].at = "answered"
              /\ late' = mine' \intersect call[s].missed
            BY <1>2, <2>1, <2>3 DEF Loaded, Loading, Applies
        <3>2. call[s].op = "list" /\ call[s].board = ListOf(page)
            BY <1>1, <3>1 DEF Fits, AtHome, Loading
        <3> QED BY <2>1, <3>1, <3>2, ListComes
    <2> QED BY <2>2, <2>3
<1>3. CASE LoadFails(s)
    <2>1. Ends(s) /\ page' = page BY <1>3 DEF LoadFails
    <2>2. CASE ~Live(s)
        BY <1>3, <2>1, <2>2, OtherEndsListed DEF LoadFails, Loading
    <2>3. CASE Live(s)
        <3>1. mine' = {} BY <1>3, <2>3 DEF LoadFails
        <3>2. AtHome(s)' BY EndsMoves, <2>1 DEF AtHome, Loading
        <3>3. \A t \in Slots : t # s => (AtHome(t) => AtHome(t)')
            BY EndsMoves, <2>1 DEF AtHome, Loading, Live, Storing
        <3> QED BY <3>1, <3>2, <3>3 DEF MineListed
    <2> QED BY <2>2, <2>3
<1>4. CASE WeekAdded(s)
    <2>1. Ends(s) /\ page' = page BY <1>4 DEF WeekAdded
    <2>2. CASE ~Live(s)
        BY <1>4, <2>1, <2>2, OtherEndsListed DEF WeekAdded, Loading
    <2>3. CASE Live(s)
        <3>1. /\ job[s].task = "readback" /\ call[s].at = "answered"
              /\ shown' = call[s].val /\ mine' = mine \union {job[s].about}
              /\ late' = mine' \intersect call[s].missed
            BY <1>4, <2>3 DEF WeekAdded, Applies
        <3>2. job[s].about \in Items /\ Stocked(job[s].about) /\ page = HomeOf(job[s].about)
            BY <1>1, <2>3, <3>1, BoardsAreTwo DEF Fits, SentOnce, AtHome, Storing
        <3>3. call[s].op = "list" /\ call[s].board = ListOf(page)
            BY <1>1, <3>1, <3>2, ListsAssumption DEF Fits, HomeOf, ListOf
        <3> QED BY <2>1, <3>1, <3>2, <3>3, ListComes
    <2> QED BY <2>2, <2>3
<1>5. CASE CreateFails(s) \/ MaterialsCome(s) \/ RefusalComes(s) \/ Unheard(s)
    BY <1>5, OtherEndsListed DEF CreateFails, MaterialsCome, RefusalComes, Unheard, Loading
<1> QED BY <1>2, <1>3, <1>4, <1>5, ReadsListed DEF Handle

LEMMA MineStep ==
    Base /\ FreshInv /\ SentOnce /\ MineListed /\ [Next]_vars => MineListed'
<1> SUFFICES ASSUME Base, FreshInv, SentOnce, MineListed, [Next]_vars PROVE MineListed'
    OBVIOUS
<1>1. role \in RoleChoices BY DEF Base, ViewTyped
<1>2. Visited[role] \subseteq Pages /\ Used[role] \subseteq Forms
    BY <1>1, PagesAssumption
<1>3. CASE \E p \in Visited[role] : Visit(p) \/ LoadUrl(p) BY <1>2, <1>3, LeavingListed
<1>4. CASE UserStep /\ ~(\E p \in Visited[role] : Visit(p) \/ LoadUrl(p))
    BY <1>2, <1>4, UserNoListing, ListedKept DEF UserStep
<1>5. CASE \E s \in Slots : Handle(s) BY <1>5, HandlerListed
<1>6. CASE (\E s \in Slots : Works(s)) \/ CopyExpires \/ UNCHANGED vars
    BY <1>6, ServerNoListing, ListedKept
<1> QED BY <1>3, <1>4, <1>5, <1>6 DEF Next

(* Whoever creates a course or a week sees it on the page once the lists   *)
(* asked for have come, but for a race on the server, or if the list that  *)
(* came last is one the server answered before the text was stored.        *)
THEOREM CreatedAreShown == Spec => []CreatedIsShown
<1>1. Init => MineListed
    BY JobTyped DEF Init, MineListed, AtHome, Loading, Live
<1>2. MineListed => CreatedIsShown BY DEF MineListed, CreatedIsShown, Reloading, Loading
<1>3. Base /\ FreshInv /\ SentOnce /\ MineListed /\ [Next]_vars => MineListed'
    BY MineStep
<1> QED BY <1>1, <1>2, <1>3, FreshAlways, SentOnceAlways, PTL DEF Spec

-----------------------------------------------------------------------------
(* Why a page that is loading is shown in the end: it always waits for a   *)
(* list of its own, and no request takes more than seven steps, so that    *)
(* LoadingEnds asks no more of the server and of the client than that      *)
(* they take them.                                                         *)

(* A page that is loading waits for a list that has been asked for.        *)
LoadingAwaited ==
    view = "loading" =>
        \E s \in Slots : Loading(s) /\ call[s].op = "list" /\ call[s].at # "idle"

(* The steps that are left of a request and of the list that follows a     *)
(* create.                                                                 *)
StepsLeft(c) ==
    CASE c.at = "idle" -> 0
      [] c.op = "list" /\ c.at = "sent" -> 3
      [] c.op = "list" /\ c.at = "read" -> 2
      [] c.op = "create" /\ c.at = "sent" -> 7
      [] c.op = "create" /\ c.at = "stored" -> 6
      [] c.op = "create" /\ c.at = "scanned" -> 5
      [] c.op = "create" /\ c.at \in {"answered", "failed"} -> 4
      [] OTHER -> 1

(* A request that moves has fewer steps left.                              *)
Moving(c) == <<c.op, c.board, c.item, c.at>>

Shortens ==
    \A s \in Slots : call[s].at # "idle" /\ Moving(call'[s]) # Moving(call[s]) =>
        StepsLeft(call'[s]) < StepsLeft(call[s])

Awaited == view = "loading" => \E s \in Slots : Loading(s)

LEMMA AwaitedAnswers == Base /\ Awaited => LoadingAwaited
<1> SUFFICES ASSUME Base, Awaited, view = "loading"
             PROVE  \E s \in Slots : Loading(s) /\ call[s].op = "list" /\ call[s].at # "idle"
    BY DEF LoadingAwaited
<1>1. PICK s \in Slots : Loading(s) BY DEF Awaited
<1>2. call[s].op = "list" /\ call[s].at # "idle"
    BY <1>1 DEF Loading, Base, Requests, JobsFit, Fits
<1> QED BY <1>1, <1>2

(* What is on its way for the page stays so.                               *)
LEMMA AwaitedKept == Awaited /\ NoListing /\ view' = view => Awaited'
BY DEF Awaited, NoListing

LEMMA MountAwaited ==
    ASSUME Base, NEW p, NEW js \in [Slots -> Job], Mount(p, js)
    PROVE  Awaited'
<1>1. CASE LoadsFor(p, role) = {} BY <1>1 DEF Mount, Awaited
<1>2. CASE LoadsFor(p, role) # {}
    <2>1. PICK s \in Slots : job' = [js EXCEPT ![s] = Task("load", None)]
        BY <1>2 DEF Mount
    <2>2. Task("load", None).task = "load" /\ Task("load", None).ear = "page"
        BY JobTyped DEF Tasks, Subjects, Texts
    <2>3. Loading(s)' BY <2>1, <2>2 DEF Loading, Live
    <2> QED BY <2>3 DEF Awaited
<1> QED BY <1>1, <1>2

LEMMA LeavingAwaited ==
    ASSUME Base, NEW p, Visit(p) \/ LoadUrl(p)
    PROVE  Awaited'
<1>1. \A s \in Slots : NoJob \in Job /\ Left(job[s]) \in Job
    BY JobTyped DEF Base, Requests, JobsTyped
<1>2. [s \in Slots |-> Left(job[s])] \in [Slots -> Job] BY <1>1
<1>3. [s \in Slots |-> NoJob] \in [Slots -> Job] BY <1>1
<1> QED BY <1>2, <1>3, MountAwaited DEF Visit, LoadUrl

(* A handler ends the loading, or leaves the list that is awaited.         *)
LEMMA HandlerAwaited ==
    ASSUME Base, Awaited, NEW s \in Slots, Handle(s)
    PROVE  Awaited'
<1>1. ASSUME ~Loading(s), view' = view,
             \A t \in Slots : t # s => job'[t] = job[t]
      PROVE  Awaited'
    BY <1>1 DEF Awaited, Loading, Live
<1>2. CASE Loaded(s) \/ LoadFails(s)
    <2>1. CASE Live(s) BY <1>2, <2>1 DEF Loaded, LoadFails, Views, Awaited
    <2>2. CASE ~Live(s)
        <3>1. Ends(s) /\ view' = view BY <1>2, <2>2 DEF Loaded, LoadFails
        <3> QED BY <1>1, <2>2, <3>1, EndsMoves DEF Loading
    <2> QED BY <2>1, <2>2
<1>3. CASE CourseCreated(s) \/ WeekCreated(s)
    <2>1. ~Loading(s) /\ view' = view
        BY <1>3 DEF CourseCreated, WeekCreated, Loading
    <2>2. Reads(s, "load") \/ Reads(s, "readback")
        BY <1>3 DEF CourseCreated, WeekCreated
    <2>3. \A t \in Slots : t # s => job'[t] = job[t]
        BY <2>2 DEF Reads, Base, Requests, JobsTyped
    <2> QED BY <1>1, <2>1, <2>3
<1>4. CASE WeekAdded(s) \/ CreateFails(s) \/ MaterialsCome(s) \/ RefusalComes(s) \/ Unheard(s)
    <2>1. ~Loading(s) /\ view' = view /\ Ends(s)
        BY <1>4 DEF WeekAdded, CreateFails, MaterialsCome, RefusalComes, Unheard, Loading
    <2> QED BY <1>1, <2>1, EndsMoves
<1> QED BY <1>2, <1>3, <1>4 DEF Handle

LEMMA AwaitedStep == Base /\ Awaited /\ [Next]_vars => Awaited'
<1> SUFFICES ASSUME Base, Awaited, [Next]_vars PROVE Awaited'
    OBVIOUS
<1>1. role \in RoleChoices BY DEF Base, ViewTyped
<1>2. Used[role] \subseteq Forms BY <1>1, PagesAssumption
<1>3. CASE \E p \in Visited[role] : Visit(p) \/ LoadUrl(p) BY <1>3, LeavingAwaited
<1>4. CASE UserStep /\ ~(\E p \in Visited[role] : Visit(p) \/ LoadUrl(p))
    <2>1. NoListing BY <1>2, <1>4, UserNoListing DEF UserStep
    <2>2. view' = view
        BY <1>4 DEF UserStep, OpenForm, SubmitStored, SubmitRefused, SubmitStubbed, Type,
           Cancel, Remove, Refilter, Toggle
    <2> QED BY <2>1, <2>2, AwaitedKept
<1>5. CASE \E s \in Slots : Handle(s) BY <1>5, HandlerAwaited
<1>6. CASE (\E s \in Slots : Works(s)) \/ CopyExpires \/ UNCHANGED vars
    <2>1. view' = view BY <1>6 DEF Works, CopyExpires, vars, client
    <2> QED BY <1>6, <2>1, ServerNoListing, AwaitedKept
<1> QED BY <1>3, <1>4, <1>5, <1>6 DEF Next

(* No page says that it is loading when nothing is on its way to it.       *)
THEOREM LoadsAreAwaited == Spec => []LoadingAwaited
<1>1. Init => Awaited BY DEF Init, Awaited
<1>2. Spec => []Base BY BaseInit, BaseStep, PTL DEF Spec
<1> QED BY <1>1, <1>2, AwaitedStep, AwaitedAnswers, PTL DEF Spec

LEMMA WorkShortens ==
    ASSUME ServerFits, NEW s \in Slots, ListStep(s) \/ CreateStep(s)
    PROVE  StepsLeft(call'[s]) < StepsLeft(call[s])
<1>1. call \in [Slots -> Call] /\ call[s] \in Call BY DEF ServerFits, ListsTypeOK
<1>2. call'[s].op = call[s].op BY WorkKeeps
<1>3. CASE ListHit(s) \/ ListQuery(s) \/ ListFill(s)
    <2>1. /\ call[s].op = "list"
          /\ \/ call[s].at = "sent" /\ call'[s].at \in {"read", "answered"}
             \/ call[s].at = "read" /\ call'[s].at = "answered"
        BY <1>1, <1>3 DEF ListHit, ListQuery, ListFill, Call
    <2> QED BY <1>2, <2>1 DEF StepsLeft
<1>4. CASE CreateStep(s)
    <2>1. /\ call[s].op = "create"
          /\ \/ call[s].at = "sent" /\ call'[s].at \in {"stored", "failed"}
             \/ call[s].at = "stored" /\ call'[s].at \in {"scanned", "answered"}
             \/ call[s].at = "scanned" /\ call'[s].at = "answered"
        <3>1. CASE Insert(s) BY <3>1, InsertMoves DEF Insert
        <3>2. CASE ~Insert(s)
            BY <1>1, <1>4, <3>2 DEF CreateStep, Scan, Evict, MayEvict, EvictFails, Refuse, Call
        <3> QED BY <3>1, <3>2
    <2> QED BY <1>2, <2>1 DEF StepsLeft
<1> QED BY <1>3, <1>4 DEF ListStep

LEMMA StepShortens == Base /\ [Next]_vars => Shortens
<1> SUFFICES ASSUME Base, [Next]_vars PROVE Shortens
    OBVIOUS
<1>1. ServerFits /\ call \in [Slots -> Call]
    BY DEF Base, Requests, ServerFits, ListsTypeOK
<1>2. CASE UNCHANGED server \/ \E b \in Boards : Expire(b)
    BY <1>2 DEF server, Expire, Shortens
<1>3. ASSUME NEW s \in Slots, NEW r \in Call, Sends(s, r) PROVE Shortens
    <2>1. call'[s] = r /\ \A t \in Slots : t # s => call'[t] = call[t]
        BY <1>1, <1>3 DEF Sends
    <2>2. call[s].at # "idle" => StepsLeft(r) = 3 /\ StepsLeft(call[s]) = 4
        BY <1>3 DEF Sends, StepsLeft
    <2> QED BY <2>1, <2>2 DEF Shortens
<1>4. ASSUME NEW s \in Slots, Drops(s) PROVE Shortens
    <2>1. call'[s] = Idle /\ \A t \in Slots : t # s => call'[t] = call[t]
        BY <1>1, <1>4 DEF Drops
    <2>2. StepsLeft(Idle) = 0 BY IdleTyped DEF StepsLeft
    <2>3. StepsLeft(call[s]) \in {1, 4} BY <1>4 DEF Drops, StepsLeft
    <2> QED BY <2>1, <2>2, <2>3 DEF Shortens
<1>5. ASSUME NEW s \in Slots, ListStep(s) \/ CreateStep(s) PROVE Shortens
    <2>1. \A t \in Slots : t # s => Moving(call'[t]) = Moving(call[t])
        BY <1>1, <1>5, OthersStay DEF Moving
    <2> QED BY <1>1, <1>5, <2>1, WorkShortens DEF Shortens
<1> QED BY <1>2, <1>3, <1>4, <1>5, ServerMoves

(* Whatever the user does meanwhile, a request never has to start again.   *)
THEOREM RequestsShorten == Spec => [][Shortens]_vars
<1>1. Base /\ [Next]_vars => [Shortens]_vars BY StepShortens
<1> QED BY <1>1, BaseInit, BaseStep, PTL DEF Spec
=============================================================================
