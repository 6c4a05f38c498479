------------------------------ MODULE WebPages ------------------------------
(***************************************************************************)
(* One signed-in tab of the web client, on the pages inside its layout,    *)
(* against the two lists of the course service.                            *)
(*                                                                         *)
(* A page loads what it shows when it is mounted; a handler awaits one     *)
(* request after another, and goes on when the page is long gone (its      *)
(* toasts still appear, its changes of state go nowhere).  Nothing aborts  *)
(* or numbers a request, so answers are applied in the order they come.    *)
(* A request may be lost on its way back while the server still serves it. *)
(*                                                                         *)
(* Bounds: one handler step per slot of CourseLists, at most |Slots|       *)
(* requests at a time; one form is used between two visits of a page; one  *)
(* course is opened.  Nobody reloads a page that is still loading, or      *)
(* types afresh a text that is stored or on its way, unless there is a     *)
(* reason to doubt it.                                                     *)
(***************************************************************************)
EXTENDS CourseLists, WebForms

CONSTANTS
    RoleChoices,    \* the roles the user may have
    Text,           \* a text typed into a form whose calls are stubs
    Visited,        \* the pages a user of each role goes to (a bound)
    Used            \* the forms a user of each role opens (a bound)

ASSUME PagesAssumption ==
    /\ RoleChoices \subseteq Roles
    /\ Visited \in [RoleChoices -> SUBSET Pages]
    /\ Used \in [RoleChoices -> SUBSET Forms]
    /\ Text \notin Items \union {None}
    /\ Items \intersect (Forms \union {"enrollment"}) = {}

VARIABLES
    role,       \* of the user
    page,       \* the page that is mounted
    view,       \* "loading", "ready", or "missing": no such course
    shown,      \* the texts of the list it shows
    late,       \* history: those of mine that were stored after the server
                \* had answered that list
    form,       \* the form in use: its name, whether it is visible, its text
    toast,      \* the toast the last step raised
    open,       \* the weeks that are expanded (expandedSections)
    known,      \* the weeks whose materials have arrived (sectionMaterials)
    job,        \* what the handler of each request is for
    mine,       \* history: created since the page was mounted, and its list
                \* read again since or on its way
    doubtful,   \* history: texts sent again before their answer, or whose
                \* answer was lost or belied
    overlapped  \* history: weeks whose materials were under way with others

client == <<role, page, view, shown, late, form, toast, open, known, job,
            mine, doubtful, overlapped>>
vars == <<server, client>>

(* "load" fills the list of a page, "create" and then, for a week,         *)
(* "readback" are the two awaits of a form, "materials" belong to a week   *)
(* that was expanded, "refused" are calls the server always refuses.       *)
Tasks == {"none", "load", "create", "readback", "materials", "refused"}

(* Whether the page that sent a request is still mounted, or was left for  *)
(* another.  A request without a job is one that nobody waits for.         *)
Ears == {"page", "gone", "none"}

Texts == Items \union {None, Text}
Subjects == Texts \union Forms \union {"enrollment"}
Job == [task : Tasks, ear : Ears, about : Subjects, seen : SUBSET Weeks]

NoJob == [task |-> "none", ear |-> "none", about |-> None, seen |-> {}]
Task(t, about) == [NoJob EXCEPT !.task = t, !.ear = "page", !.about = about]

Quiet == toast' = None
Tell(ok, about) == toast' = [ok |-> ok, about |-> about]

Free(s) == call[s].at = "idle" /\ job[s].task = "none"
Live(s) == job[s].ear = "page"
InFlight(i) == \E s \in Slots : job[s].task \in {"create", "readback"}
                                /\ job[s].about = i

-----------------------------------------------------------------------------
NoForm == [name |-> "none", visible |-> FALSE, text |-> None]

(* A handler whose page is left may have a toast to show yet; what others  *)
(* do shows nowhere.                                                       *)
Left(j) == IF j.task \in {"create", "readback", "refused"}
           THEN [j EXCEPT !.ear = "gone"]
           ELSE NoJob

(* Page p is mounted: js are the jobs of the handlers it finds.            *)
Mount(p, js) ==
    /\ page' = p
    /\ view' = IF LoadsFor(p, role) = {} THEN "ready" ELSE "loading"
    /\ shown' = {} /\ late' = {} /\ form' = NoForm
    /\ open' = {} /\ known' = {}
    /\ mine' = {} /\ overlapped' = {}
    /\ IF LoadsFor(p, role) = {}
       THEN job' = js /\ UNCHANGED server
       ELSE \E s \in Slots, b \in LoadsFor(p, role) :
               /\ call[s].at = "idle" /\ js[s] = NoJob
               /\ call' = [call EXCEPT ![s] = Request("list", b, None, "sent")]
               /\ raced' = raced \union BeingCreated(b)
               /\ job' = [js EXCEPT ![s] = Task("load", None)]
               /\ UNCHANGED <<rows, cached>>

(* The sidebar, the profile in its footer, and the cards of the courses.   *)
Reaches(p) ==
    \/ p \in visibleNav(role) \union {"profile"}
    \/ p = "course" /\ page = "courses" /\ shown # {}

Visit(p) ==
    /\ p # page /\ Reaches(p)
    /\ Mount(p, [s \in Slots |-> Left(job[s])])
    /\ Quiet
    /\ UNCHANGED <<role, doubtful>>

(* The address bar, a reload, and the plain links of the dashboard: a new  *)
(* document.  What was on its way is answered to nobody.                   *)
LoadUrl(p) ==
    /\ ~(p = page /\ view = "loading")
    /\ Mount(p, [s \in Slots |-> NoJob])
    /\ doubtful' = doubtful \union {i \in Items : InFlight(i)}
    /\ Quiet
    /\ UNCHANGED role

-----------------------------------------------------------------------------
(* The mounted page sends a request to a list from a slot that is free,    *)
(* or asks for something else.                                             *)
Await(s, j) ==
    /\ Free(s)
    /\ job' = [job EXCEPT ![s] = j]
    /\ UNCHANGED server

Send(s, r, j) ==
    /\ Free(s)
    /\ call' = [call EXCEPT ![s] = r]
    /\ job' = [job EXCEPT ![s] = j]
    /\ raced' = raced \union MetBy(r)
    /\ UNCHANGED <<rows, cached>>

(* The page is there with its buttons.                                     *)
Present(p) == page = p /\ (Page[p].covers => view = "ready")

(* What must be on the page.                                               *)
Openable(f) ==
    /\ Present(Form[f].on)
    /\ role \in Form[f].button
    /\ Form[f].needs = "week" => open \intersect shown # {}
    /\ form.name \in {"none", f}

OpenForm(f) ==
    /\ Openable(f)
    /\ Form[f].reopens = "kept" => ~form.visible
    /\ form' = [name |-> f, visible |-> TRUE,
                text |-> IF Form[f].reopens = "reset" THEN None ELSE form.text]
    /\ IF f = "slot"
       THEN \E s \in Slots : Send(s, Request("list", "courses", None, "sent"),
                                  Task("load", None))
       ELSE UNCHANGED <<server, job>>
    /\ Quiet
    /\ UNCHANGED <<role, page, view, shown, late, open, known, mine,
                   doubtful, overlapped>>

(* A text for the form: of its list, if the server keeps one.              *)
TextsFor(f) ==
    IF f = "course" THEN Courses ELSE IF f = "week" THEN Weeks ELSE {Text}

Type(x) ==
    /\ form.visible /\ x \in TextsFor(form.name) /\ x # form.text
    /\ x \in Items => \/ x \notin rows[BoardOf(x)] /\ ~InFlight(x)
                      \/ x \in doubtful
    /\ form' = [form EXCEPT !.text = x]
    /\ Quiet
    /\ UNCHANGED <<server, role, page, view, shown, late, open, known, job,
                   mine, doubtful, overlapped>>

Cancel ==
    /\ form.visible /\ Form[form.name].reopens # "always"
    /\ form' = [form EXCEPT !.visible = FALSE]
    /\ Quiet
    /\ UNCHANGED <<server, role, page, view, shown, late, open, known, job,
                   mine, doubtful, overlapped>>

(* What the browser asks of a form before it calls the handler.            *)
Sendable(f) ==
    /\ form.visible /\ form.name = f
    /\ Form[f].typed => form.text # None
    /\ Form[f].needs = "course" => shown # {}
    /\ Form[f].needs # "student"

(* The forms of a course and of a week: nothing disables their button      *)
(* while they wait.                                                        *)
SubmitStored(f) ==
    /\ Sendable(f) /\ Form[f].sends \subseteq Remote \ Refused /\ Form[f].sends # {}
    /\ \E s \in Slots :
          Send(s, Request("create", BoardOf(form.text), form.text, "sent"),
               Task("create", form.text))
    /\ doubtful' = IF InFlight(form.text) THEN doubtful \union {form.text} ELSE doubtful
    /\ Quiet
    /\ UNCHANGED <<role, page, view, shown, late, form, open, known, mine,
                   overlapped>>

(* A form whose call the server is sure to refuse.                         *)
SubmitRefused(f) ==
    /\ Sendable(f) /\ Form[f].sends \intersect Refused # {}
    /\ \E s \in Slots :
          Await(s, Task("refused", f))
    /\ Quiet
    /\ UNCHANGED <<role, page, view, shown, late, form, open, known, mine,
                   doubtful, overlapped>>

(* A form whose call rejects at once, or that has nobody to call for.      *)
SubmitStubbed(f) ==
    /\ Sendable(f)
    /\ Form[f].sends = {} \/ Form[f].sends \intersect Rejecting # {}
    /\ Tell(FALSE, f)
    /\ UNCHANGED <<server, role, page, view, shown, late, form, open, known, job,
                   mine, doubtful, overlapped>>

(* "Remove" beside a student.                                              *)
Remove ==
    /\ Present("course") /\ canManageCourse(role)
    /\ \E s \in Slots : Await(s, Task("refused", "enrollment"))
    /\ Quiet
    /\ UNCHANGED <<role, page, view, shown, late, form, open, known, mine,
                   doubtful, overlapped>>

(* The filters above the users load the whole page again.                  *)
Refilter ==
    /\ Present("admin")
    /\ \E s \in Slots : Send(s, Request("list", "courses", None, "sent"),
                             Task("load", None))
    /\ Quiet
    /\ UNCHANGED <<role, page, view, shown, late, form, open, known, mine,
                   doubtful, overlapped>>

(* A week is expanded or collapsed; its materials are fetched unless they  *)
(* have arrived before, whether or not they are on their way.              *)
Fetching == {job[s].about : s \in {t \in Slots : job[t].task = "materials"}}

Toggle(w) ==
    /\ Present("course") /\ w \in shown
    /\ open' = (open \union {w}) \ (open \intersect {w})
    /\ IF w \notin open \union known
       THEN /\ \E s \in Slots :
                  Await(s, [Task("materials", w) EXCEPT !.seen = known])
            /\ overlapped' = IF Fetching \subseteq {w} THEN overlapped
                             ELSE overlapped \union Fetching \union {w}
       ELSE UNCHANGED <<server, job, overlapped>>
    /\ Quiet
    /\ UNCHANGED <<role, page, view, shown, late, form, known, mine, doubtful>>

-----------------------------------------------------------------------------
(* One more request follows the answer of slot s.                          *)
(* Mutant: the handler forgets which text it is about.                     *)
ReadsUnknowing(s, task) ==
    LET r == Request("list", call[s].board, None, "sent")
    IN  /\ call' = [call EXCEPT ![s] = r]
        /\ job' = [job EXCEPT ![s].task = task, ![s].about = None]
        /\ raced' = raced \union MetBy(r)
        /\ UNCHANGED <<rows, cached>>

Reads(s, task) ==
    LET r == Request("list", call[s].board, None, "sent")
    IN  /\ call' = [call EXCEPT ![s] = r]
        /\ job' = [job EXCEPT ![s].task = task]
        /\ raced' = raced \union MetBy(r)
        /\ UNCHANGED <<rows, cached>>

(* The handler ends with its request, or the server goes on for nobody.    *)
Ends(s) ==
    /\ job' = [job EXCEPT ![s] = NoJob]
    /\ IF call[s].at \in {"answered", "failed"}
       THEN call' = [call EXCEPT ![s] = Idle] /\ UNCHANGED <<rows, cached, raced>>
       ELSE UNCHANGED server

(* The page shows the list that slot s waited for; created are mine by now.*)
Applies(s, created) ==
    /\ shown' = call[s].val
    /\ late' = created \intersect call[s].missed

(* A list arrives; the course page has its course or has not.              *)
Views == IF page = "course" THEN {"ready", "missing"} ELSE {"ready"}

Loaded(s) ==
    /\ call[s].at = "answered" /\ job[s].task = "load"
    /\ IF Live(s)
       THEN Applies(s, mine) /\ view' \in Views
       ELSE UNCHANGED <<shown, late, view>>
    /\ Ends(s)
    /\ Quiet
    /\ UNCHANGED <<role, page, form, open, known, mine, doubtful, overlapped>>

(* Mutant: a failed load is logged and nothing else.                       *)
LoadFailsUnseen(s) ==
    /\ job[s].task = "load"
    /\ mine' = IF Live(s) THEN {} ELSE mine
    /\ Ends(s)
    /\ Quiet
    /\ UNCHANGED <<role, page, view, shown, late, form, open, known,
                   doubtful, overlapped>>

(* It does not come: no page is left loading.                              *)
LoadFails(s) ==
    /\ job[s].task = "load"
    /\ IF Live(s)
       THEN /\ IF Page[page].failing = "empties"
               THEN shown' = {} /\ late' = {}
               ELSE UNCHANGED <<shown, late>>
            /\ view' \in Views
            /\ mine' = {}
       ELSE UNCHANGED <<shown, late, view, mine>>
    /\ Ends(s)
    /\ Quiet
    /\ UNCHANGED <<role, page, form, open, known, doubtful, overlapped>>

(* Mutant: the form stays as it was.                                       *)
Uncleared == form

(* The form is hidden and emptied, whatever has been typed meanwhile.      *)
Cleared == [form EXCEPT !.visible = FALSE, !.text = None]

(* Mutant: the list is not asked for again.                                *)
CourseCreatedOnly(s) ==
    /\ call[s].at = "answered" /\ job[s].task = "create" /\ job[s].about \in Courses
    /\ IF Live(s)
       THEN form' = Cleared /\ mine' = mine \union {job[s].about}
       ELSE UNCHANGED <<form, mine>>
    /\ Ends(s)
    /\ Tell(TRUE, job[s].about)
    /\ UNCHANGED <<role, page, view, shown, late, open, known, doubtful,
                   overlapped>>

(* A course is created: the toast, and the list once more.                 *)
CourseCreated(s) ==
    /\ call[s].at = "answered" /\ job[s].task = "create" /\ job[s].about \in Courses
    /\ IF Live(s)
       THEN form' = Cleared /\ mine' = mine \union {job[s].about}
       ELSE UNCHANGED <<form, mine>>
    /\ Reads(s, "load")
    /\ Tell(TRUE, job[s].about)
    /\ UNCHANGED <<role, page, view, shown, late, open, known, doubtful,
                   overlapped>>

(* A week is created: the weeks are read before anything is said.          *)
WeekCreated(s) ==
    /\ call[s].at = "answered" /\ job[s].task = "create" /\ job[s].about \in Weeks
    /\ Reads(s, "readback")
    /\ Quiet
    /\ UNCHANGED <<role, page, view, shown, late, form, open, known, mine,
                   doubtful, overlapped>>

WeekAdded(s) ==
    /\ call[s].at = "answered" /\ job[s].task = "readback"
    /\ IF Live(s)
       THEN /\ mine' = mine \union {job[s].about}
            /\ Applies(s, mine')
            /\ form' = Cleared
       ELSE UNCHANGED <<shown, late, form, mine>>
    /\ Ends(s)
    /\ Tell(TRUE, job[s].about)
    /\ UNCHANGED <<role, page, view, open, known, doubtful, overlapped>>

(* Mutant: the toast of a success follows the request, not its answer.     *)
CreateFailsUnheard(s) ==
    /\ job[s].task \in {"create", "readback"}
    /\ doubtful' = IF job[s].task = "create" /\ call[s].at = "failed" THEN doubtful
                   ELSE doubtful \union {job[s].about}
    /\ Ends(s)
    /\ Tell(TRUE, job[s].about)
    /\ UNCHANGED <<role, page, view, shown, late, form, open, known, mine,
                   overlapped>>

(* A create fails, or the list after it.  The answer may have been lost    *)
(* when the row is stored: the toast says the same.                        *)
CreateFails(s) ==
    /\ job[s].task \in {"create", "readback"}
    /\ doubtful' = IF job[s].task = "create" /\ call[s].at = "failed" THEN doubtful
                   ELSE doubtful \union {job[s].about}
    /\ Ends(s)
    /\ Tell(FALSE, job[s].about)
    /\ UNCHANGED <<role, page, view, shown, late, form, open, known, mine,
                   overlapped>>

(* Mutant: the materials that come replace all there were.                 *)
MaterialsReplace(s) ==
    /\ job[s].task = "materials"
    /\ known' = {job[s].about}
    /\ Ends(s)
    /\ Quiet
    /\ UNCHANGED <<role, page, view, shown, late, form, open, mine,
                   doubtful, overlapped>>

(* Materials arrive or, for an error, none: they are put beside those the  *)
(* page had when the week was expanded.                                    *)
MaterialsCome(s) ==
    /\ job[s].task = "materials"
    /\ known' = job[s].seen \union {job[s].about}
    /\ Ends(s)
    /\ Quiet
    /\ UNCHANGED <<role, page, view, shown, late, form, open, mine,
                   doubtful, overlapped>>

RefusalComes(s) ==
    /\ job[s].task = "refused"
    /\ Ends(s)
    /\ Tell(FALSE, job[s].about)
    /\ UNCHANGED <<role, page, view, shown, late, form, open, known, mine,
                   doubtful, overlapped>>

(* A request nobody waits for is over.                                     *)
Unheard(s) ==
    /\ job[s].task = "none" /\ call[s].at \in {"answered", "failed"}
    /\ Ends(s)
    /\ Quiet
    /\ UNCHANGED <<role, page, view, shown, late, form, open, known, mine,
                   doubtful, overlapped>>

-----------------------------------------------------------------------------
Handle(s) ==
    \/ Loaded(s) \/ LoadFails(s)
    \/ CourseCreated(s) \/ WeekCreated(s) \/ WeekAdded(s) \/ CreateFails(s)
    \/ MaterialsCome(s) \/ RefusalComes(s) \/ Unheard(s)

(* The server.                                                             *)
Works(s) ==
    /\ ListStep(s) \/ CreateStep(s)
    /\ Quiet
    /\ UNCHANGED <<role, page, view, shown, late, form, open, known, job,
                   mine, doubtful, overlapped>>

CopyExpires ==
    /\ \E b \in Boards : Expire(b)
    /\ Quiet
    /\ UNCHANGED <<role, page, view, shown, late, form, open, known, job,
                   mine, doubtful, overlapped>>

UserStep ==
    \/ \E p \in Visited[role] : Visit(p) \/ LoadUrl(p)
    \/ \E f \in Used[role] : OpenForm(f) \/ SubmitStored(f) \/ SubmitRefused(f)
                        \/ SubmitStubbed(f)
    \/ \E x \in Items \union {Text} : Type(x)
    \/ Cancel \/ Remove \/ Refilter
    \/ \E w \in Weeks : Toggle(w)

Init ==
    /\ ListsInit
    /\ role \in RoleChoices
    /\ page = "profile" /\ view = "ready" /\ form = NoForm
    /\ shown = {} /\ late = {}
    /\ toast = None /\ open = {} /\ known = {}
    /\ job = [s \in Slots |-> NoJob]
    /\ mine = {} /\ doubtful = {} /\ overlapped = {}

Next ==
    \/ UserStep
    \/ \E s \in Slots : Works(s) \/ Handle(s)
    \/ CopyExpires

(* The server answers or fails every request in the end, and the client    *)
(* handles what has come.  Nothing is assumed of the user or of a copy.    *)
Progress(s) == Works(s) \/ Handle(s)

Spec == Init /\ [][Next]_vars
FairSpec == Spec /\ \A s \in Slots : WF_vars(Progress(s))

-----------------------------------------------------------------------------
(* Every variable has its type, and a handler that waits for an answer     *)
(* knows what it will say about it.                                        *)
TypeOK ==
    /\ ListsTypeOK
    /\ role \in RoleChoices
    /\ page \in Pages
    /\ view \in {"loading", "ready", "missing"}
    /\ shown \subseteq Items /\ late \subseteq Items
    /\ form \in [name : Forms \union {"none"}, visible : BOOLEAN, text : Texts]
    /\ toast \in [ok : BOOLEAN, about : Subjects] \union {None}
    /\ open \subseteq Weeks /\ known \subseteq Weeks
    /\ job \in [Slots -> Job]
    /\ \A s \in Slots : job[s].task \in {"create", "readback"} => job[s].about \in Items
    /\ mine \subseteq Items /\ doubtful \subseteq Items /\ overlapped \subseteq Weeks

(* What a toast says of a course or a week is so: "created" is stored, and *)
(* a failure is not, unless an answer was lost, the weeks could not be     *)
(* read back, or the text was sent twice (the catch of handleAddSection    *)
(* and handleCreate cannot tell).                                          *)
ToastsAreTrue ==
    toast # None /\ toast.about \in Items =>
        IF toast.ok THEN toast.about \in rows[BoardOf(toast.about)]
        ELSE toast.about \in rows[BoardOf(toast.about)] => toast.about \in doubtful

(* Who creates a course or a week sees it in the list, once the lists that *)
(* were asked for have come, with two exceptions.  Its creation raced with *)
(* a list on the server, and a copy without it may live on for a minute.   *)
(* Or the list that is shown was answered before it was stored: an older   *)
(* answer, applied after the one of the reload, for nothing in load of     *)
(* courses/page.tsx or courses/[id]/page.tsx numbers or aborts a request.  *)
(* No failure, refusal, lost answer or double press is a third.            *)
Reloading == \E s \in Slots : Live(s) /\ job[s].task \in {"load", "readback"}

CreatedIsShown == ~Reloading => mine \subseteq shown \union raced \union late

(* A week that is expanded has its materials or they are on their way,     *)
(* unless they were fetched together with those of another week (the       *)
(* closure of toggleSection puts back the map it found).                   *)
MaterialsAreKept == open \intersect shown \subseteq known \union Fetching \union overlapped

(* The server stores no text a second time, whatever the client sends and  *)
(* however long the forms stay open, unless the user sent it again before  *)
(* the answer, or with reason to doubt it.                                 *)
TextsStoredOnce ==
    [][\A s \in Slots :
          call[s].op = "create" /\ call[s].at = "sent" /\ call'[s].at = "stored"
              => \/ call[s].item \notin rows[call[s].board]
                 \/ call[s].item \in doubtful]_vars

(* A page that is loading is shown in the end, also when the answer is     *)
(* lost, fails, or comes for a visit that is over: only a user who keeps   *)
(* leaving sees nothing else.                                              *)
LoadingEnds == []<>(view # "loading") \/ []<><<page' # page>>_page
=============================================================================
