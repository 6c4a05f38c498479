------------------------------ MODULE WebForms ------------------------------
(***************************************************************************)
(* The forms of the web client, and what becomes of what they send.        *)
(*                                                                         *)
(* Most of lib/api.ts are stubs of the services of an earlier version: a   *)
(* reading stub resolves to an empty list, a writing stub rejects.  A form *)
(* is a record:                                                            *)
(*   on      the page it is part of                                        *)
(*   button  the roles that are given its button                           *)
(*   needs   what must be on the page for it to be opened ("nothing", an   *)
(*           expanded "week") or to be sent (an option "course" to select, *)
(*           an option "student")                                          *)
(*   reopens whether opening it finds what was typed ("kept") or not       *)
(*           ("reset"); a form that is always there is "always" open       *)
(*   typed   whether it can be sent only with a text in it                 *)
(*   sends   what its handler may call: if one of these fails, it ends in  *)
(*           a toast, and the form stays as it is                          *)
(***************************************************************************)
EXTENDS WebMounts

(* The calls of courseApi that ask the server.                             *)
Remote ==
    {"courseApi.list", "courseApi.get", "courseApi.create",
     "courseApi.sections", "courseApi.createSection", "courseApi.materials",
     "courseApi.createMaterial", "courseApi.enrollments", "courseApi.unenroll"}

(* The stubs that reject.                                                  *)
Rejecting ==
    {"gradeApi.create", "formulaApi.create", "mediaApi.upload",
     "userApi.createGroup", "userApi.uploadAvatar", "userApi.updateProfile",
     "newsApi.create", "scheduleApi.create", "assignmentApi.create",
     "sessionApi.create"}

(* The client sends no title of a material and no student to remove: these *)
(* two calls the server always refuses.                                    *)
Refused == {"courseApi.createMaterial", "courseApi.unenroll"}

-----------------------------------------------------------------------------
(* The handlers of the forms: the calls before the form is closed, or the  *)
(* failing of which is told.                                               *)
handleCreateCourse == {"courseApi.create"}
handleAddSection == {"courseApi.createSection", "courseApi.sections"}

(* A file is uploaded first, a link or a note is posted at once.           *)
handleAddMaterial ==
    {"mediaApi.upload", "courseApi.createMaterial", "courseApi.materials"}

handleCreateAssignment == {"assignmentApi.create"}
handleCreateSession == {"sessionApi.create"}
handleAddGrade == {"gradeApi.create"}

(* The thresholds and weights are checked first; both ways end in a call   *)
(* that rejects, or in a toast.                                            *)
handleSaveFormula == {"formulaApi.create"}

handleAddSlot == {"scheduleApi.create"}
handleCreateNews == {"newsApi.create"}

(* Only a notice to all can be sent, and it finds no user: no call at all. *)
handleSendNotification == {}

handleCreateGroup == {"userApi.createGroup"}

(* With a new avatar or without.                                           *)
handleSave == {"userApi.uploadAvatar", "userApi.updateProfile"}

-----------------------------------------------------------------------------
CourseForm ==
    [on |-> "courses", button |-> COURSE_MANAGER_ROLES, needs |-> "nothing",
     reopens |-> "kept", typed |-> TRUE, sends |-> handleCreateCourse]

(* "+ Add Week".                                                           *)
WeekForm ==
    [on |-> "course", button |-> COURSE_MANAGER_ROLES, needs |-> "nothing",
     reopens |-> "reset", typed |-> TRUE, sends |-> handleAddSection]

(* "Add Item" of an expanded week.                                         *)
ItemForm ==
    [on |-> "course", button |-> COURSE_MANAGER_ROLES, needs |-> "week",
     reopens |-> "reset", typed |-> TRUE, sends |-> handleAddMaterial]

(* The same panel, with "Assignment" chosen.                               *)
AssignmentForm ==
    [on |-> "course", button |-> COURSE_MANAGER_ROLES, needs |-> "week",
     reopens |-> "kept", typed |-> TRUE, sends |-> handleCreateAssignment]

SessionForm ==
    [on |-> "course", button |-> COURSE_MANAGER_ROLES, needs |-> "nothing",
     reopens |-> "kept", typed |-> TRUE, sends |-> handleCreateSession]

(* An enrolment comes without user_id: every option of the required choice *)
(* of a student is empty, and the browser never sends the form.            *)
GradeForm ==
    [on |-> "course", button |-> COURSE_MANAGER_ROLES, needs |-> "student",
     reopens |-> "kept", typed |-> TRUE, sends |-> handleAddGrade]

FormulaForm ==
    [on |-> "course", button |-> COURSE_MANAGER_ROLES, needs |-> "nothing",
     reopens |-> "reset", typed |-> FALSE, sends |-> handleSaveFormula]

(* "Add Pair" of the schedule, which also asks for the courses to choose.  *)
SlotForm ==
    [on |-> "schedule", button |-> COURSE_MANAGER_ROLES, needs |-> "course",
     reopens |-> "kept", typed |-> TRUE, sends |-> handleAddSlot]

NewsForm ==
    [on |-> "news", button |-> ADMIN_ROLES, needs |-> "nothing",
     reopens |-> "kept", typed |-> TRUE, sends |-> handleCreateNews]

(* The page of the administrators asks nobody for a role.                  *)
NoticeForm ==
    [on |-> "admin", button |-> Everybody, needs |-> "nothing",
     reopens |-> "kept", typed |-> TRUE, sends |-> handleSendNotification]

GroupForm ==
    [on |-> "admin", button |-> Everybody, needs |-> "nothing",
     reopens |-> "kept", typed |-> TRUE, sends |-> handleCreateGroup]

ProfileForm ==
    [on |-> "profile", button |-> Everybody, needs |-> "nothing",
     reopens |-> "always", typed |-> FALSE, sends |-> handleSave]

Form ==
    [course |-> CourseForm, week |-> WeekForm, item |-> ItemForm,
     assignment |-> AssignmentForm, session |-> SessionForm,
     grade |-> GradeForm, formula |-> FormulaForm, slot |-> SlotForm,
     news |-> NewsForm, notice |-> NoticeForm, group |-> GroupForm,
     profile |-> ProfileForm]

Forms == DOMAIN Form
=============================================================================
