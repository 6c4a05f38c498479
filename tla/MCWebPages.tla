----------------------------- MODULE MCWebPages -----------------------------
(* A tab of the web client with two requests at a time: a course and a     *)
(* week there are, and one more of each to create.                         *)
EXTENDS WebPages

CONSTANTS s1, s2, c0, c1, w0, w1

(* A student looks around, a teacher plans the weeks of a course, an       *)
(* administrator creates courses, pairs of the schedule, and more.         *)
MCRoleChoices == {"student", "teacher", "admin"}

MCVisited ==
    [student |-> {"dashboard", "courses", "course", "grades"},
     teacher |-> {"course", "news"},
     admin   |-> {"courses", "schedule", "admin"}]

MCUsed ==
    [student |-> {"profile"},
     teacher |-> {"week", "item"},
     admin   |-> {"course", "slot", "notice"}]

MCSlots == {s1, s2}
MCCourses == {c0, c1}
MCWeeks == {w0, w1}
MCExisting == {c0, w0}
=============================================================================
