------------------------------ MODULE WebMounts ------------------------------
(***************************************************************************)
(* What each page of the web client asks for when it is mounted, and what  *)
(* becomes of its list when that fails.  A page is a record:               *)
(*   loads    the calls of its effects                                     *)
(*   failing  whether a list that does not come "empties" what is shown    *)
(*            or "keeps" it                                                *)
(*   covers   whether nothing but a spinner is there while it loads        *)
(***************************************************************************)
EXTENDS WebRoles

(* The answers of these calls come from the server, and the pages show     *)
(* them as lists; the reading stubs of lib/api.ts answer at once, with     *)
(* nothing, and the calls that reject have a catch of their own.           *)
Listed(call) == CASE call = "courseApi.list"     -> {"courses"}
                  [] call = "courseApi.sections" -> {"weeks"}
                  [] OTHER                       -> {}

DashboardPage ==
    [loads |-> {"analyticsApi.overview", "courseApi.list"},
     failing |-> "empties", covers |-> FALSE]

CoursesPage ==
    [loads |-> {"courseApi.list"}, failing |-> "keeps", covers |-> FALSE]

(* The slots of a week, of the sessions and of the recurring schedule.     *)
SchedulePage ==
    [loads |-> {"sessionApi.user", "scheduleApi.user"},
     failing |-> "keeps", covers |-> FALSE]

GradesPage ==
    [loads |-> {"courseApi.list"}, failing |-> "keeps", covers |-> FALSE]

AttendancePage ==
    [loads |-> {"courseApi.list"}, failing |-> "keeps", covers |-> FALSE]

NewsPage ==
    [loads |-> {"newsApi.list"}, failing |-> "keeps", covers |-> FALSE]

NotificationsPage ==
    [loads |-> {"notificationApi.list"}, failing |-> "keeps", covers |-> FALSE]

AnalyticsPage ==
    [loads |-> {"analyticsApi.overview", "courseApi.list", "userApi.list"},
     failing |-> "empties", covers |-> FALSE]

AdminPage ==
    [loads |-> {"userApi.list", "userApi.roles", "userApi.groups", "courseApi.list"},
     failing |-> "empties", covers |-> FALSE]

ProfilePage ==
    [loads |-> {"userApi.groups", "userApi.get"},
     failing |-> "keeps", covers |-> FALSE]

(* One course, with its weeks.  The course itself may be missing.          *)
CoursePage ==
    [loads |-> {"courseApi.get", "courseApi.sections", "courseApi.enrollments",
                "assignmentApi.list", "sessionApi.list", "formulaApi.get"},
     failing |-> "empties", covers |-> TRUE]

Page ==
    [dashboard |-> DashboardPage, courses |-> CoursesPage,
     schedule |-> SchedulePage, grades |-> GradesPage,
     attendance |-> AttendancePage, news |-> NewsPage,
     notifications |-> NotificationsPage, analytics |-> AnalyticsPage,
     admin |-> AdminPage, profile |-> ProfilePage, course |-> CoursePage]

(* The page of the analytics asks nothing for a role that may not see it.  *)
Permitted(p, role) == p = "analytics" => canViewAnalytics(role)

(* The lists that page p loads from the server.                            *)
LoadsFor(p, role) ==
    IF Permitted(p, role) THEN UNION {Listed(c) : c \in Page[p].loads} ELSE {}
=============================================================================
