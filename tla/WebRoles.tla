------------------------------ MODULE WebRoles ------------------------------
(***************************************************************************)
(* The pages of the web client and what the role of its user opens: the    *)
(* lists of roles of lib/store.ts and the entries of the sidebar.  The     *)
(* server is never asked for a role: a page that is not in the sidebar is  *)
(* still one address away.                                                 *)
(***************************************************************************)

ADMIN_ROLES == {"superadmin", "rector", "admin"}

COURSE_MANAGER_ROLES ==
    ADMIN_ROLES \union {"professor", "teacher", "head_of_department"}

ANALYTICS_ROLES ==
    ADMIN_ROLES \union {"dean", "head_of_department", "curator", "accountant", "hr"}

(* Who studies or teaches.                                                 *)
Faculty ==
    COURSE_MANAGER_ROLES \union
        {"dean", "practice_teacher", "teaching_assistant", "student", "curator"}

Roles ==
    Faculty \union ANALYTICS_ROLES \union {"parent", "external_reviewer"}

Everybody == Roles

(* The roles each entry of the sidebar is for.                             *)
navItems ==
    [dashboard     |-> Everybody,
     courses       |-> Everybody,
     schedule      |-> Faculty,
     grades        |-> Faculty \union {"parent", "external_reviewer"},
     attendance    |-> Faculty \union {"parent"},
     news          |-> Everybody,
     notifications |-> Everybody,
     analytics     |-> ANALYTICS_ROLES,
     admin         |-> ADMIN_ROLES]

visibleNav(role) == {p \in DOMAIN navItems : role \in navItems[p]}

(* The pages: those of the sidebar, the profile, and the page of a course. *)
Pages == DOMAIN navItems \union {"profile", "course"}

canViewAnalytics(role) == role \in ANALYTICS_ROLES
canManageCourse(role) == role \in COURSE_MANAGER_ROLES
=============================================================================
