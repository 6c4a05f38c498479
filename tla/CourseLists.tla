---------------------------- MODULE CourseLists ----------------------------
(***************************************************************************)
(* The two lists of the course service that the web client creates on: the *)
(* courses, and the weeks (sections) of one course.  Each has its rows in  *)
(* PostgreSQL and a copy in Redis that a list fills and a create evicts.   *)
(*                                                                         *)
(* A request is a record of its slot; what it does step by step is what a  *)
(* use case does call by call.  A list reads the copy, or else the rows,   *)
(* and then stores what it read; a create inserts its row and then evicts  *)
(* the copy, that of the courses by SCAN and DEL; errors of Redis are      *)
(* swallowed.  Between any two of these steps other requests take theirs.  *)
(* A row is known by the text it was created with.  The client only asks   *)
(* for the first page of the courses: there are no more than fit on it.    *)
(***************************************************************************)
EXTENDS Naturals, FiniteSets

CONSTANTS
    Slots,      \* the requests the client may have under way (a bound)
    Courses,    \* the texts courses are created with
    Weeks,      \* the texts weeks are created with
    Existing,   \* the texts of the rows there are at the start
    None        \* no text, no copy

(* What the repository lists when the client names no page size.           *)
PageSize == 20

ASSUME ListsAssumption ==
    /\ Courses \intersect Weeks = {}
    /\ Existing \subseteq Courses \union Weeks
    /\ None \notin Courses \union Weeks
    /\ IsFiniteSet(Courses) /\ Cardinality(Courses) <= PageSize

VARIABLES
    rows,       \* the texts of the rows of each list
    cached,     \* the copy of each list in Redis, or None
    call,       \* the request of each slot
    raced       \* history: texts whose creation met a list that the server
                \* had not answered yet, or failed to evict the copy

server == <<rows, cached, call, raced>>

Items == Courses \union Weeks
Boards == {"courses", "weeks"}
On(b) == IF b = "courses" THEN Courses ELSE Weeks
BoardOf(i) == IF i \in Courses THEN "courses" ELSE "weeks"

Ops == {"list", "create"}
Stages == {"idle", "sent", "read", "stored", "scanned", "answered", "failed"}

(* missed is history: the texts stored in the list while its answer was on *)
(* the way to the client.                                                  *)
Call == [op : Ops, board : Boards, item : Items \union {None},
         at : Stages, val : SUBSET Items, missed : SUBSET Items]

Request(o, b, i, at) ==
    [op |-> o, board |-> b, item |-> i, at |-> at, val |-> {}, missed |-> {}]
Idle == Request("list", "courses", None, "idle")

ListsInit ==
    /\ rows = [b \in Boards |-> Existing \intersect On(b)]
    /\ cached = [b \in Boards |-> None]
    /\ call = [s \in Slots |-> Idle]
    /\ raced = {}

-----------------------------------------------------------------------------
Listing(s, b) == call[s].op = "list" /\ call[s].board = b /\ call[s].at # "idle"

(* A list the server has yet to answer, and one whose answer is on its way.*)
Serving(s, b) == Listing(s, b) /\ call[s].at # "answered"
Coming(s, b) == Listing(s, b) /\ call[s].at = "answered"

(* A row that is stored while the copy it outdates may still be there.     *)
Creating(s, b) ==
    call[s].op = "create" /\ call[s].board = b /\ call[s].at \in {"stored", "scanned"}

BeingCreated(b) == {call[s].item : s \in {t \in Slots : Creating(t, b)}}

(* What a request that leaves adds to raced.                               *)
MetBy(r) == IF r.op = "list" THEN BeingCreated(r.board) ELSE {}

-----------------------------------------------------------------------------
(* A list is answered from the copy...                                     *)
ListHit(s) ==
    /\ call[s].op = "list" /\ call[s].at = "sent"
    /\ cached[call[s].board] # None
    /\ call' = [call EXCEPT ![s].at = "answered", ![s].val = cached[call[s].board]]
    /\ UNCHANGED <<rows, cached, raced>>

(* ...or, without one or if Redis does not answer, from the rows...        *)
ListQuery(s) ==
    /\ call[s].op = "list" /\ call[s].at = "sent"
    /\ call' = [call EXCEPT ![s].at = "read", ![s].val = rows[call[s].board]]
    /\ UNCHANGED <<rows, cached, raced>>

(* ...which become the copy, if Redis takes them.                          *)
ListFill(s) ==
    /\ call[s].op = "list" /\ call[s].at = "read"
    /\ cached' \in {cached, [cached EXCEPT ![call[s].board] = call[s].val]}
    /\ call' = [call EXCEPT ![s].at = "answered"]
    /\ UNCHANGED <<rows, raced>>

(* A create stores its row...                                              *)
Insert(s) ==
    LET b == call[s].board
        i == call[s].item
    IN  /\ call[s].op = "create" /\ call[s].at = "sent"
        /\ rows' = [rows EXCEPT ![b] = @ \union {i}]
        /\ call' = [t \in Slots |->
               IF t = s THEN [call[s] EXCEPT !.at = "stored"]
               ELSE IF Coming(t, b)
                    THEN [call[t] EXCEPT !.missed = @ \union ({i} \ rows[b])]
                    ELSE call[t]]
        /\ raced' = IF \E t \in Slots : Serving(t, b) THEN raced \union {i} ELSE raced
        /\ UNCHANGED cached

(* ...and looks for the copies of the courses, one to each page asked for; *)
(* without any it deletes nothing, and a copy that is filled now survives. *)
Scan(s) ==
    /\ call[s].op = "create" /\ call[s].at = "stored" /\ call[s].board = "courses"
    /\ call' = [call EXCEPT ![s].at =
                   IF cached["courses"] = None THEN "answered" ELSE "scanned"]
    /\ UNCHANGED <<rows, cached, raced>>

(* The one copy of the weeks is deleted without a look.                    *)
MayEvict(s) ==
    /\ call[s].op = "create"
    /\ call[s].at = IF call[s].board = "courses" THEN "scanned" ELSE "stored"

(* Mutant: the copy is left to its minute.                                 *)
EvictNothing(s) ==
    /\ MayEvict(s)
    /\ call' = [call EXCEPT ![s].at = "answered"]
    /\ UNCHANGED <<rows, cached, raced>>

(* A create evicts the copy of its list...                                 *)
Evict(s) ==
    /\ MayEvict(s)
    /\ cached' = [cached EXCEPT ![call[s].board] = None]
    /\ call' = [call EXCEPT ![s].at = "answered"]
    /\ UNCHANGED <<rows, raced>>

(* ...or Redis fails, at either command.                                   *)
EvictFails(s) ==
    /\ call[s].op = "create" /\ call[s].at \in {"stored", "scanned"}
    /\ call' = [call EXCEPT ![s].at = "answered"]
    /\ raced' = raced \union {call[s].item}
    /\ UNCHANGED <<rows, cached>>

(* The checks of a use case, the rate limit, or a statement that fails.  A *)
(* list that fails is one whose answer is lost: it changes nothing.        *)
Refuse(s) ==
    /\ call[s].op = "create" /\ call[s].at = "sent"
    /\ call' = [call EXCEPT ![s].at = "failed"]
    /\ UNCHANGED <<rows, cached, raced>>

(* A copy lives 60 seconds.                                                *)
Expire(b) ==
    /\ cached[b] # None
    /\ cached' = [cached EXCEPT ![b] = None]
    /\ UNCHANGED <<rows, call, raced>>

ListStep(s) == ListHit(s) \/ ListQuery(s) \/ ListFill(s)
CreateStep(s) == Insert(s) \/ Scan(s) \/ Evict(s) \/ EvictFails(s) \/ Refuse(s)

-----------------------------------------------------------------------------
ListsTypeOK ==
    /\ rows \in [Boards -> SUBSET Items]
    /\ cached \in [Boards -> (SUBSET Items) \union {None}]
    /\ call \in [Slots -> Call]
    /\ raced \subseteq Items

(* Every copy, and every list on its way to the client, has all the rows   *)
(* of its list but those that are just being created or whose creation     *)
(* raced with a list on the server (the fill of list_courses.go and        *)
(* list_sections.go); the list on its way also lacks what was stored after *)
(* the server answered it.                                                 *)
ListsAreFresh ==
    \A b \in Boards :
        LET fresh(v) == rows[b] \subseteq v \union raced \union BeingCreated(b)
        IN  /\ cached[b] # None => fresh(cached[b])
            /\ \A s \in Slots :
                  Listing(s, b) /\ call[s].at \in {"read", "answered"}
                      => fresh(call[s].val \union call[s].missed)
=============================================================================
