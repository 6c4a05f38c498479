---------------------------- MODULE BrowserLogin ----------------------------
(***************************************************************************)
(* What the web client promises about the one session a browser keeps,     *)
(* whatever its tabs do: the stored tokens belong to one login, and the    *)
(* user shown is one whose login was completed here.  A login first stores *)
(* its tokens (Grant) and only later the user they belong to (Complete);   *)
(* it may never get there.  WebSession is shown to implement this module.  *)
(***************************************************************************)
CONSTANTS
    Users,      \* the accounts
    Logins,     \* the successful POST /auth/login answers
    None        \* nothing stored

VARIABLES
    session,    \* the login whose tokens are stored
    shown,      \* the user stored beside them
    owner,      \* who each granted login authenticates
    completed   \* the logins that reached their end

vars == <<session, shown, owner, completed>>

Init ==
    /\ session = None
    /\ shown = None
    /\ owner = [l \in Logins |-> None]
    /\ completed = {}

(* The server accepts the password: the tokens are stored at once.         *)
Grant(l, u) ==
    /\ owner[l] = None
    /\ owner' = [owner EXCEPT ![l] = u]
    /\ session' = l
    /\ UNCHANGED <<shown, completed>>

(* The login learns who its tokens belong to.                              *)
Complete(l) ==
    /\ owner[l] # None
    /\ session' = l
    /\ shown' = owner[l]
    /\ completed' = completed \union {l}
    /\ UNCHANGED owner

(* The user is forgotten, the tokens are not.                              *)
Forget ==
    /\ shown' = None
    /\ UNCHANGED <<session, owner, completed>>

SignOut ==
    /\ session' = None
    /\ shown' = None
    /\ UNCHANGED <<owner, completed>>

Next ==
    \/ \E l \in Logins, u \in Users : Grant(l, u)
    \/ \E l \in Logins : Complete(l)
    \/ Forget
    \/ SignOut

Spec == Init /\ [][Next]_vars

-----------------------------------------------------------------------------
(* With no session nobody is shown; with one, the user shown is its owner  *)
(* unless the login behind the tokens never completed; and whoever is      *)
(* shown completed a login in this browser.                                *)
SessionCoherent ==
    /\ session = None => shown = None
    /\ session # None =>
          shown \in {None, owner[session]} \/ session \notin completed
    /\ shown # None => \E l \in completed : owner[l] = shown
=============================================================================
