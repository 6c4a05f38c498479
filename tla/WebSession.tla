----------------------------- MODULE WebSession -----------------------------
(***************************************************************************)
(* The session of the web client: the keys access_token, refresh_token and *)
(* user of the browser's localStorage, shared by its tabs, and the copy    *)
(* every tab keeps of them in its zustand store.                           *)
(*                                                                         *)
(* A login is two requests: POST /auth/login, whose tokens are stored as   *)
(* soon as they arrive (lib/api.ts), and GET /auth/me, after which the     *)
(* page stores the user and the tokens again.  Tabs interleave between the *)
(* two; a handler outlives the page that started it as long as its         *)
(* document does; a request may fail, a tab may be reloaded at any moment. *)
(* The access and the refresh token of a login are both written as the     *)
(* login itself; a key that is absent is None.                             *)
(***************************************************************************)
EXTENDS Naturals, FiniteSets

CONSTANTS
    Tabs,       \* the tabs of one browser
    Users,      \* the accounts that log in
    Logins,     \* the submissions of the login form (a bound)
    Account,    \* the account each of them is for
    None        \* an absent value

ASSUME SessionAssumption ==
    /\ Account \in [Logins -> Users]
    /\ None \notin Tabs
    /\ None \notin Users
    /\ None \notin Logins

VARIABLES
    access,     \* localStorage access_token
    refresh,    \* localStorage refresh_token
    user,       \* localStorage user
    store,      \* what each tab's store holds
    page,       \* where each tab is
    due,        \* tabs whose layout has mounted and has yet to hydrate
    phase,      \* how far each login has come
    tabOf,      \* the tab that submitted it
    busy,       \* the submission the mounted form of a tab waits for
    joining,    \* tabs with a registration in flight (at most one: a bound)
    current     \* history: tabs whose store was last set by the last writer
                \* of localStorage or read from it since

storage == <<access, refresh, user>>
vars == <<access, refresh, user, store, page, due, phase,
          tabOf, busy, joining, current>>

Pages == {"root", "login", "register", "inside"}
(* A login ends "refused" before its tokens came, "torn" after they did.   *)
Phases == {"unused", "sent", "granted", "completed", "refused", "torn"}
MaybeLogin == Logins \union {None}
MaybeUser == Users \union {None}

Store == [user : MaybeUser, access : MaybeLogin, refresh : MaybeLogin,
          authed : BOOLEAN, mounted : BOOLEAN]

(* The store of a document that has just been loaded.                      *)
EmptyStore == [user |-> None, access |-> None, refresh |-> None,
               authed |-> FALSE, mounted |-> FALSE]

Init ==
    /\ access = None /\ refresh = None /\ user = None
    /\ store = [t \in Tabs |-> EmptyStore]
    /\ page = [t \in Tabs |-> "login"]
    /\ due = {}
    /\ phase = [l \in Logins |-> "unused"]
    /\ tabOf = [l \in Logins |-> None]
    /\ busy = [t \in Tabs |-> None]
    /\ joining = {}
    /\ current = Tabs

-----------------------------------------------------------------------------
(* The writers of the store (lib/store.ts), as functions on a store.       *)

Hydrated(s) == [s EXCEPT !.user = user, !.access = access, !.refresh = refresh,
                         !.authed = access # None, !.mounted = TRUE]

WithUser(s, u) == [s EXCEPT !.user = u, !.authed = u # None]

WithTokens(s, l) == [s EXCEPT !.access = l, !.refresh = l, !.authed = TRUE]

(* Mutant: the tokens go, the user stays in the store.                     *)
SignedOutTokens(s) == [s EXCEPT !.access = None, !.refresh = None, !.authed = FALSE]

SignedOut(s) == [s EXCEPT !.user = None, !.access = None, !.refresh = None,
                          !.authed = FALSE]

Cut(p) == CASE p = "sent" -> "refused" [] p = "granted" -> "torn" [] OTHER -> p

(* Mutant: what a form waits for is kept outside the form.                 *)
GotoStillBusy(t, p) ==
    /\ page' = [page EXCEPT ![t] = p]
    /\ busy' = busy
    /\ due' = IF p # "inside" THEN due \ {t}
              ELSE IF page[t] = "inside" THEN due
              ELSE due \union {t}

(* A client-side navigation of tab t: the form it leaves is unmounted, and *)
(* a layout that was not mounted before has its hydrate effect to run.     *)
Goto(t, p) ==
    /\ page' = [page EXCEPT ![t] = p]
    /\ busy' = [busy EXCEPT ![t] = None]
    /\ due' = IF p # "inside" THEN due \ {t}
              ELSE IF page[t] = "inside" THEN due
              ELSE due \union {t}

-----------------------------------------------------------------------------
(* The address bar or a reload: a new document with an empty store.  The   *)
(* handlers of the old document go with it.                                *)
Load(t, p) ==
    /\ page' = [page EXCEPT ![t] = p]
    /\ store' = [store EXCEPT ![t] = EmptyStore]
    /\ due' = IF p \in {"root", "inside"} THEN due \union {t} ELSE due \ {t}
    /\ phase' = [l \in Logins |->
                    IF tabOf[l] = t THEN Cut(phase[l]) ELSE phase[l]]
    /\ busy' = [busy EXCEPT ![t] = None]
    /\ joining' = joining \ {t}
    /\ current' = IF storage = <<None, None, None>> THEN current \union {t}
                  ELSE current \ {t}
    /\ UNCHANGED <<access, refresh, user, tabOf>>

(* The mount effects of the layout.  The second one still sees the store   *)
(* as it was rendered: a store that was mounted and signed out before it   *)
(* was hydrated sends the tab to the login page, tokens or not.            *)
Hydrate(t) ==
    /\ t \in due
    /\ store' = [store EXCEPT ![t] = Hydrated(@)]
    /\ page' = [page EXCEPT ![t] =
                   IF @ = "inside" /\ store[t].mounted /\ ~store[t].authed
                   THEN "login" ELSE @]
    /\ due' = due \ {t}
    /\ current' = current \union {t}
    /\ UNCHANGED <<access, refresh, user, phase, tabOf, busy,
                   joining>>

(* A mounted layout without a session leaves for the login page.           *)
Redirect(t) ==
    /\ page[t] = "inside" /\ t \notin due
    /\ store[t].mounted /\ ~store[t].authed
    /\ Goto(t, "login")
    /\ UNCHANGED <<access, refresh, user, store, phase, tabOf, joining,
                   current>>

(* The landing page goes on to the dashboard or to the login page.         *)
Land(t) ==
    /\ page[t] = "root" /\ store[t].mounted
    /\ Goto(t, IF store[t].authed THEN "inside" ELSE "login")
    /\ UNCHANGED <<access, refresh, user, store, phase, tabOf, joining,
                   current>>

(* The links between the two forms.                                        *)
Follow(t) ==
    /\ page[t] \in {"login", "register"}
    /\ Goto(t, IF page[t] = "login" THEN "register" ELSE "login")
    /\ UNCHANGED <<access, refresh, user, store, phase, tabOf, joining,
                   current>>

(* The back button, from a form to an inside page of the same document,    *)
(* which has hydrated the store: only those pages and the landing page do. *)
Back(t) ==
    /\ page[t] \in {"login", "register"} /\ store[t].mounted
    /\ Goto(t, "inside")
    /\ UNCHANGED <<access, refresh, user, store, phase, tabOf, joining,
                   current>>

-----------------------------------------------------------------------------
(* The login form is submitted; its button is disabled while it waits.     *)
SubmitLogin(t, l) ==
    /\ page[t] = "login" /\ busy[t] = None
    /\ phase[l] = "unused"
    /\ phase' = [phase EXCEPT ![l] = "sent"]
    /\ tabOf' = [tabOf EXCEPT ![l] = t]
    /\ busy' = [busy EXCEPT ![t] = l]
    /\ UNCHANGED <<access, refresh, user, store, page, due, joining,
                   current>>

(* The tokens arrive: they go to localStorage at once, not to the store,   *)
(* and GET /auth/me leaves with them.                                      *)
Granted(l) ==
    /\ phase[l] = "sent"
    /\ access' = l
    /\ refresh' = l
    /\ phase' = [phase EXCEPT ![l] = "granted"]
    /\ current' = {}
    /\ UNCHANGED <<user, store, page, due, tabOf, busy, joining>>

(* Mutant: the tokens are not stored a second time.                        *)
CompletedInStore(l) ==
    LET t == tabOf[l]
        s == WithTokens(WithUser(store[t], Account[l]), l)
    IN  /\ phase[l] = "granted"
        /\ user' = Account[l]
        /\ store' = [store EXCEPT ![t] = s]
        /\ phase' = [phase EXCEPT ![l] = "completed"]
        /\ current' = {t}
        /\ Goto(t, "inside")
        /\ UNCHANGED <<access, refresh, tabOf, joining>>

(* The user arrives: setUser, setTokens and the way to the dashboard, all  *)
(* in the one turn of the event loop.                                      *)
Completed(l) ==
    LET t == tabOf[l]
        s == WithTokens(WithUser(store[t], Account[l]), l)
    IN  /\ phase[l] = "granted"
        /\ user' = Account[l]
        /\ access' = l
        /\ refresh' = l
        /\ store' = [store EXCEPT ![t] = s]
        /\ phase' = [phase EXCEPT ![l] = "completed"]
        /\ current' = {t}
        /\ Goto(t, "inside")
        /\ UNCHANGED <<tabOf, joining>>

(* Either request fails: a toast, and nothing that was stored is undone.   *)
Failed(l) ==
    /\ phase[l] \in {"sent", "granted"}
    /\ phase' = [phase EXCEPT ![l] = Cut(@)]
    /\ busy' = [t \in Tabs |-> IF busy[t] = l THEN None ELSE busy[t]]
    /\ UNCHANGED <<access, refresh, user, store, page, due,
                   tabOf, joining, current>>

(* The registration form, its two passwords equal.                         *)
SubmitRegister(t) ==
    /\ page[t] = "register" /\ joining = {}
    /\ joining' = {t}
    /\ UNCHANGED <<access, refresh, user, store, page, due, phase,
                   tabOf, busy, current>>

(* The gateway answers a registration with an id and no user: setUser gets *)
(* undefined, and reading the missing tokens throws before setTokens.      *)
Registered(t) ==
    /\ t \in joining
    /\ user' = None
    /\ store' = [store EXCEPT ![t] = WithUser(@, None)]
    /\ joining' = joining \ {t}
    /\ current' = IF user = None THEN current ELSE current \intersect {t}
    /\ UNCHANGED <<access, refresh, page, due, phase, tabOf,
                   busy>>

RegisterFailed(t) ==
    /\ t \in joining
    /\ joining' = joining \ {t}
    /\ UNCHANGED <<access, refresh, user, store, page, due, phase,
                   tabOf, busy, current>>

(* The button of the sidebar: the three keys and the store, no request.    *)
Logout(t) ==
    /\ page[t] = "inside" /\ t \notin due /\ store[t].mounted
    /\ access' = None /\ refresh' = None /\ user' = None
    /\ store' = [store EXCEPT ![t] = SignedOut(@)]
    /\ current' = {t}
    /\ Goto(t, "login")
    /\ UNCHANGED <<phase, tabOf, joining>>

-----------------------------------------------------------------------------
TabStep(t) ==
    \/ \E p \in Pages : Load(t, p)
    \/ Hydrate(t)
    \/ Redirect(t)
    \/ Land(t)
    \/ Follow(t)
    \/ Back(t)
    \/ \E l \in Logins : SubmitLogin(t, l)
    \/ SubmitRegister(t)
    \/ Registered(t)
    \/ RegisterFailed(t)
    \/ Logout(t)

LoginStep(l) == Granted(l) \/ Completed(l) \/ Failed(l)

Next ==
    \/ \E t \in Tabs : TabStep(t)
    \/ \E l \in Logins : LoginStep(l)

Spec == Init /\ [][Next]_vars

-----------------------------------------------------------------------------
(* Every variable has its type, and a form waits only for a request that   *)
(* is on its way, and only while it is there.                              *)
TypeOK ==
    /\ access \in MaybeLogin /\ refresh \in MaybeLogin /\ user \in MaybeUser
    /\ store \in [Tabs -> Store]
    /\ page \in [Tabs -> Pages]
    /\ due \subseteq Tabs
    /\ phase \in [Logins -> Phases]
    /\ tabOf \in [Logins -> Tabs \union {None}]
    /\ busy \in [Tabs -> MaybeLogin]
    /\ \A t \in Tabs : busy[t] # None =>
          page[t] = "login" /\ phase[busy[t]] \in {"sent", "granted"}
    /\ joining \subseteq Tabs /\ current \subseteq Tabs

(* The three keys of localStorage fit each other however tabs interleave:  *)
(* the tokens come from one login, there is no user without tokens, and a  *)
(* user who is not the tokens' owner betrays a login that has not ended    *)
(* or was cut short after its tokens were stored (authApi.login).          *)
StorageCoherent ==
    /\ access = refresh
    /\ access = None => user = None
    /\ access # None /\ user \notin {None, Account[access]} =>
          phase[access] \in {"granted", "torn"}

(* No tab and no key ever shows a user whose login was not completed: a    *)
(* failed or torn login never puts its own user on a page (login page,     *)
(* hydrate).                                                               *)
ShownSignedIn ==
    \A u \in Users :
        (user = u \/ \E t \in Tabs : store[t].user = u) =>
            \E l \in Logins : phase[l] = "completed" /\ Account[l] = u

(* A tab that wrote last, or read since, holds what every request will be  *)
(* sent with: a page never shows one account and calls as another unless   *)
(* another tab has logged in or out behind its back, or a login of its own *)
(* was cut short (there is no listener of the storage event).              *)
TabsShowStorage ==
    \A t \in current :
        store[t].user = user /\ store[t].access = access /\ store[t].refresh = refresh

(* A store counts as signed in only with tokens to send.                   *)
SignedInHoldsTokens ==
    \A t \in Tabs :
        store[t].authed => store[t].access # None /\ store[t].refresh = store[t].access

(* The logins of the browser are those BrowserLogin allows.                *)
Held == {"granted", "completed", "torn"}

B == INSTANCE BrowserLogin WITH
        session <- access,
        shown <- user,
        owner <- [l \in Logins |-> IF phase[l] \in Held THEN Account[l] ELSE None],
        completed <- {l \in Logins : phase[l] = "completed"}

ImplementsBrowserLogin == B!Spec
=============================================================================
