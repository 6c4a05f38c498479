--------------------------- MODULE WebSessionProofs ---------------------------
(***************************************************************************)
(* Proofs about WebSession, for any tabs, accounts and logins.  The        *)
(* inductive invariant adds to the types who submitted a login: a form     *)
(* waits only for a submission of its own tab, so that the end of one tab  *)
(* or of one login disturbs no other form.                                 *)
(***************************************************************************)
EXTENDS WebSession, TLAPS

(* A login that was submitted has its tab, and a form waits for its own.   *)
LoginsHaveTabs ==
    /\ \A l \in Logins : phase[l] # "unused" => tabOf[l] \in Tabs
    /\ \A t \in Tabs : busy[t] # None => tabOf[busy[t]] = t

TypeInv == TypeOK /\ LoginsHaveTabs

USE DEF MaybeLogin, MaybeUser, Pages, Phases

(* The fields of a store after each of its writers.                        *)
LEMMA StoreFields ==
    ASSUME NEW s \in Store, NEW u, NEW l
    PROVE  /\ Hydrated(s).user = user /\ Hydrated(s).access = access
           /\ Hydrated(s).refresh = refresh
           /\ Hydrated(s).authed = (access # None)
           /\ WithUser(s, u).user = u /\ WithUser(s, u).authed = (u # None)
           /\ WithUser(s, u).access = s.access
           /\ WithUser(s, u).refresh = s.refresh
           /\ SignedOut(s).user = None /\ SignedOut(s).authed = FALSE
           /\ SignedOut(s).access = None /\ SignedOut(s).refresh = None
BY DEF Store, Hydrated, WithUser, SignedOut

(* What each writer returns is a store.                                    *)
LEMMA StoresTyped ==
    ASSUME TypeOK, NEW s \in Store
    PROVE  /\ EmptyStore \in Store
           /\ Hydrated(s) \in Store
           /\ SignedOut(s) \in Store
           /\ \A u \in MaybeUser : WithUser(s, u) \in Store
           /\ \A l \in Logins : WithTokens(s, l) \in Store
BY DEF TypeOK, Store, EmptyStore, Hydrated, WithUser, WithTokens, SignedOut

LEMMA CutTyped ==
    ASSUME NEW p \in Phases
    PROVE  /\ Cut(p) \in Phases
           /\ Cut(p) = "unused" <=> p = "unused"
           /\ Cut(p) = "completed" <=> p = "completed"
           /\ Cut(p) \in Held <=> p \in Held
           /\ p \in {"granted", "torn"} => Cut(p) \in {"granted", "torn"}
BY DEF Cut, Held

LEMMA TypeInit == Init => TypeInv
BY SessionAssumption DEF Init, TypeInv, TypeOK, LoginsHaveTabs, Store, EmptyStore

(* Every action keeps the types, and the forms to their logins.            *)
LEMMA TypeStep ==
    TypeInv /\ [Next]_vars => TypeInv'
<1> SUFFICES ASSUME TypeInv, [Next]_vars PROVE TypeInv'
    OBVIOUS
<1> USE SessionAssumption DEF TypeInv, TypeOK, LoginsHaveTabs
<1>1. ASSUME NEW t \in Tabs, NEW p \in Pages, Load(t, p) PROVE TypeInv'
    <2>1. EmptyStore \in Store BY DEF Store, EmptyStore
    <2>2. \A l \in Logins : phase'[l] \in Phases
                            /\ (phase'[l] = "unused" <=> phase[l] = "unused")
                            /\ (tabOf[l] # t => phase'[l] = phase[l])
        BY <1>1, CutTyped DEF Load
    <2>3. \A x \in Tabs : busy'[x] # None => x # t /\ busy'[x] = busy[x]
        BY <1>1 DEF Load
    <2>4. phase' \in [Logins -> Phases] BY <1>1, <2>2 DEF Load
    <2>5. LoginsHaveTabs' BY <1>1, <2>2, <2>3 DEF Load
    <2>6. (\A x \in Tabs : busy[x] # None => page[x] = "login"
                /\ phase[busy[x]] \in {"sent", "granted"})'
        BY <1>1, <2>2, <2>3 DEF Load
    <2>7. /\ access' = access /\ refresh' = refresh /\ user' = user
          /\ store' \in [Tabs -> Store] /\ page' \in [Tabs -> Pages]
          /\ due' \subseteq Tabs /\ joining' \subseteq Tabs /\ current' \subseteq Tabs
          /\ tabOf' = tabOf /\ busy' \in [Tabs -> MaybeLogin]
        BY <1>1, <2>1 DEF Load
    <2> QED BY <2>4, <2>5, <2>6, <2>7
<1>2. ASSUME NEW t \in Tabs, Hydrate(t) PROVE TypeInv'
    <2>1. Hydrated(store[t]) \in Store BY StoresTyped
    <2>2. store' \in [Tabs -> Store] BY <1>2, <2>1 DEF Hydrate
    <2>3. \A x \in Tabs : page[x] = "login" => page'[x] = "login" BY <1>2 DEF Hydrate
    <2> QED BY <1>2, <2>2, <2>3 DEF Hydrate
<1>3. ASSUME NEW t \in Tabs, Redirect(t) \/ Land(t) \/ Follow(t) \/ Back(t) PROVE TypeInv'
    <2>1. PICK p \in Pages : Goto(t, p) BY <1>3 DEF Redirect, Land, Follow, Back
    <2>2. UNCHANGED <<access, refresh, user, store, phase, tabOf, joining, current>>
        BY <1>3 DEF Redirect, Land, Follow, Back
    <2> QED BY <2>1, <2>2 DEF Goto
<1>4. ASSUME NEW t \in Tabs, NEW l \in Logins, SubmitLogin(t, l) PROVE TypeInv'
    BY <1>4 DEF SubmitLogin
<1>5. ASSUME NEW t \in Tabs, SubmitRegister(t) \/ RegisterFailed(t) PROVE TypeInv'
    BY <1>5 DEF SubmitRegister, RegisterFailed
<1>6. ASSUME NEW t \in Tabs, Registered(t) PROVE TypeInv'
    <2>1. WithUser(store[t], None) \in Store BY StoresTyped
    <2> QED BY <1>6, <2>1 DEF Registered
<1>7. ASSUME NEW t \in Tabs, Logout(t) PROVE TypeInv'
    <2>1. SignedOut(store[t]) \in Store BY StoresTyped
    <2> QED BY <1>7, <2>1 DEF Logout, Goto
<1>8. ASSUME NEW l \in Logins, Granted(l) PROVE TypeInv'
    BY <1>8 DEF Granted
<1>9. ASSUME NEW l \in Logins, Completed(l) PROVE TypeInv'
    <2> DEFINE t == tabOf[l]
    <2>1. t \in Tabs BY <1>9 DEF Completed
    <2>2. Account[l] \in MaybeUser OBVIOUS
    <2>3. WithUser(store[t], Account[l]) \in Store BY <2>1, <2>2, StoresTyped
    <2>4. WithTokens(WithUser(store[t], Account[l]), l) \in Store BY <2>2, <2>3, StoresTyped
    <2>5. /\ store' \in [Tabs -> Store] /\ user' \in MaybeUser
          /\ phase' = [phase EXCEPT ![l] = "completed"]
          /\ access' = l /\ refresh' = l /\ current' = {t}
          /\ UNCHANGED <<tabOf, joining>> /\ Goto(t, "inside")
        BY <1>9, <2>1, <2>2, <2>4 DEF Completed
    <2>6. \A x \in Tabs : busy'[x] # None => x # t /\ busy'[x] = busy[x] /\ busy[x] # l
        BY <2>1, <2>5 DEF Goto
    <2> QED BY <2>1, <2>5, <2>6 DEF Goto
<1>10. ASSUME NEW l \in Logins, Failed(l) PROVE TypeInv'
    <2>1. Cut(phase[l]) \in Phases /\ (Cut(phase[l]) = "unused" <=> phase[l] = "unused")
        BY CutTyped
    <2>2. \A x \in Tabs : busy'[x] # None => busy'[x] = busy[x] /\ busy[x] # l
        BY <1>10 DEF Failed
    <2> QED BY <1>10, <2>1, <2>2 DEF Failed
<1>11. CASE UNCHANGED vars BY <1>11 DEF vars
<1> QED BY <1>1, <1>2, <1>3, <1>4, <1>5, <1>6, <1>7, <1>8, <1>9, <1>10, <1>11
        DEF Next, TabStep, LoginStep

(* Every behaviour of the client is well typed, and no form waits for a    *)
(* request that is over.                                                   *)
THEOREM TypeCorrect == Spec => []TypeOK
<1>1. Spec => []TypeInv
    BY TypeInit, TypeStep, PTL DEF Spec
<1>2. TypeInv => TypeOK BY DEF TypeInv
<1> QED BY <1>1, <1>2, PTL

-----------------------------------------------------------------------------
(* The storage.  No tab reads what another is about to write: each write   *)
(* leaves the three keys fitting, and empties current of all other tabs.   *)
StorageInv == StorageCoherent /\ TabsShowStorage /\ ShownSignedIn /\ SignedInHoldsTokens

LEMMA StorageInit == Init => StorageInv
BY SessionAssumption DEF Init, StorageInv, StorageCoherent, TabsShowStorage,
   ShownSignedIn, SignedInHoldsTokens, EmptyStore

(* Only these change a key, a store, the end of a login, or who is current. *)
LEMMA StorageKept ==
    ASSUME StorageInv, UNCHANGED <<access, refresh, user, store, phase, current>>
    PROVE  StorageInv'
BY DEF StorageInv, StorageCoherent, TabsShowStorage, ShownSignedIn, SignedInHoldsTokens

LEMMA StorageStep == TypeInv /\ StorageInv /\ [Next]_vars => StorageInv'
<1> SUFFICES ASSUME TypeInv, StorageInv, [Next]_vars PROVE StorageInv'
    OBVIOUS
<1> USE SessionAssumption
    DEF TypeInv, TypeOK, LoginsHaveTabs, StorageInv, StorageCoherent,
        TabsShowStorage, ShownSignedIn, SignedInHoldsTokens
<1>1. ASSUME NEW t \in Tabs, NEW p \in Pages, Load(t, p) PROVE StorageInv'
    <2>1. \A l \in Logins : /\ phase[l] = "completed" => phase'[l] = "completed"
                            /\ phase[l] \in {"granted", "torn"} =>
                                   phase'[l] \in {"granted", "torn"}
        BY <1>1, CutTyped DEF Load
    <2>2. \A x \in Tabs : store'[x] = IF x = t THEN EmptyStore ELSE store[x]
        BY <1>1 DEF Load
    <2>3. UNCHANGED <<access, refresh, user>>
          /\ current' = IF storage = <<None, None, None>> THEN current \union {t}
                        ELSE current \ {t}
        BY <1>1 DEF Load
    <2>4. StorageCoherent' BY <2>1, <2>3
    <2>5. TabsShowStorage' BY <2>2, <2>3 DEF storage, EmptyStore
    <2>6. ShownSignedIn' BY <2>1, <2>2, <2>3 DEF EmptyStore
    <2>7. SignedInHoldsTokens' BY <2>2 DEF EmptyStore
    <2> QED BY <2>4, <2>5, <2>6, <2>7
<1>2. ASSUME NEW t \in Tabs, Hydrate(t) PROVE StorageInv'
    <2>1. UNCHANGED <<access, refresh, user, phase>> /\ current' = current \union {t}
        BY <1>2 DEF Hydrate
    <2>2. \A x \in Tabs : store'[x] = IF x = t THEN Hydrated(store[t]) ELSE store[x]
        BY <1>2 DEF Hydrate
    <2>3. /\ Hydrated(store[t]).user = user /\ Hydrated(store[t]).access = access
          /\ Hydrated(store[t]).refresh = refresh
          /\ Hydrated(store[t]).authed = (access # None)
        BY StoreFields
    <2> current \subseteq Tabs OBVIOUS
    <2> HIDE DEF TypeInv, TypeOK, LoginsHaveTabs
    <2>4. StorageCoherent' BY <2>1
    <2>5. TabsShowStorage' BY <2>1, <2>2, <2>3
    <2>6. ShownSignedIn' BY <2>1, <2>2, <2>3
    <2>7. SignedInHoldsTokens' BY <2>2, <2>3
    <2> QED BY <2>4, <2>5, <2>6, <2>7
<1>3. ASSUME NEW t \in Tabs,
             \/ Redirect(t) \/ Land(t) \/ Follow(t) \/ Back(t)
             \/ SubmitRegister(t) \/ RegisterFailed(t)
      PROVE  StorageInv'
    BY <1>3, StorageKept DEF Redirect, Land, Follow, Back, SubmitRegister, RegisterFailed
<1>4. ASSUME NEW t \in Tabs, NEW l \in Logins, SubmitLogin(t, l) PROVE StorageInv'
    <2>1. \A m \in Logins : phase[m] \in {"granted", "torn", "completed"} =>
                             phase'[m] = phase[m]
        BY <1>4 DEF SubmitLogin
    <2> QED BY <1>4, <2>1 DEF SubmitLogin
<1>5. ASSUME NEW t \in Tabs, Registered(t) PROVE StorageInv'
    <2>1. /\ UNCHANGED <<access, refresh, phase>> /\ user' = None
          /\ current' = IF user = None THEN current ELSE current \intersect {t}
        BY <1>5 DEF Registered
    <2>2. \A x \in Tabs : store'[x] = IF x = t THEN WithUser(store[t], None) ELSE store[x]
        BY <1>5 DEF Registered
    <2>3. /\ WithUser(store[t], None).user = None
          /\ WithUser(store[t], None).access = store[t].access
          /\ WithUser(store[t], None).refresh = store[t].refresh
          /\ WithUser(store[t], None).authed = FALSE
        <3>1. store[t] \in Store OBVIOUS
        <3> HIDE DEF TypeInv, TypeOK, LoginsHaveTabs
        <3> QED BY <3>1, StoreFields
    <2> current \subseteq Tabs OBVIOUS
    <2> HIDE DEF TypeInv, TypeOK, LoginsHaveTabs
    <2>4. StorageCoherent' BY <2>1
    <2>5. TabsShowStorage' BY <2>1, <2>2, <2>3
    <2>6. ShownSignedIn' BY <2>1, <2>2, <2>3
    <2>7. SignedInHoldsTokens' BY <2>2, <2>3
    <2> QED BY <2>4, <2>5, <2>6, <2>7
<1>6. ASSUME NEW t \in Tabs, Logout(t) PROVE StorageInv'
    <2>1. /\ access' = None /\ refresh' = None /\ user' = None
          /\ phase' = phase /\ current' = {t}
        BY <1>6 DEF Logout
    <2>2. \A x \in Tabs : store'[x] = IF x = t THEN SignedOut(store[t]) ELSE store[x]
        BY <1>6 DEF Logout
    <2>3. /\ SignedOut(store[t]).user = None /\ SignedOut(store[t]).access = None
          /\ SignedOut(store[t]).refresh = None /\ SignedOut(store[t]).authed = FALSE
        BY StoreFields
    <2> HIDE DEF TypeInv, TypeOK, LoginsHaveTabs
    <2> QED BY <2>1, <2>2, <2>3
<1>7. ASSUME NEW l \in Logins, Granted(l) PROVE StorageInv'
    <2>1. /\ access' = l /\ refresh' = l /\ UNCHANGED <<user, store>> /\ current' = {}
          /\ \A m \in Logins : phase'[m] = IF m = l THEN "granted" ELSE phase[m]
          /\ phase[l] = "sent"
        BY <1>7 DEF Granted
    <2> QED BY <2>1
<1>8. ASSUME NEW l \in Logins, Completed(l) PROVE StorageInv'
    <2> DEFINE t == tabOf[l]
               s == WithTokens(WithUser(store[t], Account[l]), l)
    <2>1. t \in Tabs BY <1>8 DEF Completed
    <2>2. /\ access' = l /\ refresh' = l /\ user' = Account[l] /\ current' = {t}
          /\ \A m \in Logins : phase'[m] = IF m = l THEN "completed" ELSE phase[m]
          /\ store' = [store EXCEPT ![t] = s]
        BY <1>8 DEF Completed
    <2>3. /\ s.user = Account[l] /\ s.access = l /\ s.refresh = l /\ s.authed = TRUE
        BY <2>1 DEF WithTokens, WithUser, Store
    <2> HIDE DEF s
    <2>4. \A x \in Tabs : store'[x] = IF x = t THEN s ELSE store[x] BY <2>2
    <2> HIDE DEF TypeInv, TypeOK, LoginsHaveTabs, t
    <2>5. Account[l] \in Users OBVIOUS
    <2>6. StorageCoherent' BY <2>2
    <2>7. TabsShowStorage' BY <2>1, <2>2, <2>3, <2>4
    <2>8. ShownSignedIn' BY <2>2, <2>3, <2>4, <2>5
    <2>9. SignedInHoldsTokens' BY <2>3, <2>4
    <2> QED BY <2>6, <2>7, <2>8, <2>9
<1>9. ASSUME NEW l \in Logins, Failed(l) PROVE StorageInv'
    <2>1. \A m \in Logins : /\ phase[m] = "completed" => phase'[m] = "completed"
                            /\ phase[m] \in {"granted", "torn"} =>
                                   phase'[m] \in {"granted", "torn"}
        BY <1>9, CutTyped DEF Failed
    <2>2. UNCHANGED <<access, refresh, user, store, current>> BY <1>9 DEF Failed
    <2> QED BY <2>1, <2>2
<1>10. CASE UNCHANGED vars BY <1>10, StorageKept DEF vars
<1> QED BY <1>1, <1>2, <1>3, <1>4, <1>5, <1>6, <1>7, <1>8, <1>9, <1>10
        DEF Next, TabStep, LoginStep

LEMMA StorageAlways == Spec => [](TypeInv /\ StorageInv)
<1>1. Spec => []TypeInv BY TypeInit, TypeStep, PTL DEF Spec
<1>2. TypeInv /\ StorageInv /\ [Next]_vars => StorageInv' BY StorageStep
<1> QED BY <1>1, <1>2, StorageInit, PTL DEF Spec

(* The keys of localStorage fit each other, however tabs interleave.       *)
THEOREM StorageIsCoherent == Spec => []StorageCoherent
<1>1. StorageInv => StorageCoherent BY DEF StorageInv
<1> QED BY <1>1, StorageAlways, PTL

(* A tab that wrote last, or has read since, shows whom it calls as.       *)
THEOREM TabsShowTheirAccount == Spec => []TabsShowStorage
<1>1. StorageInv => TabsShowStorage BY DEF StorageInv
<1> QED BY <1>1, StorageAlways, PTL

(* Nobody is shown whose login was not completed.                          *)
THEOREM ShownAreSignedIn == Spec => []ShownSignedIn
<1>1. StorageInv => ShownSignedIn BY DEF StorageInv
<1> QED BY <1>1, StorageAlways, PTL

(* A store counts as signed in only with tokens to send.                   *)
THEOREM SignedInHaveTokens == Spec => []SignedInHoldsTokens
<1>1. StorageInv => SignedInHoldsTokens BY DEF StorageInv
<1> QED BY <1>1, StorageAlways, PTL

-----------------------------------------------------------------------------
(* Each step of the tabs is one of the abstract login, or none.            *)
LEMMA RefinementInit == Init => B!Init
BY DEF Init, B!Init, Held

LEMMA RefinementStep == TypeInv /\ [Next]_vars => [B!Next]_(B!vars)
<1> SUFFICES ASSUME TypeInv, [Next]_vars PROVE [B!Next]_(B!vars)
    OBVIOUS
<1> DEFINE owner == [l \in Logins |-> IF phase[l] \in Held THEN Account[l] ELSE None]
           done == {l \in Logins : phase[l] = "completed"}
<1> USE SessionAssumption DEF TypeInv, TypeOK, B!vars
(* The phase of a login may move on where the abstract login does not see. *)
<1>0. ASSUME \A l \in Logins : /\ phase'[l] \in Held <=> phase[l] \in Held
                               /\ phase'[l] = "completed" <=> phase[l] = "completed"
      PROVE  UNCHANGED <<owner, done>>
    BY <1>0
<1>1. ASSUME NEW t \in Tabs, NEW p \in Pages, Load(t, p) PROVE UNCHANGED B!vars
    <2>1. \A l \in Logins : /\ phase'[l] \in Held <=> phase[l] \in Held
                            /\ phase'[l] = "completed" <=> phase[l] = "completed"
        BY <1>1, CutTyped DEF Load
    <2> QED BY <1>0, <1>1, <2>1 DEF Load
<1>2. ASSUME NEW t \in Tabs,
             \/ Hydrate(t) \/ Redirect(t) \/ Land(t) \/ Follow(t) \/ Back(t)
             \/ SubmitRegister(t) \/ RegisterFailed(t)
      PROVE  UNCHANGED B!vars
    BY <1>2 DEF Hydrate, Redirect, Land, Follow, Back, SubmitRegister, RegisterFailed
<1>3. ASSUME NEW t \in Tabs, NEW l \in Logins, SubmitLogin(t, l) PROVE UNCHANGED B!vars
    <2>1. \A m \in Logins : /\ phase'[m] \in Held <=> phase[m] \in Held
                            /\ phase'[m] = "completed" <=> phase[m] = "completed"
        BY <1>3 DEF SubmitLogin, Held
    <2> QED BY <1>0, <1>3, <2>1 DEF SubmitLogin
<1>4. ASSUME NEW t \in Tabs, Registered(t) PROVE B!Forget
    BY <1>4 DEF Registered, B!Forget
<1>5. ASSUME NEW t \in Tabs, Logout(t) PROVE B!SignOut
    BY <1>5 DEF Logout, B!SignOut
<1>6. ASSUME NEW l \in Logins, Granted(l) PROVE B!Grant(l, Account[l])
    <2>1. owner[l] = None BY <1>6 DEF Granted, Held
    <2>2. owner' = [owner EXCEPT ![l] = Account[l]] BY <1>6 DEF Granted, Held
    <2>3. done' = done BY <1>6 DEF Granted
    <2> QED BY <1>6, <2>1, <2>2, <2>3 DEF Granted, B!Grant
<1>7. ASSUME NEW l \in Logins, Completed(l) PROVE B!Complete(l)
    <2>1. owner[l] = Account[l] /\ owner[l] # None BY <1>7 DEF Completed, Held
    <2>2. owner' = owner BY <1>7 DEF Completed, Held
    <2>3. done' = done \union {l} BY <1>7 DEF Completed
    <2> QED BY <1>7, <2>1, <2>2, <2>3 DEF Completed, B!Complete
<1>8. ASSUME NEW l \in Logins, Failed(l) PROVE UNCHANGED B!vars
    <2>1. \A m \in Logins : /\ phase'[m] \in Held <=> phase[m] \in Held
                            /\ phase'[m] = "completed" <=> phase[m] = "completed"
        BY <1>8, CutTyped DEF Failed
    <2> QED BY <1>0, <1>8, <2>1 DEF Failed
<1>9. CASE UNCHANGED vars BY <1>9 DEF vars
<1>10. \A l \in Logins : Account[l] \in Users OBVIOUS
<1> QED BY <1>1, <1>2, <1>3, <1>4, <1>5, <1>6, <1>7, <1>8, <1>9, <1>10
        DEF Next, TabStep, LoginStep, B!Next

(* The tabs together implement the one session of a browser.               *)
THEOREM ImplementsLogin == Spec => ImplementsBrowserLogin
<1>1. Spec => []TypeInv BY TypeInit, TypeStep, PTL DEF Spec
<1> QED BY <1>1, RefinementInit, RefinementStep, PTL DEF Spec, ImplementsBrowserLogin, B!Spec
=============================================================================
