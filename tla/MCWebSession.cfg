\* Two tabs, two accounts, two submissions of the login form.
SPECIFICATION Spec
CONSTANTS
    tab1 = tab1  tab2 = tab2  ann = ann  bob = bob  l1 = l1  l2 = l2  None = None
    Tabs = {tab1, tab2}
    Users = {ann, bob}
    Logins = {l1, l2}
    Account <- MCAccount
INVARIANT TypeOK
INVARIANT TabsShowStorage
PROPERTY ImplementsBrowserLogin
