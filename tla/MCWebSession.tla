---------------------------- MODULE MCWebSession ----------------------------
(* Two tabs of one browser, two accounts and a few logins.                 *)
EXTENDS WebSession

CONSTANTS tab1, tab2, ann, bob, l1, l2

(* The two submissions are for different accounts.                         *)
MCAccount == [l \in {l1, l2} |-> IF l = l1 THEN ann ELSE bob]
=============================================================================
