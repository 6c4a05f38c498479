---------------------------- MODULE MCAuthSessions ----------------------------
(***************************************************************************)
(* Finite instances of AuthSessions for TLC.                               *)
(***************************************************************************)
EXTENDS AuthSessions, TLC

\* The workload that edits a profile while the password changes; nothing fails.
MCProfile == {"Register", "Login", "UpdateProfile", "ChangePassword"}

\* Goroutines, users, passwords, sessions and codes are interchangeable.
MCSymmetry == Permutations(Handlers) \union Permutations(Users) \union Permutations(Passwords)
                \union Permutations(Sessions) \union Permutations(Codes)
=============================================================================
