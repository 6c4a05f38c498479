---------------------------- MODULE MCNotification ----------------------------
(***************************************************************************)
(* Finite instances of Notification for TLC.                               *)
(***************************************************************************)
EXTENDS Notification
=============================================================================
