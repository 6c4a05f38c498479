---------------------------- MODULE MCOutboxRelay ----------------------------
(***************************************************************************)
(* Finite instances of OutboxRelay for TLC.                                *)
(***************************************************************************)
EXTENDS OutboxRelay
=============================================================================
