------------------------------ MODULE MCTimers ------------------------------
(* Small instances of Timers. *)
EXTENDS Timers, TLC
=============================================================================
