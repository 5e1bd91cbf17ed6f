----------------------------- MODULE MCCliHost -----------------------------
(* CliHost for TLC: its constants are given in the configurations. *)
EXTENDS CliHost
=============================================================================
