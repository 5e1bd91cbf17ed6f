-------------------------- MODULE MCDaemonAttach --------------------------
(* DaemonAttach for TLC: its constants are given in the configurations. *)
EXTENDS DaemonAttach
=============================================================================
