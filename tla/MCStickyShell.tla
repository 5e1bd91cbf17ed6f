--------------------------- MODULE MCStickyShell ---------------------------
(* Small instances of StickyShell. *)
EXTENDS StickyShell, TLC
=============================================================================
