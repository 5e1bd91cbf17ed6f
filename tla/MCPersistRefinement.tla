------------------------ MODULE MCPersistRefinement ------------------------
(***************************************************************************)
(* ConversationPersist with its refinement for TLC: ids and callers are    *)
(* model values.                                                           *)
(***************************************************************************)
EXTENDS PersistRefinement, TLC
=============================================================================
