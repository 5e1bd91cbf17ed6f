----------------------- MODULE MCConversationPersist -----------------------
(***************************************************************************)
(* ConversationPersist for TLC: ids and callers are model values.          *)
(***************************************************************************)
EXTENDS ConversationPersist, TLC
=============================================================================
