-------------------------- MODULE PersistRefinement --------------------------
(***************************************************************************)
(* ConversationPersist implements DurableStore.  `since` is a history      *)
(* variable: what each conversation has been since the store last held it  *)
(* for saved.  No action reads it.                                         *)
(***************************************************************************)
EXTENDS ConversationPersist

VARIABLE since

(* While the process is down, a conversation is what load would make of it. *)
Value == [i \in Ids |-> IF loaded THEN memory[i] ELSE Durable(i)]

Status == [i \in Ids |->
  IF ~loaded THEN "safe"
  ELSE IF {i, Index} \cap raced # {} THEN "doubtful"
  ELSE IF i \in dirty \cup deleted THEN "pending" ELSE "safe"]

Store == INSTANCE DurableStore
           WITH Keys <- Ids, Values <- Versions, None <- 0,
                up <- loaded, value <- Value, status <- Status

HInit == Init /\ since = [i \in Ids |-> {0}]
HNext == Next /\ since' = Store!Since(Value', Status', since)

HSpec == HInit /\ [][HNext]_<<vars, since>>
FairHSpec == HSpec /\ Fairness

(* A crash leaves every conversation as it was at some moment since the    *)
(* store last held it for saved: shards and index are written one after    *)
(* the other by two kinds of flush, and still no order of their steps and  *)
(* no failing write mixes the two, loses a conversation or brings an older *)
(* version back (the two races of ConversationPersist excepted).           *)
ImplementsDurableStore == Store!DurableSpec
=============================================================================
