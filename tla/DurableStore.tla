---------------------------- MODULE DurableStore ----------------------------
(***************************************************************************)
(* What a store of values promises that writes behind: values are set in   *)
(* memory, and each is safe some time after it was last set.  A crash      *)
(* leaves a safe value as it is and any other one as it was at some moment *)
(* since it was last safe, never as something it never was and never as    *)
(* something older.                                                        *)
(*                                                                         *)
(* A value in doubt is one the store holds for saved and a crash may lose: *)
(* what an implementation with a race between two writers still promises.  *)
(***************************************************************************)
CONSTANTS Keys, Values, None

VARIABLES
  up,       \* the store is loaded
  value,    \* value[i]: what the store holds, None for nothing
  status,   \* "safe", "pending" (set, not yet safe) or "doubtful"
  since     \* since[i]: what i has been since it was last safe

durableVars == <<up, value, status, since>>

DurableTypeOK ==
  /\ up \in BOOLEAN
  /\ value \in [Keys -> Values]
  /\ status \in [Keys -> {"safe", "pending", "doubtful"}]
  /\ since \in [Keys -> SUBSET Values]

(* A safe value has been nothing else since. *)
Since(v, s, before) ==
  [i \in Keys |-> IF s[i] = "safe" THEN {v[i]} ELSE before[i] \cup {v[i]}]

DurableInit ==
  /\ up = FALSE
  /\ value = [i \in Keys |-> None]
  /\ status = [i \in Keys |-> "safe"]
  /\ since = [i \in Keys |-> {None}]

(* A value is set, created or removed. *)
Set(i) ==
  /\ up /\ UNCHANGED up
  /\ \E v \in Values : value' = [value EXCEPT ![i] = v]
  /\ \E s \in {"pending", "doubtful"} : status' = [status EXCEPT ![i] = s]
  /\ since' = Since(value', status', since)

(* Writes that were under way have come to an end; one that came too late  *)
(* leaves a value in doubt.                                                *)
Write ==
  /\ up /\ UNCHANGED <<up, value>>
  /\ status' \in [Keys -> {"safe", "pending", "doubtful"}]
  /\ \A i \in Keys : status'[i] = "pending" => status[i] # "safe"
  /\ since' = Since(value, status', since)

(* The store ends, with or without a last write. *)
Crash ==
  /\ up /\ up' = FALSE
  /\ value' \in [Keys -> Values]
  /\ \A i \in Keys : status[i] # "doubtful" => value'[i] \in since[i]
  /\ status' = [i \in Keys |-> "safe"]
  /\ since' = Since(value', status', since)

(* Something else damages a stored value. *)
Damage(i) ==
  /\ ~up /\ UNCHANGED <<up, status>>
  /\ value' = [value EXCEPT ![i] = None]
  /\ since' = Since(value', status, since)

Load == ~up /\ up' = TRUE /\ UNCHANGED <<value, status, since>>

DurableNext == Write \/ Crash \/ Load \/ \E i \in Keys : Set(i) \/ Damage(i)

DurableSpec == DurableInit /\ [][DurableNext]_durableVars
=============================================================================
