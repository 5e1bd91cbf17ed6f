----------------------- MODULE PersistRefinementProofs -----------------------
(***************************************************************************)
(* ConversationPersist implements DurableStore, for every set of ids and   *)
(* callers and every bound, and what follows from the invariant that shows *)
(* it.                                                                     *)
(***************************************************************************)
EXTENDS PersistRefinement, ConversationPersistProofs

-----------------------------------------------------------------------------
(* The inductive invariant *)

(* What load would make of a shard that the index lists. *)
Parsed(i) == IF i \in corrupt THEN 0 ELSE shard[i]

(* A crash may bring i back as v. *)
MayBe(i, v) == IF i \in dirty \cup deleted THEN v \in since[i] ELSE v = memory[i]

Fit(i) == i \in raced \/ MayBe(i, Parsed(i))

(* An index may be loaded: what it lists may be what its shard is, unless   *)
(* that is still to be written, and what it does not list may be nothing.   *)
Listable(ids, later) ==
  \A i \in Ids : IF i \in ids THEN i \in later \/ Fit(i) ELSE MayBe(i, 0)

(* The flight is at a file; what it is at will take effect unnoticed. *)
OnFile(f) == flight.file = f /\ flight.at \in {"tmp", "rename", "unlink"}
Counts == (flight.at = "tmp" => flight.latest) /\ ~flight.overtaken
Runs == flight.at # "none" /\ ~flight.stale

Saves(w, i) == w.gens[i] # 0 \/ i \in w.gone
Later == {i \in Ids : i \in flight.todo \/ OnFile(i)}

(* Versions are handed out in order. *)
Aged == \A i \in Ids : memory[i] <= changes /\ shard[i] <= changes /\ flight.body[i] <= changes

FlightShape ==
  /\ flight.at = "none" => flight = NoFlush
  /\ flight.at # "writing"
  /\ ~flight.stale => flight.latest /\ ~flight.overtaken /\ flight.at # "discard"
  /\ flight.at = "unlink" => flight.file \in flight.gone
  /\ flight.at \in {"tmp", "rename"} /\ flight.file # Index => flight.gens[flight.file] # 0
  /\ flight.file = Index /\ flight.at \notin {"none", "mkdir"} => flight.todo = {} /\ flight.drop = {}
  /\ \A i \in Ids : /\ i \in flight.todo => flight.gens[i] # 0
                    /\ i \in flight.drop => i \in flight.gone
                    /\ flight.gens[i] # 0 => i \notin flight.gone /\ flight.body[i] # 0
                    /\ i \in flight.gone => flight.body[i] = 0
                    /\ flight.at # "none" => (i \in flight.ids <=> flight.body[i] # 0 \/ i \in corruptIds)

(* The store does not change while the synchronous flush runs. *)
SyncShape ==
  /\ sync.at \in {"none", "writing"}
  /\ sync.at = "none" => sync = NoFlush
  /\ sync.at = "writing" =>
       /\ flight.at = "none" \/ flight.stale
       /\ sync.body = memory /\ sync.gens = dirtyGen /\ sync.ids = Held(memory, corruptIds)
       /\ sync.gone = deleted /\ sync.todo \subseteq dirty /\ sync.drop \subseteq deleted
       /\ \A i \in (dirty \ sync.todo) \cup (deleted \ sync.drop) : i \in raced \/ Parsed(i) = memory[i]

(* What the flight has still to store is what i was since it was last safe. *)
FlightStores ==
  \A i \in Ids :
    /\ (Runs /\ Saves(flight, i)) \/ (OnFile(i) /\ Counts) =>
         i \in dirty \cup deleted /\ flight.body[i] \in since[i]
    /\ OnFile(i) /\ Counts /\ sync.at = "writing" => i \in sync.todo \cup sync.drop

(* What it has stored is there. *)
FlightStored ==
  Runs =>
    /\ \A i \in Ids : Saves(flight, i) /\ i \notin flight.todo \cup flight.drop /\ ~OnFile(i) =>
         Parsed(i) = flight.body[i]
    /\ flight.file = Index /\ flight.at = "renamed" => index = flight.ids

(* A generation that it finds unchanged is that of an unchanged id. *)
FlightKnows ==
  Runs => \A i \in Ids : flight.gens[i] # 0 =>
    /\ memory[i] = flight.body[i] => dirtyGen[i] = flight.gens[i]
    /\ i \notin raced /\ memory[i] # 0 =>
         dirtyGen[i] >= flight.gens[i] /\ (dirtyGen[i] = flight.gens[i] => memory[i] = flight.body[i])

(* What the flight's index lists is a conversation, or gone or set aside. *)
FlightLists ==
  Runs \/ (OnFile(Index) /\ Counts) =>
    \A i \in flight.ids : i \in dirty \cup deleted \cup corruptIds \/ memory[i] # 0

FlightIndex ==
  /\ Runs => Listable(flight.ids, Later)
  /\ OnFile(Index) => \A i \in flight.ids : Fit(i)
  /\ OnFile(Index) /\ Counts => Listable(flight.ids, {})

FlightOK == FlightShape /\ FlightStores /\ FlightStored /\ FlightKnows /\ FlightLists /\ FlightIndex

IndexOK == Index \notin raced => Listable(index, {})

HeldIsFit == \A i \in Ids : (memory[i] # 0 /\ i \notin dirty) \/ i \in corruptIds => Fit(i)

(* An id without a conversation that is listed has no file. *)
Vacant ==
  Index \notin raced =>
    \A i \in index \ (corruptIds \cup dirty \cup deleted) : memory[i] = 0 =>
      shard[i] = 0 /\ i \notin setAside /\ ~Saves(flight, i)

Kept == \A i \in Ids : memory[i] \in since[i]

HInv ==
  /\ IInv /\ since \in [Ids -> SUBSET Versions] /\ \A i \in Ids : shard[i] <= changes
  /\ ~loaded => raced = {}
  /\ loaded => Kept /\ Aged /\ SyncShape /\ FlightOK /\ IndexOK /\ HeldIsFit /\ Vacant

-----------------------------------------------------------------------------
(* Types *)

LEMMA Types ==
  ASSUME IInv
  PROVE  /\ memory \in [Ids -> Versions] /\ changes \in Nat /\ Versions \subseteq Nat
         /\ dirtyGen \in [Ids -> Nat] /\ dirty = {i \in Ids : dirtyGen[i] # 0} /\ dirty \subseteq Ids
         /\ deleted \subseteq Ids /\ dirty \cap deleted = {}
         /\ shard \in [Ids -> Versions] /\ index \subseteq Ids /\ corruptIds \subseteq Ids
         /\ flight \in Work /\ sync \in Work
         /\ \A i \in Ids : /\ memory[i] \in Nat /\ dirtyGen[i] \in Nat /\ shard[i] \in Nat
                           /\ i \in dirty => memory[i] # 0
                           /\ i \in deleted => memory[i] = 0
                           /\ i # Index
BY BoundsAssumption, FilesAssumption DEF IInv, TypeOK, Versions

LEMMA WorkFields ==
  ASSUME NEW w \in Work
  PROVE  /\ w.file \in Files /\ w.todo \subseteq Ids /\ w.drop \subseteq Ids /\ w.gone \subseteq Ids
         /\ w.gens \in [Ids -> Nat] /\ w.body \in [Ids -> Versions] /\ w.ids \subseteq Ids
         /\ w.stale \in BOOLEAN /\ w.latest \in BOOLEAN /\ w.overtaken \in BOOLEAN
         /\ \A i \in Ids : w.gens[i] \in Nat /\ w.body[i] \in Nat /\ w.body[i] \in Versions
BY BoundsAssumption DEF Work, Versions

LEMMA NoFlushFields ==
  /\ NoFlush.at = "none" /\ NoFlush.file = Index /\ NoFlush.todo = {} /\ NoFlush.drop = {} /\ NoFlush.gone = {}
  /\ NoFlush.ids = {} /\ ~NoFlush.stale /\ NoFlush.latest /\ ~NoFlush.overtaken
  /\ \A i \in Ids : NoFlush.gens[i] = 0 /\ NoFlush.body[i] = 0
BY DEF NoFlush

(* What the history does. *)
LEMMA SinceTyped == ASSUME HInv, IInv', HNext PROVE since' \in [Ids -> SUBSET Versions]
<1>1. \A i \in Ids : Value'[i] \in Versions
  BY BoundsAssumption DEF Value, Durable, IInv, TypeOK, Versions
<1> QED
  BY <1>1 DEF HNext, Store!Since, HInv

LEMMA SinceGrows ==
  ASSUME HInv, IInv', HNext, loaded'
  PROVE  /\ \A i \in Ids : i \in dirty' \cup deleted' => since[i] \subseteq since'[i]
         /\ Kept' /\ since' \in [Ids -> SUBSET Versions]
<1>1. \A i \in Ids : since'[i] = IF Status'[i] = "safe" THEN {Value'[i]} ELSE since[i] \cup {Value'[i]}
  BY DEF HNext, Store!Since
<1>2. \A i \in Ids : Value'[i] = memory'[i] /\ (Status'[i] = "safe" => i \notin dirty' \cup deleted')
  BY DEF Value, Status
<1> QED
  BY <1>1, <1>2, SinceTyped DEF Kept

-----------------------------------------------------------------------------
(* Flights *)

Rested == flight = NoFlush \/ flight = Snapshot(dirty, dirtyGen, deleted, "mkdir")

(* A flight that has only been prepared promises nothing that does not hold. *)
LEMMA RestedFlight ==
  IInv /\ Kept /\ HeldIsFit /\ (\A i \in Ids : memory[i] <= changes /\ shard[i] <= changes) /\ Rested =>
    FlightOK /\ Aged /\ (\A i \in Ids : Saves(flight, i) => i \in dirty \cup deleted)
<1> SUFFICES ASSUME IInv, Kept, HeldIsFit, \A i \in Ids : memory[i] <= changes /\ shard[i] <= changes, Rested
             PROVE  FlightOK /\ Aged /\ (\A i \in Ids : Saves(flight, i) => i \in dirty \cup deleted)
  OBVIOUS
<1>1. CASE flight = NoFlush
  BY <1>1, NoFlushFields, Types
     DEF OnFile, FlightOK, FlightShape, FlightStores, FlightStored, FlightKnows, FlightLists, FlightIndex, Aged, Saves, Runs
<1>2. CASE flight = Snapshot(dirty, dirtyGen, deleted, "mkdir")
  <2>1. /\ flight.at = "mkdir" /\ flight.file = Index /\ flight.todo = dirty /\ flight.drop = deleted
        /\ flight.gone = deleted /\ flight.ids = Held(memory, corruptIds)
        /\ ~flight.stale /\ flight.latest /\ ~flight.overtaken /\ flight.body = memory
        /\ \A i \in Ids : flight.gens[i] = IF i \in dirty THEN dirtyGen[i] ELSE 0
    BY <1>2 DEF Snapshot, NoFlush
  <2>2. /\ dirty \cap deleted = {} /\ corruptIds \subseteq Ids
        /\ \A i \in Ids : /\ i \in dirty <=> dirtyGen[i] # 0
                          /\ i \in dirty => memory[i] # 0
                          /\ i \in deleted => memory[i] = 0
                          /\ dirtyGen[i] \in Nat
    BY Types
  <2>3. FlightShape /\ Aged
    BY <2>1, <2>2 DEF FlightShape, Aged, Held
  <2>4. FlightStores
    BY <2>1, <2>2 DEF OnFile, FlightStores, Kept, Saves, Runs
  <2>5. FlightStored
    BY <2>1 DEF FlightStored, Saves
  <2>6. FlightKnows
    BY <2>1, <2>2 DEF FlightKnows
  <2>7. Listable(flight.ids, Later)
    BY <2>1, <2>2 DEF Listable, Later, Held, HeldIsFit, MayBe, Kept
  <2>8. FlightIndex
    BY <2>1, <2>7 DEF FlightIndex, OnFile
  <2>10. FlightLists
    BY <2>1 DEF FlightLists, Held
  <2>9. \A i \in Ids : Saves(flight, i) => i \in dirty \cup deleted
    BY <2>1 DEF Saves
  <2> QED
    BY <2>3, <2>4, <2>5, <2>6, <2>8, <2>9, <2>10 DEF FlightOK
<1> QED
  BY <1>1, <1>2 DEF Rested

LEMMA RestedNext ==
  IInv' /\ Kept' /\ HeldIsFit' /\ (\A i \in Ids : memory'[i] <= changes' /\ shard'[i] <= changes') /\ Rested' =>
    FlightOK' /\ Aged' /\ (\A i \in Ids : Saves(flight', i) => i \in dirty' \cup deleted')
<1>1. (\A i \in Ids : memory'[i] <= changes' /\ shard'[i] <= changes')
      <=> (\A i \in Ids : memory[i] <= changes /\ shard[i] <= changes)'
  OBVIOUS
<1>2. (\A i \in Ids : Saves(flight', i) => i \in dirty' \cup deleted')
      <=> (\A i \in Ids : Saves(flight, i) => i \in dirty \cup deleted)'
  BY DEF Saves
<1> QED
  BY <1>1, <1>2, RestedFlight, PTL

-----------------------------------------------------------------------------
(* Changes *)

(* What a crash may bring back it may still bring back, of any file. *)
Persists == \A i \in Ids : \A v : MayBe(i, v) => MayBe(i, v)'
StaysFit == \A i \in Ids : Fit(i) => Fit(i)'

LEMMA MayBeStays ==
  ASSUME HInv, IInv', HNext, loaded, loaded',
         \A i \in Ids : /\ i \in dirty \cup deleted => i \in dirty' \cup deleted'
                        /\ i \notin dirty' \cup deleted' => memory'[i] = memory[i]
  PROVE  Persists
BY SinceGrows DEF Persists, MayBe, HInv, Kept

LEMMA FitStays ==
  ASSUME Persists, shard' = shard, corrupt' = corrupt, raced \subseteq raced'
  PROVE  StaysFit
BY DEF Persists, StaysFit, Fit, Parsed, MayBe

(* An index that may be loaded still may. *)
LEMMA ListableStays ==
  ASSUME Persists, StaysFit,
         flight' = flight, index' = index, Index \in raced => Index \in raced'
  PROVE  /\ IndexOK => IndexOK'
         /\ FlightIndex /\ flight.ids \subseteq Ids => FlightIndex'
<1>1. /\ \A i \in Ids : MayBe(i, 0) => MayBe(i, 0)'
      /\ \A i \in Ids : Fit(i) => Fit(i)'
  BY DEF Persists, StaysFit
<1>2. IndexOK => IndexOK'
  BY <1>1 DEF IndexOK, Listable
<1>3. (OnFile(Index))' <=> OnFile(Index)
  BY DEF OnFile
<1>4. Later' = Later /\ (Runs' <=> Runs) /\ (Counts' <=> Counts)
  BY DEF Later, OnFile, Runs, Counts
<1>5. FlightIndex /\ flight.ids \subseteq Ids => FlightIndex'
  BY <1>1, <1>3, <1>4 DEF FlightIndex, Listable
<1> QED
  BY <1>2, <1>5

LEMMA StoreStep ==
  ASSUME HInv, HNext, IInv', NEW i \in Ids, Change(i) \/ Remove(i)
  PROVE  HInv'
<1>0. IInv /\ loaded /\ loaded' /\ Kept /\ Aged /\ SyncShape /\ FlightOK /\ IndexOK /\ HeldIsFit /\ Vacant
  BY DEF HInv, Change, Remove, Idle
<1>1. /\ sync.at = "none" /\ sync' = sync /\ flight' = flight /\ changes' = changes + 1
      /\ shard' = shard /\ index' = index /\ corrupt' = corrupt /\ setAside' = setAside
      /\ corruptIds' = corruptIds
      /\ raced \subseteq raced' /\ (Index \in raced' <=> Index \in raced)
  BY FilesAssumption DEF Change, Remove, Idle, disk
<1>2. /\ memory \in [Ids -> Versions] /\ dirtyGen \in [Ids -> Nat] /\ changes \in Nat
      /\ flight \in Work /\ flight.ids \subseteq Ids
      /\ \A j \in Ids : memory[j] \in Nat /\ dirtyGen[j] \in Nat /\ shard[j] \in Nat
                        /\ flight.body[j] \in Nat /\ flight.gens[j] \in Nat
  BY <1>0, Types, WorkFields
<1>3. \A j \in Ids \ {i} : /\ memory'[j] = memory[j] /\ dirtyGen'[j] = dirtyGen[j]
                           /\ j \in dirty' <=> j \in dirty
                           /\ j \in deleted' <=> j \in deleted
                           /\ j \in raced' <=> j \in raced
  BY <1>2 DEF Change, Remove
<1>4. i \in dirty' \cup deleted'
  BY DEF Change, Remove
<1>5. /\ Kept' /\ since' \in [Ids -> SUBSET Versions]
      /\ \A j \in Ids : j \in dirty \cup deleted => since[j] \subseteq since'[j]
  BY <1>0, <1>3, <1>4, SinceGrows
<1>6. Persists
  BY <1>0, <1>3, <1>4, MayBeStays
<1>7. StaysFit
  BY <1>1, <1>6, FitStays
<1>8. IndexOK' /\ FlightIndex'
  BY <1>0, <1>1, <1>2, <1>6, <1>7, ListableStays DEF FlightOK
<1>9. \A j \in Ids : memory'[j] <= changes + 1
  <2>1. memory'[i] \in {0, changes + 1}
    BY <1>2 DEF Change, Remove
  <2> QED
    BY <1>0, <1>2, <1>3, <2>1 DEF Aged
<1>10. Aged'
  BY <1>0, <1>1, <1>2, <1>9 DEF Aged
<1>11. SyncShape'
  BY <1>0, <1>1 DEF SyncShape
<1>12. FlightShape'
  BY <1>0, <1>1 DEF FlightOK, FlightShape
<1>13. FlightStores'
  <2>1. \A j \in Ids : FlightStores => ((Runs /\ Saves(flight, j)) \/ (OnFile(j) /\ Counts) =>
          j \in dirty \cup deleted /\ flight.body[j] \in since[j])
    BY DEF FlightStores
  <2> QED
    BY <1>0, <1>1, <1>3, <1>4, <1>5, <2>1 DEF FlightOK, FlightStores, Runs, Saves, OnFile, Counts
<1>14. FlightStored'
  BY <1>0, <1>1 DEF FlightOK, FlightStored, Runs, Saves, OnFile, Parsed
<1>15. FlightKnows'
  <2> SUFFICES ASSUME Runs', NEW j \in Ids, flight'.gens[j] # 0
               PROVE  /\ memory'[j] = flight'.body[j] => dirtyGen'[j] = flight'.gens[j]
                      /\ j \notin raced' /\ memory'[j] # 0 =>
                           /\ dirtyGen'[j] >= flight'.gens[j]
                           /\ dirtyGen'[j] = flight'.gens[j] => memory'[j] = flight'.body[j]
    BY DEF FlightKnows
  <2>1. /\ memory[j] = flight.body[j] => dirtyGen[j] = flight.gens[j]
        /\ j \notin raced /\ memory[j] # 0 => dirtyGen[j] >= flight.gens[j]
        /\ j \notin raced /\ memory[j] # 0 => (dirtyGen[j] = flight.gens[j] => memory[j] = flight.body[j])
        /\ flight.body[j] <= changes /\ flight.body[j] # 0
    BY <1>0, <1>1 DEF FlightOK, FlightKnows, Runs, Aged, FlightShape
  <2>2. CASE j # i
    BY <1>1, <1>3, <2>1, <2>2
  <2>3. CASE j = i /\ Change(i)
    <3>1. memory'[j] = changes + 1 /\ dirtyGen'[j] = dirtyGen[j] + 1 /\ (j \notin raced' => j \notin raced /\ memory[j] # 0)
      BY <1>1, <1>2, <2>3 DEF Change
    <3> QED
      BY <1>1, <1>2, <2>1, <3>1
  <2>4. CASE j = i /\ Remove(i)
    <3>1. memory'[j] = 0
      BY <1>2, <2>4 DEF Remove
    <3> QED
      BY <1>1, <2>1, <3>1
  <2> QED
    BY <2>2, <2>3, <2>4
<1>16. HeldIsFit'
  <2>1. memory'[i] # 0 => i \in dirty'
    BY <1>2 DEF Change, Remove
  <2>2. \A j \in Ids : memory'[j] # 0 /\ j \notin dirty' => Fit(j)
    BY <1>0, <1>3, <2>1 DEF HeldIsFit
  <2>3. \A j \in Ids : j \in corruptIds => Fit(j)
    BY <1>0 DEF HeldIsFit
  <2> QED
    BY <1>1, <1>7, <2>2, <2>3 DEF HeldIsFit, StaysFit
<1>18. FlightLists'
  <2>1. \A j \in Ids : j \in dirty \cup deleted \/ memory[j] # 0 => j \in dirty' \cup deleted' \/ memory'[j] # 0
    BY <1>3, <1>4
  <2>2. (FlightLists' <=> (Runs \/ (OnFile(Index) /\ Counts) =>
          \A j \in flight.ids : j \in dirty' \cup deleted' \cup corruptIds \/ memory'[j] # 0))
    BY <1>1 DEF FlightLists, Runs, OnFile, Counts
  <2> QED
    BY <1>0, <1>2, <2>1, <2>2 DEF FlightLists, FlightOK
<1>17. Vacant'
  <2>1. \A j \in Ids : j \notin dirty' \cup deleted' =>
          j \notin dirty \cup deleted /\ memory'[j] = memory[j]
    BY <1>3, <1>4
  <2>2. index \subseteq Ids
    BY <1>0, Types
  <2> QED
    BY <1>0, <1>1, <2>1, <2>2 DEF Vacant, Saves
<1> QED
  BY <1>0, <1>5, <1>8, <1>10, <1>11, <1>12, <1>13, <1>14, <1>15, <1>16, <1>17, <1>18 DEF HInv, FlightOK, Aged

-----------------------------------------------------------------------------
(* Steps that leave store and files as they are *)

Calm ==
  /\ loaded /\ loaded' = loaded /\ memory' = memory /\ changes' = changes /\ dirty' = dirty
  /\ dirtyGen' = dirtyGen /\ deleted' = deleted /\ corruptIds' = corruptIds
  /\ shard' = shard /\ index' = index /\ corrupt' = corrupt /\ setAside' = setAside /\ raced' = raced

LEMMA CalmKeeps ==
  ASSUME HInv, HNext, IInv', Calm
  PROVE  /\ IInv /\ Aged /\ SyncShape /\ FlightOK /\ Persists /\ StaysFit
         /\ Kept' /\ since' \in [Ids -> SUBSET Versions] /\ IndexOK' /\ HeldIsFit'
         /\ \A i \in Ids : i \in dirty \cup deleted => since[i] \subseteq since'[i]
         /\ \A i \in Ids : memory'[i] <= changes' /\ shard'[i] <= changes'
         /\ (\A i \in Ids : Saves(flight', i) => Saves(flight, i) \/ i \in dirty \cup deleted) => Vacant'
<1>1. IInv /\ Kept /\ Aged /\ SyncShape /\ FlightOK /\ IndexOK /\ HeldIsFit /\ Vacant
  BY DEF HInv, Calm
<1>2. Persists
  BY MayBeStays DEF Calm
<1>3. StaysFit
  BY <1>2, FitStays DEF Calm
<1>4. IndexOK'
  BY <1>1, <1>2, <1>3 DEF Calm, IndexOK, Listable, Persists, StaysFit
<1>5. HeldIsFit'
  BY <1>1, <1>3 DEF Calm, HeldIsFit, StaysFit
<1>6. /\ Kept' /\ since' \in [Ids -> SUBSET Versions]
      /\ \A i \in Ids : i \in dirty \cup deleted => since[i] \subseteq since'[i]
  BY SinceGrows DEF Calm
<1>7. \A i \in Ids : memory'[i] <= changes' /\ shard'[i] <= changes'
  BY <1>1 DEF Calm, Aged
<1>8. ASSUME \A i \in Ids : Saves(flight', i) => Saves(flight, i) \/ i \in dirty \cup deleted
      PROVE  Vacant'
  <2>1. index \subseteq Ids
    BY <1>1, Types
  <2>2. \A i \in Ids : Saves(flight, i)' => Saves(flight, i) \/ i \in dirty \cup deleted
    BY <1>8 DEF Saves
  <2> QED
    BY <1>1, <2>1, <2>2 DEF Calm, Vacant
<1> QED
  BY <1>1, <1>2, <1>3, <1>4, <1>5, <1>6, <1>7, <1>8

(* A flight is started, or given up. *)
LEMMA RestedStep ==
  ASSUME HInv, HNext, IInv', Calm, sync.at = "none", sync' = sync, Rested'
  PROVE  HInv'
<1>1. FlightOK' /\ Aged' /\ (\A i \in Ids : Saves(flight', i) => i \in dirty' \cup deleted')
  BY CalmKeeps, RestedNext
<1>2. Vacant'
  BY <1>1, CalmKeeps DEF Calm
<1>3. SyncShape'
  BY CalmKeeps DEF SyncShape
<1> QED
  BY <1>1, <1>2, <1>3, CalmKeeps DEF HInv, Calm

(* The flight goes on as it was. *)
LEMMA UnmovedStep ==
  ASSUME HInv, HNext, IInv', Calm, flight' = flight, SyncShape', sync'.at = "writing" => sync.at = "writing" /\ sync' = sync
  PROVE  HInv'
<1>1. /\ FlightOK /\ Aged /\ flight.ids \subseteq Ids
      /\ \A i \in Ids : i \in dirty \cup deleted => since[i] \subseteq since'[i]
  BY CalmKeeps, Types, WorkFields
<1>2. FlightIndex'
  BY <1>1, CalmKeeps, ListableStays DEF Calm, FlightOK
<1>3. FlightShape' /\ FlightStored' /\ FlightKnows' /\ FlightLists'
  BY <1>1 DEF Calm, FlightOK, FlightShape, FlightStored, FlightKnows, FlightLists, Runs, Saves, OnFile, Counts, Parsed
<1>4. FlightStores'
  BY <1>1 DEF Calm, FlightOK, FlightStores, Runs, Saves, OnFile, Counts
<1>5. Aged'
  BY <1>1 DEF Calm, Aged
<1>6. Vacant'
  <2>1. \A i \in Ids : Saves(flight', i) => Saves(flight, i)
    OBVIOUS
  <2> QED
    BY <2>1, CalmKeeps
<1> QED
  BY <1>2, <1>3, <1>4, <1>5, <1>6, CalmKeeps DEF HInv, Calm, FlightOK

LEMMA FlushAsyncStep ==
  ASSUME HInv, HNext, IInv', TimerFires \/ \E k \in Callers : TurnEnds(k)
  PROVE  HInv'
<1>1. Calm /\ sync.at = "none" /\ sync' = sync /\ FlushAsync
  BY DEF TimerFires, TurnEnds, Idle, Calm, store, disk
<1>2. CASE flight.at = "none"
  <2>1. Rested'
    BY <1>1, <1>2 DEF FlushAsync, Rested, Calm, Snapshot, NoFlush, Held
  <2> QED
    BY <1>1, <2>1, RestedStep
<1>3. CASE flight.at # "none"
  <2>1. flight' = flight /\ SyncShape'
    BY <1>1, <1>3, CalmKeeps DEF FlushAsync, SyncShape
  <2> QED
    BY <1>1, <2>1, UnmovedStep
<1> QED
  BY <1>2, <1>3

LEMMA FlightDropped ==
  ASSUME HInv, HNext, IInv', FlightAbandoned \/ FlightFails
  PROVE  HInv'
<1>1. Calm /\ sync.at = "none" /\ sync' = sync /\ Landed(dirty, dirtyGen, deleted)
  BY DEF FlightAbandoned, FlightFails, Idle, Calm, store, disk
<1>2. Rested'
  BY <1>1 DEF Landed, Rested, Calm, Snapshot, NoFlush, Held
<1> QED
  BY <1>1, <1>2, RestedStep

LEMMA FlushFailsStep == ASSUME HInv, HNext, IInv', FlushFails PROVE HInv'
<1>1. Calm /\ sync' = NoFlush /\ flight' = flight
  BY DEF FlushFails, Writing, Calm, store, disk
<1>2. SyncShape' /\ sync'.at = "none"
  BY <1>1, NoFlushFields DEF SyncShape
<1> QED
  BY <1>1, <1>2, UnmovedStep

-----------------------------------------------------------------------------
(* The files of the flight *)

LEMMA NextFileStep == ASSUME HInv, HNext, IInv', NextFile PROVE HInv'
<1>1. /\ Calm /\ sync.at = "none" /\ sync' = sync
      /\ flight.at \in {"mkdir", "renamed", "unlinked", "discard"} /\ ~flight.stale
      /\ flight.file = Index => flight.at \notin {"renamed", "discard"}
  BY DEF NextFile, Idle, Goes, AtEnd, Calm, store, disk
<1>2. PICK f, at : /\ flight' = Begin(flight, f, at)
                   /\ \/ f \in flight.todo /\ at = "tmp"
                      \/ flight.todo = {} /\ f \in flight.drop /\ at = "unlink"
                      \/ flight.todo = {} /\ flight.drop = {} /\ f = Index /\ at = "tmp"
  BY DEF NextFile
<1>3. /\ IInv /\ FlightOK /\ Aged /\ flight \in Work /\ flight.ids \subseteq Ids
      /\ flight.todo \subseteq Ids /\ flight.drop \subseteq Ids /\ \A i \in Ids : i # Index
  BY <1>1, CalmKeeps, Types, WorkFields
<1>4. /\ flight'.at = at /\ flight'.file = f /\ flight'.todo = flight.todo \ {f}
      /\ flight'.drop = IF at = "unlink" THEN flight.drop \ {f} ELSE flight.drop
      /\ flight'.gone = flight.gone /\ flight'.gens = flight.gens /\ flight'.body = flight.body
      /\ flight'.ids = flight.ids /\ ~flight'.stale /\ flight'.latest /\ ~flight'.overtaken
  BY <1>1, <1>2, <1>3 DEF Begin, Work
<1>5. at \in {"tmp", "unlink"} /\ Runs /\ \A g : ~OnFile(g)
  BY <1>1, <1>2 DEF Runs, OnFile
<1>6. FlightShape'
  BY <1>1, <1>2, <1>3, <1>4, <1>5 DEF FlightShape, FlightOK, Calm
<1>7. FlightStores'
  <2>1. \A i \in Ids : Saves(flight, i) => i \in dirty \cup deleted /\ flight.body[i] \in since'[i]
    BY <1>1, <1>3, <1>5, CalmKeeps DEF FlightStores, FlightOK
  <2>2. f \in Ids => Saves(flight, f)
    BY <1>2, <1>3 DEF Saves, FlightShape, FlightOK
  <2> QED
    BY <1>1, <1>4, <2>1, <2>2 DEF FlightStores, Saves, OnFile, Calm
<1>8. FlightStored'
  <2>1. \A i \in Ids : Saves(flight, i) /\ i \notin flight.todo \cup flight.drop => Parsed(i) = flight.body[i]
    BY <1>3, <1>5 DEF FlightStored, FlightOK
  <2> QED
    BY <1>1, <1>2, <1>4, <1>5, <2>1 DEF FlightStored, Saves, OnFile, Parsed, Calm
<1>9. FlightKnows' /\ FlightLists'
  BY <1>1, <1>3, <1>4, <1>5 DEF FlightKnows, FlightLists, FlightOK, Runs, Calm
<1>10. FlightIndex'
  <2>1. /\ \A i \in Ids : i \in flight.ids => i \in flight.todo \/ Fit(i)'
        /\ \A i \in Ids : i \notin flight.ids => MayBe(i, 0)'
    <3>1. \A i \in Ids : IF i \in flight.ids THEN i \in Later \/ Fit(i) ELSE MayBe(i, 0)
      BY <1>3, <1>5 DEF FlightIndex, FlightOK, Listable
    <3>2. /\ \A i \in Ids : Fit(i) => Fit(i)'
          /\ \A i \in Ids : MayBe(i, 0) => MayBe(i, 0)'
      BY <1>1, CalmKeeps DEF StaysFit, Persists
    <3> QED
      BY <1>5, <3>1, <3>2 DEF Later
  <2>2. \A i \in Ids : (i \in Later)' <=> i \in flight'.todo \/ i = f
    BY <1>4, <1>5 DEF Later, OnFile
  <2>3. (\A i \in Ids : IF i \in flight.ids THEN i \in Later \/ Fit(i) ELSE MayBe(i, 0))'
    BY <1>4, <2>1, <2>2
  <2>4. (OnFile(Index))' => flight.todo = {} /\ \A i \in Ids : i \in flight.ids => Fit(i)'
    BY <1>2, <1>3, <1>4, <2>1 DEF OnFile
  <2> QED
    BY <1>3, <1>4, <2>1, <2>3, <2>4 DEF FlightIndex, Listable
<1>11. Aged' /\ SyncShape' /\ Vacant'
  <2>1. Aged'
    BY <1>1, <1>3, <1>4, CalmKeeps DEF Calm, Aged
  <2>2. SyncShape'
    BY <1>1, CalmKeeps DEF SyncShape
  <2>3. \A i \in Ids : Saves(flight', i) => Saves(flight, i)
    BY <1>4 DEF Saves
  <2> QED
    BY <1>1, <2>1, <2>2, <2>3, CalmKeeps
<1> QED
  BY <1>1, <1>6, <1>7, <1>8, <1>9, <1>10, <1>11, CalmKeeps DEF HInv, Calm, FlightOK

LEMMA TmpWrittenStep == ASSUME HInv, HNext, IInv', TmpWritten PROVE HInv'
<1>1. /\ Calm /\ sync.at = "none" /\ sync' = sync /\ flight.at = "tmp"
      /\ flight' = [flight EXCEPT !.at = AfterTmp(flight)]
  BY DEF TmpWritten, Idle, Calm, store, disk
<1>2. /\ IInv /\ FlightOK /\ Aged /\ flight \in Work /\ flight.ids \subseteq Ids /\ flight.stale \in BOOLEAN
  BY <1>1, CalmKeeps, Types, WorkFields
<1>3. /\ flight'.at = IF flight.latest THEN "rename" ELSE "discard"
      /\ flight'.file = flight.file /\ flight'.todo = flight.todo /\ flight'.drop = flight.drop
      /\ flight'.gone = flight.gone /\ flight'.gens = flight.gens /\ flight'.body = flight.body
      /\ flight'.ids = flight.ids /\ flight'.stale = flight.stale /\ flight'.latest = flight.latest
      /\ flight'.overtaken = flight.overtaken
  BY <1>1, <1>2 DEF AfterTmp, Work
<1>4. /\ Runs' <=> Runs
      /\ \A g : (OnFile(g))' => OnFile(g) /\ flight.latest
      /\ Runs => \A g : (OnFile(g))' <=> OnFile(g)
      /\ \A g : (OnFile(g))' /\ Counts' => OnFile(g) /\ Counts
  BY <1>1, <1>2, <1>3 DEF Runs, OnFile, Counts, FlightOK, FlightShape
<1>5. FlightShape'
  BY <1>1, <1>2, <1>3 DEF FlightShape, FlightOK, Calm
<1>6. FlightStores'
  <2>1. \A i \in Ids : (Runs /\ Saves(flight, i)) \/ (OnFile(i) /\ Counts) =>
          i \in dirty \cup deleted /\ flight.body[i] \in since'[i]
    BY <1>1, <1>2, CalmKeeps DEF FlightStores, FlightOK
  <2>2. \A i \in Ids : (Runs /\ Saves(flight, i))' \/ (OnFile(i) /\ Counts)' => (Runs /\ Saves(flight, i)) \/ (OnFile(i) /\ Counts)
    BY <1>3, <1>4 DEF Saves
  <2> QED
    BY <1>1, <1>3, <2>1, <2>2 DEF FlightStores, Calm
<1>7. FlightStored'
  <2>1. \A i \in Ids : Saves(flight, i)' <=> Saves(flight, i)
    BY <1>3 DEF Saves
  <2>2. \A i \in Ids : Runs' => ((OnFile(i))' <=> OnFile(i))
    BY <1>4
  <2> QED
    BY <1>1, <1>2, <1>3, <1>4, <2>1, <2>2 DEF FlightStored, FlightOK, Parsed, Calm
<1>8. FlightKnows' /\ FlightLists'
  <2>1. FlightKnows'
    BY <1>1, <1>2, <1>3, <1>4 DEF FlightKnows, FlightOK, Calm
  <2>2. (Runs \/ (OnFile(Index) /\ Counts))' => Runs \/ (OnFile(Index) /\ Counts)
    BY <1>4
  <2> QED
    BY <1>1, <1>2, <1>3, <2>1, <2>2 DEF FlightLists, FlightOK, Calm
<1>9. FlightIndex'
  <2>1. /\ \A i \in Ids : Fit(i) => Fit(i)'
        /\ \A i \in Ids : MayBe(i, 0) => MayBe(i, 0)'
    BY <1>1, CalmKeeps DEF StaysFit, Persists
  <2>2. Runs => \A i \in Ids : i \in Later => (i \in Later)'
    BY <1>3, <1>4 DEF Later
  <2>3. Runs' => (\A i \in Ids : IF i \in flight.ids THEN i \in Later \/ Fit(i) ELSE MayBe(i, 0))'
    BY <1>2, <1>3, <1>4, <2>1, <2>2 DEF FlightIndex, FlightOK, Listable
  <2>4. (OnFile(Index))' => \A i \in flight.ids : Fit(i)'
    BY <1>2, <1>4, <2>1 DEF FlightIndex, FlightOK
  <2>5. (OnFile(Index))' /\ Counts' => \A i \in Ids : IF i \in flight.ids THEN Fit(i)' ELSE MayBe(i, 0)'
    BY <1>2, <1>4, <2>1 DEF FlightIndex, FlightOK, Listable
  <2> QED
    BY <1>3, <2>3, <2>4, <2>5 DEF FlightIndex, Listable
<1>10. Aged' /\ SyncShape' /\ Vacant'
  <2>1. Aged'
    BY <1>1, <1>2, <1>3, CalmKeeps DEF Calm, Aged
  <2>2. SyncShape'
    BY <1>1, CalmKeeps DEF SyncShape
  <2>3. \A i \in Ids : Saves(flight', i) => Saves(flight, i)
    BY <1>3 DEF Saves
  <2> QED
    BY <1>1, <2>1, <2>2, <2>3, CalmKeeps
<1> QED
  BY <1>1, <1>5, <1>6, <1>7, <1>8, <1>9, <1>10, CalmKeeps DEF HInv, Calm, FlightOK

-----------------------------------------------------------------------------
(* The pool *)

LEMMA PoolStepIs ==
  ASSUME HInv, HNext, IInv', PoolStep
  PROVE  /\ IInv /\ Kept /\ Aged /\ SyncShape /\ FlightOK /\ IndexOK /\ HeldIsFit /\ Vacant
         /\ Persists /\ Kept' /\ since' \in [Ids -> SUBSET Versions]
         /\ \A i \in Ids : i \in dirty \cup deleted => since[i] \subseteq since'[i]
         /\ loaded /\ loaded' /\ memory' = memory /\ changes' = changes /\ dirty' = dirty
         /\ dirtyGen' = dirtyGen /\ deleted' = deleted /\ corruptIds' = corruptIds
         /\ setAside' = setAside /\ sync' = sync
         /\ OnFile(flight.file) /\ flight.at # "tmp" /\ flight \in Work /\ flight.file \in Files
         /\ flight.ids \subseteq Ids
         /\ flight' = [flight EXCEPT !.at = IF flight.at = "rename" THEN "renamed" ELSE "unlinked"]
         /\ flight'.at = IF flight.at = "rename" THEN "renamed" ELSE "unlinked"
         /\ flight'.file = flight.file /\ flight'.todo = flight.todo /\ flight'.drop = flight.drop
         /\ flight'.gone = flight.gone /\ flight'.gens = flight.gens /\ flight'.body = flight.body
         /\ flight'.ids = flight.ids /\ flight'.stale = flight.stale /\ flight'.latest = flight.latest
         /\ flight'.overtaken = flight.overtaken
         /\ (Runs' <=> Runs) /\ \A g : ~(OnFile(g))'
<1>1. /\ loaded /\ loaded' = loaded /\ memory' = memory /\ changes' = changes /\ dirty' = dirty
      /\ dirtyGen' = dirtyGen /\ deleted' = deleted /\ corruptIds' = corruptIds
      /\ setAside' = setAside /\ sync' = sync /\ flight.at \in {"rename", "unlink"}
  BY DEF PoolStep, store
<1>2. IInv /\ Kept /\ Aged /\ SyncShape /\ FlightOK /\ IndexOK /\ HeldIsFit /\ Vacant
  BY <1>1 DEF HInv
<1>3. flight \in Work /\ flight.file \in Files /\ flight.ids \subseteq Ids
  BY <1>2, Types, WorkFields
<1>4. flight' = [flight EXCEPT !.at = IF flight.at = "rename" THEN "renamed" ELSE "unlinked"]
  BY DEF PoolStep
<1>5. Persists
  BY <1>1, MayBeStays
<1>6. /\ Kept' /\ since' \in [Ids -> SUBSET Versions]
      /\ \A i \in Ids : i \in dirty \cup deleted => since[i] \subseteq since'[i]
  BY <1>1, SinceGrows
<1>7. /\ flight'.at = IF flight.at = "rename" THEN "renamed" ELSE "unlinked"
      /\ flight'.file = flight.file /\ flight'.todo = flight.todo /\ flight'.drop = flight.drop
      /\ flight'.gone = flight.gone /\ flight'.gens = flight.gens /\ flight'.body = flight.body
      /\ flight'.ids = flight.ids /\ flight'.stale = flight.stale /\ flight'.latest = flight.latest
      /\ flight'.overtaken = flight.overtaken
  BY <1>3, <1>4 DEF Work
<1>8. (Runs' <=> Runs) /\ (\A g : ~(OnFile(g))') /\ OnFile(flight.file) /\ flight.at # "tmp"
  BY <1>1, <1>7 DEF Runs, OnFile
<1> QED
  BY <1>1, <1>2, <1>3, <1>4, <1>5, <1>6, <1>7, <1>8

(* A shard is renamed or unlinked. *)
LEMMA FilePooled == ASSUME HInv, HNext, IInv', PoolStep, flight.file \in Ids PROVE HInv'
<1> PICK f \in Ids : flight.file = f
  OBVIOUS
<1>1. f # Index /\ flight.at \in {"rename", "unlink"} /\ OnFile(f)
  BY Types, PoolStepIs DEF PoolStep, OnFile
<1>2. Saves(flight, f) /\ (flight.at = "unlink" => flight.body[f] = 0)
  BY <1>1, PoolStepIs DEF FlightOK, FlightShape, Saves
<1>3. /\ Parsed(f)' = flight.body[f] /\ index' = index
      /\ \A i \in Ids : i # f => Parsed(i)' = Parsed(i) /\ shard'[i] = shard[i]
      /\ shard'[f] = flight.body[f]
  <2>1. shard \in [Ids -> Versions]
    BY Types, PoolStepIs
  <2>2. shard' = [shard EXCEPT ![f] = flight.body[f]] /\ corrupt' = corrupt \ {f} /\ index' = index
    <3>1. CASE flight.at = "rename"
      BY <1>1, <3>1 DEF PoolStep, Rename
    <3>2. CASE flight.at = "unlink"
      BY <1>1, <1>2, <3>2 DEF PoolStep, Unlink
    <3> QED
      BY <1>1, <3>1, <3>2
  <2> QED
    BY <1>1, <2>1, <2>2 DEF Parsed
<1>4. /\ \A i \in Ids : i # f => (i \in raced' <=> i \in raced)
      /\ Index \in raced' <=> Index \in raced
      /\ f \notin raced' => (Counts \/ flight.body[f] = memory[f])
      /\ f \notin raced' => f \notin raced \/ flight.body[f] = memory[f]
  BY <1>1, PoolStepIs DEF PoolStep, Overtaken, Current, Counts
<1>5. StaysFit /\ Fit(f)'
  <2>1. ASSUME f \notin raced'
        PROVE  IF f \in dirty' \cup deleted' THEN flight.body[f] \in since'[f] ELSE flight.body[f] = memory'[f]
    <3>1. CASE Counts
      <4>1. f \in dirty \cup deleted /\ flight.body[f] \in since'[f]
        BY <1>1, <3>1, PoolStepIs DEF FlightOK, FlightStores
      <4> QED
        BY <4>1, PoolStepIs
    <3>2. CASE flight.body[f] = memory[f]
      BY <1>1, <3>2, PoolStepIs DEF Kept
    <3> QED
      BY <1>4, <2>1, <3>1, <3>2
  <2>2. Fit(f)'
    BY <1>3, <2>1, PoolStepIs DEF Fit, MayBe
  <2>3. \A i \in Ids : i # f /\ Fit(i) => Fit(i)'
    BY <1>3, <1>4, PoolStepIs DEF Fit, MayBe, Persists
  <2> QED
    BY <2>2, <2>3 DEF StaysFit
<1>6. IndexOK'
  <2>1. /\ \A i \in Ids : Fit(i) => Fit(i)'
        /\ \A i \in Ids : MayBe(i, 0) => MayBe(i, 0)'
    BY <1>5, PoolStepIs DEF StaysFit, Persists
  <2> QED
    BY <1>3, <1>4, <2>1, PoolStepIs DEF IndexOK, Listable
<1>7. HeldIsFit'
  BY <1>5, PoolStepIs DEF HeldIsFit, StaysFit
<1>8. Vacant'
  <2>1. index \subseteq Ids
    BY Types, PoolStepIs
  <2>2. \A i \in Ids : Saves(flight, i)' <=> Saves(flight, i)
    BY PoolStepIs DEF Saves
  <2>3. Index \notin raced => f \notin index \ (corruptIds \cup dirty \cup deleted) \/ memory[f] # 0
    BY <1>2, PoolStepIs DEF Vacant
  <2> QED
    BY <1>3, <1>4, <2>1, <2>2, <2>3, PoolStepIs DEF Vacant
<1>9. FlightShape'
  BY <1>1, PoolStepIs DEF FlightOK, FlightShape
<1>10. FlightStores'
  <2>1. \A i \in Ids : Runs /\ Saves(flight, i) => i \in dirty \cup deleted /\ flight.body[i] \in since'[i]
    BY PoolStepIs DEF FlightStores, FlightOK
  <2> QED
    BY <2>1, PoolStepIs DEF FlightStores, Saves
<1>11. FlightStored'
  <2>1. \A i \in Ids : i # f => ~OnFile(i)
    BY DEF OnFile
  <2>2. Runs => \A i \in Ids : Saves(flight, i) /\ i \notin flight.todo \cup flight.drop /\ i # f =>
          Parsed(i) = flight.body[i]
    BY <2>1, PoolStepIs DEF FlightStored, FlightOK
  <2>3. Runs' => \A i \in Ids : Saves(flight, i) /\ i \notin flight.todo \cup flight.drop => Parsed(i)' = flight.body[i]
    BY <1>3, <2>2, PoolStepIs
  <2> QED
    BY <1>1, <2>3, PoolStepIs DEF FlightStored, Saves
<1>12. FlightKnows'
  <2> SUFFICES ASSUME Runs, NEW i \in Ids, flight.gens[i] # 0
               PROVE  /\ memory[i] = flight.body[i] => dirtyGen[i] = flight.gens[i]
                      /\ i \notin raced' /\ memory[i] # 0 =>
                           /\ dirtyGen[i] >= flight.gens[i]
                           /\ dirtyGen[i] = flight.gens[i] => memory[i] = flight.body[i]
    BY PoolStepIs DEF FlightKnows
  <2>1. /\ memory[i] = flight.body[i] => dirtyGen[i] = flight.gens[i]
        /\ i \notin raced /\ memory[i] # 0 =>
             dirtyGen[i] >= flight.gens[i] /\ (dirtyGen[i] = flight.gens[i] => memory[i] = flight.body[i])
    BY PoolStepIs DEF FlightKnows, FlightOK
  <2>2. dirtyGen[i] \in Nat
    BY Types, PoolStepIs
  <2> QED
    BY <1>4, <2>1, <2>2
<1>13. FlightLists'
  BY PoolStepIs DEF FlightLists, FlightOK
<1>14. FlightIndex'
  <2>1. /\ \A i \in Ids : Fit(i) => Fit(i)'
        /\ \A i \in Ids : MayBe(i, 0) => MayBe(i, 0)'
    BY <1>5, PoolStepIs DEF StaysFit, Persists
  <2>2. Runs => \A i \in Ids : IF i \in flight.ids THEN i \in flight.todo \/ i = f \/ Fit(i) ELSE MayBe(i, 0)
    BY PoolStepIs DEF FlightIndex, FlightOK, Listable, Later, OnFile
  <2>3. \A i \in Ids : i \in flight.todo => (i \in Later)'
    BY PoolStepIs DEF Later
  <2>4. Runs' => (\A i \in Ids : IF i \in flight.ids THEN i \in Later \/ Fit(i) ELSE MayBe(i, 0))'
    BY <1>5, <2>1, <2>2, <2>3, PoolStepIs
  <2> QED
    BY <2>4, PoolStepIs DEF FlightIndex, Listable
<1>15. SyncShape'
  <2>1. sync.at = "writing" => \A i \in (dirty \ sync.todo) \cup (deleted \ sync.drop) : i \in raced' \/ Parsed(i)' = memory[i]
    <3> SUFFICES ASSUME sync.at = "writing", NEW i \in (dirty \ sync.todo) \cup (deleted \ sync.drop)
                 PROVE  i \in raced' \/ Parsed(i)' = memory[i]
      OBVIOUS
    <3>1. /\ i \in Ids /\ i \notin sync.todo \cup sync.drop
          /\ i \in raced \/ Parsed(i) = memory[i]
      <4>1. sync.todo \subseteq dirty /\ sync.drop \subseteq deleted /\ dirty \cap deleted = {} /\ dirty \cup deleted \subseteq Ids
        BY Types, PoolStepIs DEF SyncShape
      <4> QED
        BY <4>1, PoolStepIs DEF SyncShape
    <3>2. CASE i # f
      BY <1>3, <1>4, <3>1, <3>2
    <3>3. CASE i = f
      <4>1. ~Counts
        BY <1>1, <3>1, <3>3, PoolStepIs DEF FlightStores, FlightOK
      <4>2. Parsed(i)' = flight.body[i] /\ (i \notin raced' => flight.body[i] = memory[i])
        BY <1>3, <1>4, <3>3, <4>1
      <4> QED
        BY <4>2
    <3> QED
      BY <3>2, <3>3
  <2>2. /\ memory' = memory /\ dirty' = dirty /\ dirtyGen' = dirtyGen /\ deleted' = deleted
        /\ corruptIds' = corruptIds /\ sync' = sync /\ flight.at # "none" /\ flight'.stale = flight.stale
        /\ SyncShape
    BY <1>1, PoolStepIs
  <2> QED
    BY <2>1, <2>2 DEF SyncShape
<1>16. Aged'
  <2>1. \A i \in Ids : shard'[i] <= changes
    BY <1>1, <1>3, PoolStepIs DEF Aged
  <2> QED
    BY <2>1, PoolStepIs DEF Aged
<1> QED
  BY <1>6, <1>7, <1>8, <1>9, <1>10, <1>11, <1>12, <1>13, <1>14, <1>15, <1>16, PoolStepIs DEF HInv, FlightOK, Aged

LEMMA IndexPooled == ASSUME HInv, HNext, IInv', PoolStep, flight.file = Index PROVE HInv'
<1>1. /\ flight.at = "rename" /\ OnFile(Index) /\ index' = flight.ids /\ shard' = shard /\ corrupt' = corrupt
      /\ flight.todo = {} /\ flight.drop = {}
  <2>1. flight.at # "unlink"
    BY FilesAssumption, PoolStepIs, Types, WorkFields DEF FlightOK, FlightShape
  <2> QED
    BY <2>1, PoolStepIs DEF PoolStep, Rename, OnFile, FlightOK, FlightShape
<1>2. /\ \A i \in Ids : i \in raced' <=> i \in raced
      /\ Index \notin raced' => Counts \/ flight.ids = Held(memory, corruptIds)
  BY <1>1, FilesAssumption DEF PoolStep, Overtaken, Current, Counts
<1>3. StaysFit
  BY <1>1, <1>2, PoolStepIs DEF StaysFit, Persists, Fit, Parsed, MayBe
<1>4. /\ \A i \in Ids : Fit(i) => Fit(i)'
      /\ \A i \in Ids : MayBe(i, 0) => MayBe(i, 0)'
  BY <1>3, PoolStepIs DEF StaysFit, Persists
<1>5. IndexOK'
  <2> SUFFICES ASSUME Index \notin raced' PROVE \A i \in Ids : IF i \in flight.ids THEN Fit(i)' ELSE MayBe(i, 0)'
    BY <1>1 DEF IndexOK, Listable
  <2>1. CASE Counts
    BY <1>1, <1>4, <2>1, PoolStepIs DEF FlightOK, FlightIndex, Listable
  <2>2. CASE flight.ids = Held(memory, corruptIds)
    <3>1. \A i \in flight.ids : Fit(i)
      BY <1>1, PoolStepIs DEF FlightOK, FlightIndex
    <3>2. \A i \in Ids \ flight.ids : MayBe(i, 0)
      BY <2>2, PoolStepIs DEF Held, MayBe, Kept
    <3> QED
      BY <1>4, <3>1, <3>2
  <2> QED
    BY <1>2, <2>1, <2>2
<1>6. HeldIsFit'
  BY <1>3, PoolStepIs DEF HeldIsFit, StaysFit
<1>7. Vacant'
  <2> SUFFICES ASSUME Index \notin raced'
               PROVE  \A i \in flight.ids : i \in dirty \cup deleted \cup corruptIds \/ memory[i] # 0
    BY <1>1, PoolStepIs DEF Vacant
  <2>1. CASE Counts
    BY <1>1, <2>1, PoolStepIs DEF FlightOK, FlightLists
  <2>2. CASE flight.ids = Held(memory, corruptIds)
    BY <2>2 DEF Held
  <2> QED
    BY <1>2, <2>1, <2>2
<1>8. FlightShape'
  BY <1>1, PoolStepIs DEF FlightOK, FlightShape
<1>9. FlightStores'
  <2>1. \A i \in Ids : Runs /\ Saves(flight, i) => i \in dirty \cup deleted /\ flight.body[i] \in since'[i]
    BY PoolStepIs DEF FlightStores, FlightOK
  <2> QED
    BY <2>1, PoolStepIs DEF FlightStores, Saves
<1>10. FlightStored'
  <2>1. \A i \in Ids : ~OnFile(i)
    BY FilesAssumption DEF OnFile
  <2>2. Runs => \A i \in Ids : Saves(flight, i) => Parsed(i) = flight.body[i]
    BY <1>1, <2>1, PoolStepIs DEF FlightStored, FlightOK
  <2>3. Runs => \A i \in Ids : Saves(flight, i) => Parsed(i)' = flight.body[i]
    BY <1>1, <2>2 DEF Parsed
  <2> QED
    BY <1>1, <2>3, PoolStepIs DEF FlightStored, Saves
<1>11. FlightKnows' /\ FlightLists'
  <2>1. FlightKnows'
    BY <1>2, PoolStepIs DEF FlightKnows, FlightOK
  <2>2. FlightLists'
    BY PoolStepIs DEF FlightLists, FlightOK
  <2> QED
    BY <2>1, <2>2
<1>12. FlightIndex'
  <2>1. \A i \in Ids : i \notin Later
    BY <1>1, FilesAssumption DEF Later, OnFile
  <2>2. Runs => \A i \in Ids : IF i \in flight.ids THEN Fit(i) ELSE MayBe(i, 0)
    BY <2>1, PoolStepIs DEF FlightIndex, FlightOK, Listable
  <2> QED
    BY <1>4, <2>2, PoolStepIs DEF FlightIndex, Listable
<1>13. SyncShape'
  BY <1>1, <1>2, Types, PoolStepIs DEF SyncShape, Parsed
<1>14. Aged'
  BY <1>1, PoolStepIs DEF Aged
<1> QED
  BY <1>5, <1>6, <1>7, <1>8, <1>9, <1>10, <1>11, <1>12, <1>13, <1>14, PoolStepIs DEF HInv, FlightOK, Aged

LEMMA PoolKeeps == ASSUME HInv, HNext, IInv', PoolStep PROVE HInv'
BY FilePooled, IndexPooled, PoolStepIs DEF Files

-----------------------------------------------------------------------------
(* The flight lands *)

LEMMA FlightLandsStep == ASSUME HInv, HNext, IInv', FlightLands PROVE HInv'
<1>1. /\ loaded /\ loaded' /\ memory' = memory /\ changes' = changes /\ corruptIds' = corruptIds
      /\ sync.at = "none" /\ sync' = sync /\ shard' = shard /\ index' = index /\ corrupt' = corrupt
      /\ setAside' = setAside /\ raced' = raced
      /\ AtEnd(flight) /\ ~flight.stale /\ ClearPersisted(flight) /\ Landed(dirty', dirtyGen', deleted')
  BY DEF FlightLands, Idle, disk
<1>2. IInv /\ Kept /\ Aged /\ SyncShape /\ FlightOK /\ IndexOK /\ HeldIsFit /\ Vacant
  BY <1>1 DEF HInv
<1>3. /\ flight.file = Index /\ flight.at = "renamed" /\ Runs
      /\ flight.todo = {} /\ flight.drop = {} /\ index = flight.ids
      /\ \A i \in Ids : Saves(flight, i) => Parsed(i) = flight.body[i]
  <2>1. flight.file = Index /\ flight.at = "renamed" /\ Runs
    BY <1>1, <1>2 DEF AtEnd, FlightOK, FlightShape, Runs
  <2>2. \A i \in Ids : ~OnFile(i)
    BY <2>1 DEF OnFile
  <2>3. flight.todo = {} /\ flight.drop = {}
    BY <1>2, <2>1 DEF FlightOK, FlightShape
  <2> QED
    BY <1>2, <2>1, <2>2, <2>3 DEF FlightOK, FlightStored
<1>4. /\ index \subseteq Ids
      /\ dirty' = dirty \ Written(flight) /\ deleted' = deleted \ flight.gone
      /\ \A i \in Ids : /\ i \in dirty => memory[i] # 0 /\ dirtyGen[i] # 0
                        /\ i \in deleted => memory[i] = 0
                        /\ i \in Written(flight) <=> i \in dirty /\ flight.gens[i] = dirtyGen[i]
  BY <1>1, <1>2, Types DEF ClearPersisted, Written
<1>5. \A i \in Ids : /\ flight.gens[i] # 0 => flight.body[i] # 0
                     /\ i \in flight.gone => flight.body[i] = 0
                     /\ i \in flight.ids <=> flight.body[i] # 0 \/ i \in corruptIds
  BY <1>2, <1>3 DEF FlightOK, FlightShape
(* What is clean from now on is on disk. *)
<1>6. \A i \in Ids : i \in dirty \cup deleted /\ i \notin dirty' \cup deleted' => i \in raced \/ Parsed(i) = memory[i]
  <2> SUFFICES ASSUME NEW i \in Ids, i \in dirty \cup deleted, i \notin dirty' \cup deleted', i \notin raced
               PROVE  Parsed(i) = memory[i]
    OBVIOUS
  <2>1. CASE i \in dirty
    <3>1. flight.gens[i] # 0 /\ dirtyGen[i] = flight.gens[i] /\ memory[i] # 0
      BY <1>4, <2>1
    <3>2. memory[i] = flight.body[i]
      BY <1>2, <1>3, <3>1 DEF FlightOK, FlightKnows
    <3> QED
      BY <1>3, <3>1, <3>2 DEF Saves
  <2>2. CASE i \in deleted
    <3>1. i \in flight.gone /\ memory[i] = 0
      BY <1>4, <2>2
    <3> QED
      BY <1>3, <1>5, <3>1 DEF Saves
  <2> QED
    BY <2>1, <2>2
<1>7. /\ Kept' /\ since' \in [Ids -> SUBSET Versions]
      /\ \A i \in Ids : i \in dirty' \cup deleted' => i \in dirty \cup deleted /\ since[i] \subseteq since'[i]
  BY <1>1, <1>4, SinceGrows
<1>8. \A i \in Ids : Fit(i) => Fit(i)'
  BY <1>1, <1>6, <1>7 DEF Fit, MayBe, Parsed
<1>9. IndexOK'
  <2> SUFFICES ASSUME Index \notin raced, NEW i \in Ids
               PROVE  IF i \in index THEN Fit(i)' ELSE MayBe(i, 0)'
    BY <1>1 DEF IndexOK, Listable
  <2>1. IF i \in index THEN Fit(i) ELSE MayBe(i, 0)
    BY <1>2 DEF IndexOK, Listable
  <2>2. ASSUME i \notin index PROVE MayBe(i, 0)'
    <3>1. i \notin Written(flight)
      BY <1>3, <1>4, <1>5, <2>2
    <3>2. i \in deleted => memory[i] = 0
      BY <1>4
    <3> QED
      BY <1>1, <1>4, <1>7, <2>1, <2>2, <3>1, <3>2 DEF MayBe
  <2> QED
    BY <1>8, <2>1, <2>2
<1>10. HeldIsFit'
  <2>1. \A i \in Ids : memory[i] # 0 /\ i \notin dirty' => Fit(i)'
    <3> SUFFICES ASSUME NEW i \in Ids, memory[i] # 0, i \notin dirty' PROVE Fit(i)'
      OBVIOUS
    <3>1. CASE i \in dirty
      <4>1. i \notin dirty' \cup deleted' /\ (i \in raced \/ Parsed(i) = memory[i])
        BY <1>4, <1>6, <3>1
      <4> QED
        BY <1>1, <4>1 DEF Fit, MayBe, Parsed
    <3>2. CASE i \notin dirty
      BY <1>2, <1>8, <3>2 DEF HeldIsFit
    <3> QED
      BY <3>1, <3>2
  <2> QED
    BY <1>1, <1>2, <1>8, <2>1 DEF HeldIsFit
<1>11. Vacant'
  <2> SUFFICES ASSUME NEW i \in Ids, i \in index, i \notin corruptIds \cup dirty' \cup deleted', memory[i] = 0
               PROVE  FALSE
    BY <1>1, <1>4 DEF Vacant
  <2>1. i \notin dirty \cup deleted
    BY <1>3, <1>4, <1>5
  <2> QED
    BY <1>2, <1>3, <2>1 DEF FlightOK, FlightLists
<1>12. FlightOK' /\ Aged'
  <2>1. Rested'
    BY <1>1 DEF Landed, Rested, Snapshot, NoFlush, Held
  <2>2. \A i \in Ids : memory'[i] <= changes' /\ shard'[i] <= changes'
    BY <1>1, <1>2 DEF Aged
  <2> QED
    BY <1>7, <1>10, <2>1, <2>2, RestedNext
<1>13. SyncShape'
  BY <1>1, <1>2 DEF SyncShape
<1> QED
  BY <1>1, <1>7, <1>9, <1>10, <1>11, <1>12, <1>13 DEF HInv, Aged

-----------------------------------------------------------------------------
(* The synchronous flush *)

LEMMA FlushStep == ASSUME HInv, HNext, IInv', Flush PROVE HInv'
<1>1. /\ Calm /\ sync.at = "none"
      /\ flight' = [flight EXCEPT !.stale = flight.at # "none"]
      /\ sync' = IF Pending THEN Snapshot(dirty, dirtyGen, deleted, "writing") ELSE NoFlush
  BY DEF Flush, Idle, Calm, store, disk
<1>2. IInv /\ Aged /\ FlightOK /\ flight \in Work /\ flight.ids \subseteq Ids
  BY <1>1, CalmKeeps, Types, WorkFields
<1> DEFINE running == flight.at # "none"
<1>3. /\ flight'.at = flight.at /\ flight'.file = flight.file /\ flight'.todo = flight.todo
      /\ flight'.drop = flight.drop /\ flight'.gone = flight.gone /\ flight'.gens = flight.gens
      /\ flight'.body = flight.body /\ flight'.ids = flight.ids /\ flight'.latest = flight.latest
      /\ flight'.overtaken = flight.overtaken /\ flight'.stale = running
  <2>1. flight' = [flight EXCEPT !.stale = running]
    BY <1>1
  <2> HIDE DEF running
  <2> QED
    BY <1>2, <2>1 DEF Work
<1>4. ~Runs' /\ (Counts' <=> Counts) /\ \A g : (OnFile(g))' <=> OnFile(g)
  BY <1>3 DEF Runs, Counts, OnFile
<1>5. sync'.at = "writing" =>
        /\ sync'.todo = dirty /\ sync'.drop = deleted /\ sync'.gone = deleted /\ sync'.body = memory
        /\ sync'.ids = Held(memory, corruptIds) /\ sync'.gens = dirtyGen
  <2>1. dirtyGen = [i \in Ids |-> IF i \in dirty THEN dirtyGen[i] ELSE 0]
    BY <1>2, Types
  <2>2. CASE Pending
    BY <1>1, <2>1, <2>2 DEF Snapshot, NoFlush
  <2>3. CASE ~Pending
    BY <1>1, <2>3, NoFlushFields
  <2> QED
    BY <2>2, <2>3
<1>6. sync'.at \in {"none", "writing"} /\ (sync'.at = "none" => sync' = NoFlush)
  BY <1>1 DEF Snapshot, NoFlush
<1>7. SyncShape'
  <2>1. sync'.at = "writing" => flight'.at = "none" \/ flight'.stale
    BY <1>3
  <2>2. Held(memory, corruptIds)' = Held(memory, corruptIds)
    BY <1>1 DEF Calm, Held
  <2> QED
    BY <1>1, <1>5, <1>6, <2>1, <2>2 DEF SyncShape, Calm, Held
<1>8. FlightShape'
  <2>1. flight.at = "none" => flight' = NoFlush
    <3> SUFFICES ASSUME flight.at = "none" PROVE flight' = NoFlush
      OBVIOUS
    <3>1. flight = NoFlush
      BY <1>2 DEF FlightOK, FlightShape
    <3>2. flight' = [NoFlush EXCEPT !.stale = FALSE]
      BY <1>1, <3>1
    <3> QED
      BY <3>2 DEF NoFlush
  <2> QED
    BY <1>1, <1>2, <1>3, <2>1, NoFlushFields, ZenonT(40) DEF FlightOK, FlightShape, Calm
<1>9. FlightStores'
  <2>1. \A i \in Ids : OnFile(i) /\ Counts => i \in dirty \cup deleted /\ flight.body[i] \in since'[i]
    BY <1>1, <1>2, CalmKeeps DEF FlightOK, FlightStores
  <2> QED
    BY <1>1, <1>3, <1>4, <1>5, <2>1 DEF FlightStores, Calm
<1>10. FlightStored' /\ FlightKnows' /\ FlightLists'
  <2>1. FlightStored' /\ FlightKnows'
    BY <1>4 DEF FlightStored, FlightKnows
  <2>2. OnFile(Index) /\ Counts => \A i \in flight.ids : i \in dirty \cup deleted \cup corruptIds \/ memory[i] # 0
    BY <1>2 DEF FlightOK, FlightLists
  <2> QED
    BY <1>1, <1>3, <1>4, <2>1, <2>2 DEF FlightLists, Calm
<1>11. FlightIndex'
  <2>1. /\ \A i \in Ids : Fit(i) => Fit(i)'
        /\ \A i \in Ids : MayBe(i, 0) => MayBe(i, 0)'
    BY <1>1, CalmKeeps DEF StaysFit, Persists
  <2> QED
    BY <1>2, <1>3, <1>4, <2>1 DEF FlightIndex, FlightOK, Listable
<1>12. Aged' /\ Vacant'
  <2>1. Aged'
    BY <1>1, <1>2, <1>3, CalmKeeps DEF Calm, Aged
  <2>2. \A i \in Ids : Saves(flight', i) => Saves(flight, i)
    BY <1>3 DEF Saves
  <2> QED
    BY <1>1, <2>1, <2>2, CalmKeeps
<1> QED
  BY <1>1, <1>7, <1>8, <1>9, <1>10, <1>11, <1>12, CalmKeeps DEF HInv, Calm, FlightOK

(* A write or an unlink of f overtakes the flight at f, and no other. *)
LEMMA Overtakes ==
  ASSUME flight \in Work, NEW f, OvertakesByWrite(f) \/ OvertakesByUnlink(f)
  PROVE  /\ flight'.at = flight.at /\ flight'.file = flight.file /\ flight'.todo = flight.todo
         /\ flight'.drop = flight.drop /\ flight'.gone = flight.gone /\ flight'.gens = flight.gens
         /\ flight'.body = flight.body /\ flight'.ids = flight.ids /\ flight'.stale = flight.stale
         /\ flight' = flight \/ OnFile(f)
         /\ (OnFile(f))' => ~Counts'
         /\ \A g : g # f /\ (OnFile(g))' => OnFile(g) /\ flight' = flight
<1> DEFINE late == flight.at \in {"rename", "unlink"}
<1>1. \/ flight' = flight /\ ~OnFile(f)
      \/ OnFile(f) /\ flight' = [flight EXCEPT !.latest = FALSE, !.overtaken = late]
      \/ OnFile(f) /\ flight' = [flight EXCEPT !.overtaken = TRUE]
  BY DEF OvertakesByWrite, OvertakesByUnlink, OnFile
<1>2. late \in BOOLEAN /\ (OnFile(f) /\ ~late => flight.at = "tmp")
  BY DEF OnFile
<1> HIDE DEF late
<1>3. CASE flight' = flight /\ ~OnFile(f)
  BY <1>3 DEF OnFile
<1>4. CASE OnFile(f) /\ flight' = [flight EXCEPT !.latest = FALSE, !.overtaken = late]
  BY <1>2, <1>4 DEF Work, OnFile, Counts
<1>5. CASE OnFile(f) /\ flight' = [flight EXCEPT !.overtaken = TRUE]
  BY <1>5 DEF Work, OnFile, Counts
<1> QED
  BY <1>1, <1>3, <1>4, <1>5

LEMMA WritingIs ==
  ASSUME HInv, Writing
  PROVE  /\ IInv /\ Kept /\ Aged /\ SyncShape /\ FlightOK /\ IndexOK /\ HeldIsFit /\ Vacant
         /\ loaded /\ ~Runs /\ flight \in Work /\ flight.ids \subseteq Ids /\ sync \in Work
         /\ sync.body = memory /\ sync.gens = dirtyGen /\ sync.ids = Held(memory, corruptIds)
         /\ sync.gone = deleted /\ sync.todo \subseteq dirty /\ sync.drop \subseteq deleted
         /\ \A i \in (dirty \ sync.todo) \cup (deleted \ sync.drop) : i \in raced \/ Parsed(i) = memory[i]
         /\ flight.at = "none" \/ flight.stale
BY Types, WorkFields DEF HInv, Writing, SyncShape, Runs

LEMMA FlushFileStep ==
  ASSUME HInv, HNext, IInv', NEW i \in Ids, FlushShard(i) \/ FlushUnlink(i)
  PROVE  HInv'
<1>1. /\ Writing /\ loaded' = loaded /\ memory' = memory /\ changes' = changes /\ dirty' = dirty
      /\ dirtyGen' = dirtyGen /\ deleted' = deleted /\ corruptIds' = corruptIds /\ setAside' = setAside
      /\ OvertakesByWrite(i) \/ OvertakesByUnlink(i)
  BY DEF FlushShard, FlushUnlink, store
<1>2. /\ IInv /\ Kept /\ Aged /\ SyncShape /\ FlightOK /\ IndexOK /\ HeldIsFit /\ Vacant
      /\ loaded /\ ~Runs /\ flight \in Work /\ flight.ids \subseteq Ids /\ sync \in Work
      /\ sync.todo \subseteq dirty /\ sync.drop \subseteq deleted
      /\ flight.at = "none" \/ flight.stale
  BY <1>1, WritingIs
<1>3. /\ dirty \subseteq Ids /\ deleted \subseteq Ids /\ dirty \cap deleted = {} /\ i # Index /\ index \subseteq Ids
      /\ shard \in [Ids -> Versions] /\ (i \in deleted => memory[i] = 0)
      /\ \A j \in Ids : j # Index
  BY <1>2, Types
<1>4. /\ index' = index /\ shard' = [shard EXCEPT ![i] = memory[i]] /\ corrupt' = corrupt \ {i}
      /\ i \in sync.todo \cup sync.drop
  <2>1. CASE FlushShard(i)
    BY <1>1, <1>3, <2>1, WritingIs DEF FlushShard, Rename
  <2>2. CASE FlushUnlink(i)
    <3>1. memory[i] = 0
      BY <1>2, <1>3, <2>2 DEF FlushUnlink
    <3> QED
      BY <2>2, <3>1 DEF FlushUnlink, Unlink
  <2> QED
    BY <2>1, <2>2
<1>5. /\ shard'[i] = memory[i] /\ Parsed(i)' = memory[i]
      /\ \A j \in Ids : j # i => shard'[j] = shard[j] /\ Parsed(j)' = Parsed(j)
  BY <1>3, <1>4 DEF Parsed
<1>6. /\ \A j \in Ids \cup {Index} : j # i => (j \in raced' <=> j \in raced)
  BY DEF FlushShard, FlushUnlink
<1>7. /\ sync'.at = sync.at /\ sync'.gone = sync.gone /\ sync'.gens = sync.gens /\ sync'.body = sync.body
      /\ sync'.ids = sync.ids /\ sync'.todo \subseteq sync.todo /\ sync'.drop \subseteq sync.drop
      /\ \A j \in Ids : j # i => (j \in sync'.todo <=> j \in sync.todo) /\ (j \in sync'.drop <=> j \in sync.drop)
  BY <1>2 DEF FlushShard, FlushUnlink, Work
<1>8. /\ flight'.at = flight.at /\ flight'.file = flight.file /\ flight'.todo = flight.todo
      /\ flight'.drop = flight.drop /\ flight'.gone = flight.gone /\ flight'.gens = flight.gens
      /\ flight'.body = flight.body /\ flight'.ids = flight.ids /\ flight'.stale = flight.stale
      /\ flight' = flight \/ OnFile(i)
      /\ (OnFile(i))' => ~Counts'
      /\ \A g : g # i /\ (OnFile(g))' => OnFile(g) /\ flight' = flight
  BY <1>1, <1>2, Overtakes
<1>9. ~Runs' /\ \A g : g # i /\ (OnFile(g))' /\ Counts' => OnFile(g) /\ Counts
  BY <1>2, <1>8 DEF Runs, Counts
<1>10. /\ Persists /\ Kept' /\ since' \in [Ids -> SUBSET Versions]
       /\ \A j \in Ids : j \in dirty \cup deleted => since[j] \subseteq since'[j]
  BY <1>1, <1>2, MayBeStays, SinceGrows
<1>11. /\ \A j \in Ids : Fit(j) => Fit(j)'
       /\ \A j \in Ids : MayBe(j, 0) => MayBe(j, 0)'
  <2>1. Fit(i)'
    BY <1>1, <1>5, <1>10 DEF Fit, MayBe, Kept
  <2>2. \A j \in Ids : j # i /\ Fit(j) => Fit(j)'
    BY <1>5, <1>6, <1>10 DEF Fit, MayBe, Persists
  <2>3. \A j \in Ids : MayBe(j, 0) => MayBe(j, 0)'
    BY <1>10 DEF Persists
  <2> QED
    BY <2>1, <2>2, <2>3
<1>12. IndexOK' /\ HeldIsFit'
  BY <1>1, <1>2, <1>3, <1>4, <1>6, <1>11 DEF IndexOK, HeldIsFit, Listable
<1>13. Vacant'
  <2>1. \A j \in Ids : Saves(flight, j)' <=> Saves(flight, j)
    BY <1>8 DEF Saves
  <2>2. i \in dirty \cup deleted
    BY <1>2, <1>4
  <2> QED
    BY <1>1, <1>2, <1>3, <1>4, <1>5, <1>6, <2>1, <2>2 DEF Vacant
<1>14. SyncShape'
  <2>1. \A j \in (dirty \ sync'.todo) \cup (deleted \ sync'.drop) : j \in raced' \/ Parsed(j)' = memory[j]
    <3> SUFFICES ASSUME NEW j \in (dirty \ sync'.todo) \cup (deleted \ sync'.drop), j # i
                 PROVE  j \in raced' \/ Parsed(j)' = memory[j]
      BY <1>5
    <3>1. j \in Ids /\ j \in (dirty \ sync.todo) \cup (deleted \ sync.drop)
      BY <1>3, <1>7
    <3> QED
      BY <1>1, <1>5, <1>6, <3>1, WritingIs
  <2>2. Held(memory, corruptIds)' = Held(memory, corruptIds)
    BY <1>1 DEF Held
  <2>3. sync.at = "writing"
    BY <1>1 DEF Writing
  <2> QED
    BY <1>1, <1>2, <1>7, <1>8, <2>1, <2>2, <2>3, WritingIs DEF SyncShape
<1>15. FlightShape'
  <2>1. flight'.at = "none" => flight' = flight
    BY <1>8 DEF OnFile
  <2>2. ~flight'.stale => flight'.at = "none"
    BY <1>2, <1>8
  <2> QED
    BY <1>1, <1>2, <1>8, <2>1, <2>2, NoFlushFields DEF FlightOK, FlightShape
<1>16. FlightStores'
  <2> SUFFICES ASSUME NEW j \in Ids, (OnFile(j))', Counts'
               PROVE  /\ j \in dirty \cup deleted /\ flight.body[j] \in since'[j]
                      /\ sync'.at = "writing" => j \in sync'.todo \cup sync'.drop
    BY <1>1, <1>8, <1>9 DEF FlightStores
  <2>1. j # i /\ OnFile(j) /\ Counts
    BY <1>8, <1>9
  <2>2. /\ j \in dirty \cup deleted /\ flight.body[j] \in since[j]
        /\ sync.at = "writing" => j \in sync.todo \cup sync.drop
    BY <1>2, <2>1 DEF FlightOK, FlightStores
  <2> QED
    BY <1>7, <1>10, <2>1, <2>2
<1>17. FlightStored' /\ FlightKnows' /\ FlightLists'
  <2>1. FlightStored' /\ FlightKnows'
    BY <1>9 DEF FlightStored, FlightKnows
  <2>2. (OnFile(Index))' /\ Counts' => \A j \in flight.ids : j \in dirty \cup deleted \cup corruptIds \/ memory[j] # 0
    BY <1>2, <1>3, <1>9 DEF FlightOK, FlightLists
  <2> QED
    BY <1>1, <1>8, <1>9, <2>1, <2>2 DEF FlightLists
<1>18. FlightIndex'
  <2>1. (OnFile(Index))' => OnFile(Index)
    BY <1>8 DEF OnFile
  <2>2. (OnFile(Index))' /\ Counts' => OnFile(Index) /\ Counts
    BY <1>3, <1>9
  <2>3. (OnFile(Index))' => \A j \in flight.ids : Fit(j)'
    BY <1>2, <1>11, <2>1 DEF FlightIndex, FlightOK
  <2>4. (OnFile(Index))' /\ Counts' => \A j \in Ids : IF j \in flight.ids THEN Fit(j)' ELSE MayBe(j, 0)'
    BY <1>2, <1>11, <2>2 DEF FlightIndex, FlightOK, Listable
  <2> QED
    BY <1>8, <1>9, <2>3, <2>4 DEF FlightIndex, Listable
<1>19. Aged'
  <2>1. \A j \in Ids : shard'[j] <= changes
    BY <1>2, <1>5 DEF Aged
  <2> QED
    BY <1>1, <1>2, <1>8, <2>1 DEF Aged
<1> QED
  BY <1>1, <1>2, <1>10, <1>12, <1>13, <1>14, <1>15, <1>16, <1>17, <1>18, <1>19 DEF HInv, FlightOK, Aged

LEMMA FlushIndexStep == ASSUME HInv, HNext, IInv', FlushIndex PROVE HInv'
<1>1. /\ Writing /\ loaded' = loaded /\ memory' = memory /\ changes' = changes
      /\ corruptIds' = corruptIds /\ setAside' = setAside /\ sync' = NoFlush /\ raced' = raced \ {Index}
      /\ index' = sync.ids /\ shard' = shard /\ corrupt' = corrupt /\ ClearPersisted(sync)
      /\ OvertakesByWrite(Index) /\ sync.todo = {} /\ sync.drop = {}
  BY DEF FlushIndex, Rename
<1>2. /\ IInv /\ Kept /\ Aged /\ SyncShape /\ FlightOK /\ IndexOK /\ HeldIsFit /\ Vacant
      /\ loaded /\ ~Runs /\ flight \in Work /\ flight.ids \subseteq Ids
      /\ flight.at = "none" \/ flight.stale
      /\ \A i \in dirty \cup deleted : i \in raced \/ Parsed(i) = memory[i]
  BY <1>1, WritingIs
<1>3. dirty' = {} /\ deleted' = {} /\ index' = Held(memory, corruptIds)
  <2>1. Written(sync) = dirty
    BY <1>1, WritingIs DEF Written
  <2> QED
    BY <1>1, <2>1, WritingIs DEF ClearPersisted
<1>4. /\ flight'.at = flight.at /\ flight'.file = flight.file /\ flight'.todo = flight.todo
      /\ flight'.drop = flight.drop /\ flight'.gone = flight.gone /\ flight'.gens = flight.gens
      /\ flight'.body = flight.body /\ flight'.ids = flight.ids /\ flight'.stale = flight.stale
      /\ flight' = flight \/ OnFile(Index)
      /\ (OnFile(Index))' => ~Counts'
      /\ \A g : g # Index /\ (OnFile(g))' => OnFile(g) /\ flight' = flight
  BY <1>1, <1>2, Overtakes
<1>5. ~Runs' /\ \A i \in Ids : (OnFile(i))' => ~Counts'
  <2>1. \A i \in Ids : i # Index
    BY <1>2, Types
  <2>2. \A i \in Ids : OnFile(i) => ~Counts
    BY <1>1, <1>2 DEF FlightOK, FlightStores, Writing
  <2>3. flight' = flight => (Counts' <=> Counts)
    BY DEF Counts
  <2> QED
    BY <1>2, <1>4, <2>1, <2>2, <2>3 DEF Runs
<1>6. Kept' /\ since' \in [Ids -> SUBSET Versions]
  BY <1>1, <1>2, SinceGrows
<1>7. /\ \A i \in Ids : Fit(i) => Fit(i)'
      /\ \A i \in Ids : memory[i] # 0 \/ i \in corruptIds => Fit(i)'
  <2>1. \A i \in Ids : i \in raced' <=> i \in raced
    BY <1>1, <1>2, Types
  <2>2. \A i \in Ids : i \in dirty \cup deleted => Fit(i)'
    BY <1>1, <1>2, <1>3, <2>1 DEF Fit, MayBe, Parsed
  <2>3. \A i \in Ids : i \notin dirty \cup deleted /\ Fit(i) => Fit(i)'
    BY <1>1, <1>3, <2>1 DEF Fit, MayBe, Parsed
  <2>4. \A i \in Ids : (memory[i] # 0 /\ i \notin dirty) \/ i \in corruptIds => Fit(i)
    BY <1>2 DEF HeldIsFit
  <2> QED
    BY <2>2, <2>3, <2>4
<1>8. IndexOK' /\ HeldIsFit' /\ Vacant'
  <2>1. \A i \in Ids : i \notin index' => MayBe(i, 0)'
    BY <1>1, <1>3 DEF Held, MayBe
  <2>2. \A i \in Ids : i \in index' => Fit(i)'
    BY <1>3, <1>7 DEF Held
  <2>3. IndexOK'
    BY <2>1, <2>2 DEF IndexOK, Listable
  <2>4. HeldIsFit'
    BY <1>1, <1>7 DEF HeldIsFit
  <2>5. Vacant'
    BY <1>1, <1>3 DEF Vacant, Held
  <2> QED
    BY <2>3, <2>4, <2>5
<1>9. SyncShape'
  BY <1>1, NoFlushFields DEF SyncShape
<1>10. FlightShape'
  <2>1. flight'.at = "none" => flight' = flight
    BY <1>4 DEF OnFile
  <2>2. ~flight'.stale => flight'.at = "none"
    BY <1>2, <1>4
  <2> QED
    BY <1>1, <1>2, <1>4, <2>1, <2>2, NoFlushFields DEF FlightOK, FlightShape
<1>11. FlightStores' /\ FlightStored' /\ FlightKnows' /\ FlightLists'
  BY <1>4, <1>5 DEF FlightStores, FlightStored, FlightKnows, FlightLists
<1>12. FlightIndex'
  <2>1. (OnFile(Index))' => \A i \in flight.ids : Fit(i)'
    <3>1. (OnFile(Index))' => OnFile(Index)
      BY <1>4 DEF OnFile
    <3> QED
      BY <1>2, <1>7, <3>1 DEF FlightIndex, FlightOK
  <2> QED
    BY <1>4, <1>5, <2>1 DEF FlightIndex
<1>13. Aged'
  BY <1>1, <1>2, <1>4 DEF Aged
<1> QED
  BY <1>1, <1>2, <1>6, <1>8, <1>9, <1>10, <1>11, <1>12, <1>13 DEF HInv, FlightOK, Aged

-----------------------------------------------------------------------------
(* The process *)

LEMMA DownStep ==
  ASSUME HInv, HNext, IInv', Crash \/ \E i \in Ids : Damage(i)
  PROVE  HInv'
<1>1. ~loaded' /\ raced' = {} /\ shard' = shard /\ changes' = changes
  BY DEF Crash, Damage, disk, store, HInv
<1> QED
  BY <1>1, SinceTyped DEF HInv

LEMMA LoadStep == ASSUME HInv, HNext, IInv', Load PROVE HInv'
<1> DEFINE bad == index \cap corrupt
<1>1. /\ ~loaded /\ loaded' /\ raced = {} /\ raced' = {} /\ changes' = changes
      /\ dirty = {} /\ deleted = {} /\ flight = NoFlush /\ sync = NoFlush
      /\ dirty' = {} /\ deleted' = {} /\ flight' = NoFlush /\ sync' = NoFlush /\ index' = index
      /\ memory' = [i \in Ids |-> Durable(i)]
      /\ corruptIds' = bad \cup {i \in index : shard[i] = 0 /\ i \in setAside}
      /\ shard' = [i \in Ids |-> IF i \in bad THEN 0 ELSE shard[i]]
      /\ corrupt' = corrupt \ bad /\ setAside' = setAside \cup bad
  BY DEF Load, HInv, IInv, QuietBeforeLoad
<1>2. /\ IInv /\ index \subseteq Ids /\ changes \in Nat
      /\ \A i \in Ids : shard[i] <= changes /\ shard[i] \in Nat
  BY Types DEF HInv
<1>3. \A i \in Ids : /\ memory'[i] = IF i \in index /\ i \notin corrupt THEN shard[i] ELSE 0
                     /\ shard'[i] = IF i \in index /\ i \in corrupt THEN 0 ELSE shard[i]
                     /\ i \in index => Parsed(i)' = memory'[i]
  BY <1>1 DEF Durable, Parsed
<1>4. Kept' /\ since' \in [Ids -> SUBSET Versions]
  BY <1>1, SinceGrows
<1>5. /\ \A i \in Ids : i \in index => Fit(i)'
      /\ \A i \in Ids : i \notin index => MayBe(i, 0)'
  BY <1>1, <1>3 DEF Fit, MayBe
<1>6. IndexOK' /\ HeldIsFit'
  <2>1. IndexOK'
    BY <1>1, <1>5 DEF IndexOK, Listable
  <2> QED
    BY <1>1, <1>3, <1>5, <2>1 DEF HeldIsFit
<1>7. Vacant'
  BY <1>1, <1>2, <1>3, NoFlushFields DEF Vacant, Saves
<1>8. \A i \in Ids : memory'[i] <= changes' /\ shard'[i] <= changes'
  BY <1>1, <1>2, <1>3
<1>9. FlightOK' /\ Aged'
  BY <1>1, <1>4, <1>6, <1>8, RestedNext DEF Rested
<1>10. SyncShape'
  BY <1>1, NoFlushFields DEF SyncShape
<1> QED
  BY <1>1, <1>4, <1>6, <1>7, <1>8, <1>9, <1>10 DEF HInv

-----------------------------------------------------------------------------
(* The invariant *)

LEMMA HInitKeeps == HInit => HInv
<1> SUFFICES ASSUME HInit PROVE HInv
  OBVIOUS
<1>1. IInv /\ ~loaded /\ raced = {}
  BY InitIInv DEF HInit, Init
<1>2. since \in [Ids -> SUBSET Versions]
  BY ZeroIsAVersion DEF HInit
<1>3. \A i \in Ids : shard[i] <= changes
  <2>1. changes = 0
    BY DEF HInit, Init
  <2>2. \A i \in Ids : shard[i] = 0
    BY DEF HInit, Init
  <2> QED
    BY <2>1, <2>2, 0 <= 0
<1> QED
  BY <1>1, <1>2, <1>3 DEF HInv

LEMMA HStutters == ASSUME HInv, UNCHANGED <<vars, since>> PROVE HInv'
BY DEF HInv, vars, store, disk, IInv, TypeOK, QuietBeforeLoad, Kept, Aged, SyncShape, FlightOK, IndexOK,
       HeldIsFit, Vacant, FlightShape, FlightStores, FlightStored, FlightKnows, FlightLists, FlightIndex,
       Listable, Later, OnFile, Counts, Runs, Saves, Fit, MayBe, Parsed, Held

LEMMA HNextKeeps == HInv /\ [HNext]_<<vars, since>> => HInv'
<1> SUFFICES ASSUME HInv, [HNext]_<<vars, since>> PROVE HInv'
  OBVIOUS
<1>1. CASE UNCHANGED <<vars, since>>
  BY <1>1, HStutters
<1>2. CASE HNext
  <2>1. IInv' /\ Next
    BY <1>2, NextKeeps DEF HNext, HInv
  <2>2. CASE \E i \in Ids : Change(i) \/ Remove(i)
    BY <1>2, <2>1, <2>2, StoreStep
  <2>3. CASE \E i \in Ids : FlushShard(i) \/ FlushUnlink(i)
    BY <1>2, <2>1, <2>3, FlushFileStep
  <2>4. CASE Crash \/ \E i \in Ids : Damage(i)
    BY <1>2, <2>1, <2>4, DownStep
  <2>5. CASE TimerFires \/ \E k \in Callers : TurnEnds(k)
    BY <1>2, <2>1, <2>5, FlushAsyncStep
  <2>6. CASE NextFile \/ TmpWritten \/ PoolStep
    BY <1>2, <2>1, <2>6, NextFileStep, TmpWrittenStep, PoolKeeps
  <2>7. CASE FlightLands \/ FlightAbandoned \/ FlightFails
    BY <1>2, <2>1, <2>7, FlightLandsStep, FlightDropped
  <2>8. CASE Flush \/ FlushIndex \/ FlushFails
    BY <1>2, <2>1, <2>8, FlushStep, FlushIndexStep, FlushFailsStep
  <2>9. CASE Load
    BY <1>2, <2>1, <2>9, LoadStep
  <2> QED
    BY <2>1, <2>2, <2>3, <2>4, <2>5, <2>6, <2>7, <2>8, <2>9 DEF Next
<1> QED
  BY <1>1, <1>2

LEMMA HSpecKeeps == HSpec => []HInv
BY HInitKeeps, HNextKeeps, PTL DEF HSpec

(* What a crash would bring back, once the index is to be relied on. *)
LEMMA DurableMayBe ==
  ASSUME HInv, loaded, Index \notin raced, NEW i \in Ids, i \notin raced
  PROVE  IF i \in dirty \cup deleted THEN Durable(i) \in since[i] ELSE Durable(i) = memory[i]
<1>1. IF i \in index THEN Fit(i) ELSE MayBe(i, 0)
  BY DEF HInv, IndexOK, Listable
<1>2. Durable(i) = IF i \in index THEN Parsed(i) ELSE 0
  BY DEF Durable, Parsed
<1> QED
  BY <1>1, <1>2 DEF Fit, MayBe

-----------------------------------------------------------------------------
(* What follows *)

(* For every set of ids and callers and every bound, a conversation that the *)
(* store believes saved is on disk as it is in memory.                       *)
THEOREM CleanIsSaved == HSpec => []CleanIsDurable
<1>1. HInv => CleanIsDurable
  BY DurableMayBe DEF CleanIsDurable
<1> QED
  BY <1>1, HSpecKeeps, PTL

(* A listed id that neither the store holds nor a file is there for. *)
LEMMA UnlistedHasNoFile ==
  ASSUME HInv, loaded, Index \notin raced, NEW i \in index,
         i \notin corruptIds \cup dirty \cup deleted, memory[i] = 0
  PROVE  shard[i] = 0 /\ i \notin setAside
BY DEF HInv, Vacant

(* No flush takes a conversation with a file off the index, except one that  *)
(* was removed or is still to be written, as long as no race touches it.     *)
THEOREM IndexIsKept == HSpec => OnlyRemovalsLeaveTheIndex
<1> DEFINE Keeps ==
      Index \notin raced \cup raced' =>
        {i \in index \ index' : shard[i] # 0 \/ i \in setAside} \subseteq dirty' \cup deleted
<1>1. ASSUME HInv, PoolStep, HNext, IInv' PROVE Keeps
  <2> SUFFICES ASSUME Index \notin raced \cup raced', NEW i \in index \ index', i \notin dirty \cup deleted
               PROVE  shard[i] = 0 /\ i \notin setAside
    BY <1>1, PoolStepIs
  <2>1. i \in Ids /\ loaded
    BY <1>1, PoolStepIs, Types
  <2>2. flight.at = "rename" /\ flight.file = Index /\ index' = flight.ids
    BY <1>1 DEF PoolStep, Rename, Unlink
  <2>3. i \notin corruptIds
    BY <1>1, <2>1, <2>2, PoolStepIs DEF FlightOK, FlightShape
  <2>4. memory[i] = 0
    <3>1. Counts \/ flight.ids = Held(memory, corruptIds)
      BY <1>1, <2>2 DEF PoolStep, Overtaken, Current, Counts
    <3>2. Counts => MayBe(i, 0)
      BY <1>1, <2>1, <2>2, PoolStepIs DEF FlightOK, FlightIndex, Listable
    <3> QED
      BY <2>1, <2>2, <3>1, <3>2 DEF Held, MayBe
  <2> QED
    BY <1>1, <2>1, <2>3, <2>4, UnlistedHasNoFile
<1>2. ASSUME HInv, FlushIndex PROVE Keeps
  <2>1. index' = Held(memory, corruptIds) /\ loaded /\ IInv
    BY <1>2, WritingIs DEF FlushIndex, Rename
  <2> SUFFICES ASSUME Index \notin raced \cup raced', NEW i \in index \ index', i \notin deleted
               PROVE  shard[i] = 0 /\ i \notin setAside
    OBVIOUS
  <2>2. i \in Ids /\ memory[i] = 0 /\ i \notin corruptIds \cup dirty
    BY <2>1, Types DEF Held
  <2> QED
    BY <1>2, <2>1, <2>2, UnlistedHasNoFile
<1>3. ASSUME Next, index' # index PROVE PoolStep \/ FlushIndex
  BY <1>3, FilesAssumption
     DEF Next, Change, Remove, FlushShard, FlushUnlink, Damage, TurnEnds, TimerFires, NextFile, TmpWritten,
         FlightLands, FlightAbandoned, FlightFails, Flush, FlushFails, Crash, Load, disk, Rename, Unlink
<1>4. HInv /\ [HNext]_<<vars, since>> => [Keeps]_vars
  <2> SUFFICES ASSUME HInv, HNext PROVE Keeps
    OBVIOUS
  <2>1. IInv' /\ Next
    BY NextKeeps DEF HNext, HInv
  <2>2. CASE index' = index
    BY <2>2
  <2>3. CASE index' # index
    BY <1>1, <1>2, <1>3, <2>1, <2>3
  <2> QED
    BY <2>2, <2>3
<1> QED
  BY <1>4, HSpecKeeps, PTL DEF HSpec, OnlyRemovalsLeaveTheIndex
-----------------------------------------------------------------------------
(* The refinement *)

(* While the process is down, a conversation has only been what load makes of it. *)
Down == ~loaded => \A i \in Ids : since[i] = {Durable(i)}

LEMMA SinceIs ==
  ASSUME HNext
  PROVE  \A i \in Ids : since'[i] = IF Status'[i] = "safe" THEN {Value'[i]} ELSE since[i] \cup {Value'[i]}
BY DEF HNext, Store!Since

LEMMA HSpecDown == HSpec => []Down
<1>1. HInit => Down
  BY DEF HInit, Init, Down, Durable
<1>2. Down /\ [HNext]_<<vars, since>> => Down'
  <2> SUFFICES ASSUME Down, [HNext]_<<vars, since>> PROVE Down'
    OBVIOUS
  <2>1. CASE HNext
    BY <2>1, SinceIs DEF Down, Status, Value
  <2>2. CASE UNCHANGED <<vars, since>>
    BY <2>2 DEF Down, Durable, vars, store, disk
  <2> QED
    BY <2>1, <2>2
<1> QED
  BY <1>1, <1>2, PTL DEF HSpec

LEMMA ValueTyped == ASSUME IInv PROVE \A i \in Ids : Value[i] \in Versions /\ Durable(i) \in Versions
BY ZeroIsAVersion DEF Value, Durable, IInv, TypeOK

LEMMA ValueTypedNext == ASSUME IInv' PROVE \A i \in Ids : Value'[i] \in Versions /\ Durable(i)' \in Versions
BY ZeroIsAVersion DEF Value, Durable, IInv, TypeOK

(* Whatever changes no conversation is a write. *)
LEMMA WriteMaps ==
  ASSUME HInv, HNext, loaded, loaded', memory' = memory, dirty' \cup deleted' \subseteq dirty \cup deleted
  PROVE  Store!Write
<1>1. Value' = Value
  BY DEF Value
<1>2. \A i \in Ids : Status'[i] \in {"safe", "pending", "doubtful"} /\ (Status'[i] = "pending" => Status[i] # "safe")
  BY DEF Status
<1>3. Status' \in [Ids -> {"safe", "pending", "doubtful"}]
  BY <1>2 DEF Status
<1>4. since' = Store!Since(Value, Status', since)
  BY <1>1 DEF HNext, Store!Since
<1> QED
  BY <1>1, <1>2, <1>3, <1>4 DEF Store!Write

LEMMA SetMaps ==
  ASSUME HInv, HNext, IInv', NEW i \in Ids, Change(i) \/ Remove(i)
  PROVE  Store!Set(i)
<1>1. loaded /\ loaded' = loaded
  BY DEF Change, Remove, Idle
<1>2. memory \in [Ids -> Versions] /\ memory'[i] \in Versions /\ i # Index
  BY Types DEF HInv, IInv, TypeOK
<1>3. memory' = [memory EXCEPT ![i] = memory'[i]]
  BY <1>2 DEF Change, Remove
<1>4. Value' = [Value EXCEPT ![i] = memory'[i]]
  BY <1>1, <1>2, <1>3 DEF Value
<1>5. \A j \in Ids \ {i} : Status'[j] = Status[j]
  <2>1. \A j \in Ids \ {i} : /\ j \in dirty' \cup deleted' <=> j \in dirty \cup deleted
                             /\ j \in raced' <=> j \in raced
                             /\ Index \in raced' <=> Index \in raced
    BY <1>2 DEF Change, Remove
  <2> QED
    BY <1>1, <2>1 DEF Status
<1>6. Status'[i] \in {"pending", "doubtful"}
  <2>1. i \in dirty' \cup deleted'
    BY DEF Change, Remove
  <2> QED
    BY <1>1, <2>1 DEF Status
<1>7. Status' = [Status EXCEPT ![i] = Status'[i]]
  BY <1>5, <1>6 DEF Status
<1>8. since' = Store!Since(Value', Status', since)
  BY DEF HNext
<1> QED
  BY <1>1, <1>2, <1>4, <1>6, <1>7, <1>8 DEF Store!Set

LEMMA CrashMaps == ASSUME HInv, HNext, IInv', Crash PROVE Store!Crash
<1>1. loaded /\ loaded' = FALSE /\ shard' = shard /\ index' = index /\ corrupt' = corrupt
  BY DEF Crash, disk
<1>2. Value' \in [Ids -> Versions]
  BY ValueTypedNext DEF Value
<1>3. \A i \in Ids : Status[i] # "doubtful" => Value'[i] \in since[i]
  <2> SUFFICES ASSUME NEW i \in Ids, Status[i] # "doubtful" PROVE Durable(i) \in since[i]
    BY <1>1 DEF Value, Durable
  <2>1. i \notin raced /\ Index \notin raced
    BY <1>1 DEF Status
  <2> QED
    BY <1>1, <2>1, DurableMayBe DEF HInv, Kept
<1>4. Status' = [i \in Ids |-> "safe"]
  BY <1>1 DEF Status
<1>5. since' = Store!Since(Value', Status', since)
  BY DEF HNext
<1> QED
  BY <1>1, <1>2, <1>3, <1>4, <1>5 DEF Store!Crash

LEMMA DamageMaps == ASSUME HInv, HNext, NEW i \in Ids, Damage(i) PROVE Store!Damage(i)
<1>1. /\ ~loaded /\ loaded' = loaded /\ shard' = shard /\ index' = index /\ corrupt' = corrupt \cup {i}
  BY DEF Damage, store
<1>2. Value' = [Value EXCEPT ![i] = 0]
  BY <1>1 DEF Value, Durable
<1>3. Status' = Status
  BY <1>1 DEF Status
<1>4. since' = Store!Since(Value', Status, since)
  BY <1>3 DEF HNext, Store!Since
<1> QED
  BY <1>1, <1>2, <1>3, <1>4 DEF Store!Damage

LEMMA LoadMaps == ASSUME HInv, Down, HNext, IInv', Load PROVE Store!Load
<1>1. ~loaded /\ loaded' = TRUE /\ raced' = {} /\ dirty' = {} /\ deleted' = {} /\ \A i \in Ids : memory'[i] = Durable(i)
  BY DEF Load, HInv, IInv, QuietBeforeLoad
<1>2. Value' = Value /\ Status' = Status
  BY <1>1 DEF Value, Status
<1>3. \A i \in Ids : since'[i] = since[i]
  BY <1>1, SinceIs DEF Down, Value, Status
<1>4. since' = since
  BY <1>1, <1>3, SinceGrows DEF HInv
<1> QED
  BY <1>1, <1>2, <1>4 DEF Store!Load

(* ConversationPersist implements DurableStore: a crash leaves every         *)
(* conversation as it was at some moment since the store last held it for    *)
(* saved, whatever the two flushes, the pool and failing writes do.          *)
THEOREM PersistRefines == HSpec => ImplementsDurableStore
<1>1. HInit => Store!DurableInit
  BY DEF HInit, Init, Store!DurableInit, Value, Status, Durable
<1>2. HInv /\ Down /\ [HNext]_<<vars, since>> => [Store!DurableNext]_(Store!durableVars)
  <2> SUFFICES ASSUME HInv, Down, [HNext]_<<vars, since>>
               PROVE  Store!DurableNext \/ UNCHANGED Store!durableVars
    OBVIOUS
  <2>1. CASE UNCHANGED <<vars, since>>
    BY <2>1 DEF Store!durableVars, Value, Status, Durable, vars, store, disk
  <2>2. CASE HNext
    <3>1. IInv' /\ Next
      BY <2>2, NextKeeps DEF HNext, HInv
    <3>2. ASSUME NEW i \in Ids, Change(i) \/ Remove(i) PROVE Store!DurableNext
      BY <2>2, <3>1, <3>2, SetMaps DEF Store!DurableNext
    <3>3. CASE Crash
      BY <2>2, <3>1, <3>3, CrashMaps DEF Store!DurableNext
    <3>4. ASSUME NEW i \in Ids, Damage(i) PROVE Store!DurableNext
      BY <2>2, <3>4, DamageMaps DEF Store!DurableNext
    <3>5. CASE Load
      BY <2>2, <3>1, <3>5, LoadMaps DEF Store!DurableNext
    <3>6. CASE \/ \E i \in Ids : FlushShard(i) \/ FlushUnlink(i)
               \/ TimerFires \/ \E k \in Callers : TurnEnds(k)
               \/ NextFile \/ TmpWritten \/ PoolStep \/ FlightAbandoned \/ FlightFails
               \/ Flush \/ FlushFails
      <4>1. loaded /\ loaded' /\ memory' = memory /\ dirty' = dirty /\ deleted' = deleted
        BY <3>6 DEF FlushShard, FlushUnlink, TimerFires, TurnEnds, NextFile, TmpWritten, PoolStep,
                    FlightAbandoned, FlightFails, Flush, FlushFails, Idle, Writing, store
      <4> QED
        BY <2>2, <4>1, WriteMaps DEF Store!DurableNext
    <3>7. CASE FlightLands \/ FlushIndex
      <4>1. loaded /\ loaded' /\ memory' = memory /\ dirty' \cup deleted' \subseteq dirty \cup deleted
        BY <3>7 DEF FlightLands, FlushIndex, ClearPersisted, Idle, Writing
      <4> QED
        BY <2>2, <4>1, WriteMaps DEF Store!DurableNext
    <3> QED
      BY <3>1, <3>2, <3>3, <3>4, <3>5, <3>6, <3>7 DEF Next
  <2> QED
    BY <2>1, <2>2
<1> QED
  BY <1>1, <1>2, HSpecKeeps, HSpecDown, PTL DEF HSpec, ImplementsDurableStore, Store!DurableSpec



-----------------------------------------------------------------------------
(* The turn end that waits for its flight *)

(* The disk has what the turn end found, or a race has i. *)
Brought(i, v) == i \in raced \/ Parsed(i) >= v

(* What turn end k may count on for a conversation it found, which nobody    *)
(* has removed since: it is in the flight's snapshot as it was or newer, and *)
(* on disk if the flight need not write it, or has been abandoned and the    *)
(* synchronous flush is over.                                                *)
Owes(k, i) ==
  LET v == call[k].due[i] IN
  /\ memory[i] >= v /\ flight.body[i] >= v
  /\ failures = 0 /\ ~flight.stale /\ ~Saves(flight, i) => Brought(i, v)
  /\ failures = 0 /\ flight.stale /\ sync.at = "none" => Brought(i, v) /\ (Index \in raced \/ i \in index)

OInv ==
  \A k \in Callers : call[k].at = "owner" =>
    /\ loaded /\ flight.at # "none"
    /\ \A i \in Ids : call[k].due[i] # 0 => Owes(k, i)

LEMMA OwedVersion ==
  ASSUME HInv
  PROVE  /\ \A k \in Callers, i \in Ids : call[k].due[i] \in Nat /\ call[k].at \in {"idle", "owner", "waiting", "returned"}
         /\ failures \in Nat /\ call \in [Callers -> [at : {"idle", "owner", "waiting", "returned"}, due : [Ids -> Versions]]]
BY BoundsAssumption DEF HInv, IInv, TypeOK, Versions

(* The same of the next state. *)
LEMMA NextVersion ==
  ASSUME HInv'
  PROVE  /\ \A i \in Ids : memory'[i] \in Nat /\ Parsed(i)' \in Nat
         /\ \A k \in Callers, i \in Ids : call'[k].due[i] \in Nat
         /\ failures' \in Nat
BY BoundsAssumption DEF HInv, IInv, TypeOK, Versions, Parsed

(* What is held and clean has its shard. *)
LEMMA CleanIsBrought ==
  ASSUME HInv', loaded', NEW i \in Ids, i \notin dirty', memory'[i] # 0, NEW v \in Nat, memory'[i] >= v
  PROVE  Brought(i, v)'
<1>1. i \in raced' \/ Parsed(i)' = memory'[i]
  BY DEF HInv, IInv, TypeOK, HeldIsFit, Fit, MayBe
<1> QED
  BY <1>1 DEF Brought

(* A step that writes nothing and lets the flight be. *)
LEMMA OwesStays ==
  ASSUME NEW k \in Callers, NEW i \in Ids, Owes(k, i), call'[k].due[i] = call[k].due[i], memory'[i] >= call[k].due[i],
         flight'.body = flight.body, flight'.gens = flight.gens, flight'.gone = flight.gone, flight'.stale = flight.stale,
         failures' = 0 => failures = 0, sync'.at = "none" /\ failures' = 0 /\ flight.stale => sync.at = "none",
         shard' = shard, corrupt' = corrupt, index' = index, raced \subseteq raced'
  PROVE  Owes(k, i)'
<1> DEFINE v == call[k].due[i]
<1>1. /\ memory'[i] >= v /\ flight'.body[i] >= v
      /\ Brought(i, v) => i \in raced' \/ Parsed(i)' >= v
      /\ Index \in raced \/ i \in index => Index \in raced' \/ i \in index'
      /\ Saves(flight', i) <=> Saves(flight, i)
  BY DEF Owes, Brought, Parsed, Saves
<1> QED
  BY <1>1 DEF Owes, Brought

(* A flight that starts. *)
LEMMA OwesAtStart ==
  ASSUME HInv', loaded', NEW k \in Callers, NEW i \in Ids, memory' = memory,
         flight' = Snapshot(dirty', dirtyGen', deleted', "mkdir"), call'[k].due[i] # 0, memory'[i] >= call'[k].due[i]
  PROVE  Owes(k, i)'
<1> PICK v \in Nat : v = call'[k].due[i]
  BY NextVersion
<1>1. /\ flight'.body = memory' /\ ~flight'.stale
      /\ flight'.gens = [j \in Ids |-> IF j \in dirty' THEN dirtyGen'[j] ELSE 0]
  BY DEF Snapshot, NoFlush
<1>2. memory'[i] # 0 /\ memory'[i] >= v
  BY NextVersion
<1>3. i \in dirty' => Saves(flight', i)
  BY <1>1 DEF Saves, HInv, IInv, TypeOK
<1>4. i \notin dirty' => Brought(i, v)'
  BY <1>2, CleanIsBrought
<1>5. Brought(i, v)' => Brought(i, call[k].due[i])'
  BY DEF Brought
<1>6. flight'.body[i] >= call'[k].due[i]
  BY <1>1
<1> QED
  BY <1>1, <1>3, <1>4, <1>5, <1>6 DEF Owes

(* Who owes now and owed before. *)
LEMMA OwedBefore ==
  ASSUME HInv, OInv, NEW k \in Callers, NEW i \in Ids, call' = call, call'[k].at = "owner", call'[k].due[i] # 0
  PROVE  /\ Owes(k, i) /\ loaded /\ flight.at # "none"
         /\ call'[k].due[i] = call[k].due[i] /\ call[k].due[i] \in Nat /\ memory[i] >= call[k].due[i]
         /\ flight.body[i] >= call[k].due[i]
BY OwedVersion DEF OInv, Owes

LEMMA ChangeOwes ==
  ASSUME HInv, HInv', OInv, NEW j \in Ids, Change(j) \/ Remove(j), NEW k \in Callers, NEW i \in Ids,
         call'[k].at = "owner", call'[k].due[i] # 0
  PROVE  Owes(k, i)'
<1>1. loaded /\ changes \in Nat /\ memory \in [Ids -> Versions] /\ Aged
      /\ call \in [Callers -> [at : {"idle", "owner", "waiting", "returned"}, due : [Ids -> Versions]]]
  BY BoundsAssumption DEF Change, Remove, Idle, HInv, IInv, TypeOK, Versions
<1>2. call[k].at = "owner" /\ call'[k].due[i] = call[k].due[i] /\ (Change(j) \/ i # j)
  <2>1. CASE Change(j)
    BY <2>1 DEF Change
  <2>2. CASE Remove(j)
    <3>1. call' = [c \in Callers |-> [call[c] EXCEPT !.due[j] = 0]]
      BY <2>2 DEF Remove
    <3>2. call'[k].at = call[k].at /\ call'[k].due = [call[k].due EXCEPT ![j] = 0]
      BY <1>1, <3>1
    <3> QED
      BY <1>1, <3>2
  <2> QED
    BY <2>1, <2>2
<1>3. Owes(k, i) /\ memory[i] >= call[k].due[i] /\ call[k].due[i] \in Nat /\ memory[i] \in Nat
  BY <1>2, OwedVersion, Types DEF OInv, Owes, HInv
<1>4. memory'[i] >= call[k].due[i]
  <2>1. CASE Change(j) /\ i = j
    <3>1. memory'[i] = changes + 1 /\ memory[i] <= changes
      BY <1>1, <2>1 DEF Change, Aged
    <3> QED
      BY <1>1, <1>3, <3>1
  <2>2. CASE i # j
    <3>1. memory'[i] = memory[i]
      BY <1>1, <2>2 DEF Change, Remove
    <3> QED
      BY <1>3, <3>1
  <2> QED
    BY <1>2, <2>1, <2>2
<1>5. UNCHANGED <<flight, sync, shard, corrupt, index, failures>> /\ raced \subseteq raced'
  BY DEF Change, Remove, disk
<1> QED
  BY <1>2, <1>3, <1>4, <1>5, OwesStays

(* Steps that change none of what is owed. *)
LEMMA CalmOwes ==
  ASSUME HInv, HInv', OInv, TimerFires \/ NextFile \/ TmpWritten \/ FlushFails, NEW k \in Callers, NEW i \in Ids,
         call'[k].at = "owner", call'[k].due[i] # 0
  PROVE  Owes(k, i)'
<1>1. call' = call /\ UNCHANGED <<memory, shard, corrupt, index, raced>>
      /\ (UNCHANGED <<sync, failures>> \/ failures' = failures + 1)
  BY DEF TimerFires, NextFile, TmpWritten, FlushFails, store, disk
<1>2. /\ Owes(k, i) /\ flight.at # "none" /\ call'[k].due[i] = call[k].due[i] /\ memory'[i] >= call[k].due[i]
  BY <1>1, OwedBefore
<1>3. /\ flight'.body = flight.body /\ flight'.gens = flight.gens /\ flight'.gone = flight.gone
      /\ flight'.stale = flight.stale
  <2>1. flight \in Work
    BY DEF HInv, IInv, TypeOK
  <2>2. CASE TimerFires \/ FlushFails
    BY <1>2, <2>2 DEF TimerFires, FlushAsync, FlushFails
  <2>3. CASE NextFile
    <3>1. PICK f, at : flight' = Begin(flight, f, at)
      BY <2>3 DEF NextFile
    <3> QED
      BY <2>1, <3>1 DEF Begin, Work
  <2>4. CASE TmpWritten
    BY <2>1, <2>4 DEF TmpWritten, Work
  <2> QED
    BY <2>2, <2>3, <2>4
<1>4. failures \in Nat
  BY OwedVersion
<1>5. (failures' = 0 => failures = 0) /\ (sync'.at = "none" /\ failures' = 0 => sync.at = "none")
  BY <1>1, <1>4
<1> QED
  BY <1>1, <1>2, <1>3, <1>5, OwesStays

LEMMA TurnEndOwes ==
  ASSUME HInv, HInv', OInv, NEW c \in Callers, TurnEnds(c), NEW k \in Callers, NEW i \in Ids,
         call'[k].at = "owner", call'[k].due[i] # 0
  PROVE  Owes(k, i)'
<1>1. /\ loaded /\ loaded' /\ UNCHANGED <<memory, dirty, dirtyGen, deleted, shard, corrupt, index, raced, failures, sync>>
      /\ FlushAsync
      /\ call' = [call EXCEPT ![c] =
           [at |-> IF flight.at # "none" THEN "waiting" ELSE IF Pending THEN "owner" ELSE "returned",
            due |-> memory]]
  BY DEF TurnEnds, Idle, store, disk
<1>2. CASE k = c
  <2>1. flight.at = "none" /\ Pending /\ call'[k].due = memory
    BY <1>1, <1>2, OwedVersion
  <2>2. flight' = Snapshot(dirty', dirtyGen', deleted', "mkdir")
    BY <1>1, <2>1 DEF FlushAsync
  <2>3. memory'[i] >= call'[k].due[i]
    BY <1>1, <2>1, NextVersion
  <2> QED
    BY <1>1, <2>2, <2>3, OwesAtStart
<1>3. CASE k # c
  <2>1. call'[k] = call[k]
    BY <1>1, <1>3, OwedVersion
  <2>2. Owes(k, i) /\ flight.at # "none" /\ memory'[i] >= call[k].due[i]
    BY <1>1, <2>1 DEF OInv, Owes
  <2>3. flight' = flight
    BY <1>1, <2>2 DEF FlushAsync
  <2> QED
    BY <1>1, <2>1, <2>2, <2>3, OwesStays
<1> QED
  BY <1>2, <1>3

(* A landing whose owner goes on with another pass. *)
LEMMA LandingOwes ==
  ASSUME HInv, HInv', OInv, FlightLands \/ FlightAbandoned \/ FlightFails, NEW k \in Callers, NEW i \in Ids,
         call'[k].at = "owner", call'[k].due[i] # 0
  PROVE  Owes(k, i)'
<1>1. loaded' /\ memory' = memory /\ Landed(dirty', dirtyGen', deleted')
  BY DEF FlightLands, FlightAbandoned, FlightFails, Idle, store
<1>2. call[k].at = "owner" /\ call'[k] = call[k] /\ flight' = Snapshot(dirty', dirtyGen', deleted', "mkdir")
  BY <1>1, OwedVersion DEF Landed
<1>3. memory'[i] >= call'[k].due[i]
  BY <1>1, <1>2 DEF OInv, Owes
<1> QED
  BY <1>1, <1>2, <1>3, OwesAtStart

(* flush abandons the flight: what is pending is written next, and what is   *)
(* not is there.                                                             *)
LEMMA FlushOwes ==
  ASSUME HInv, HInv', OInv, Flush, NEW k \in Callers, NEW i \in Ids, call'[k].at = "owner", call'[k].due[i] # 0
  PROVE  Owes(k, i)'
<1>1. /\ loaded /\ loaded' /\ call' = call
      /\ UNCHANGED <<memory, dirty, deleted, corruptIds, shard, corrupt, index, raced, failures>>
      /\ flight' = [flight EXCEPT !.stale = flight.at # "none"]
      /\ sync' = IF Pending THEN Snapshot(dirty, dirtyGen, deleted, "writing") ELSE NoFlush
  BY DEF Flush, Idle, store, disk
<1>2. /\ flight.at # "none" /\ call'[k].due[i] = call[k].due[i] /\ memory[i] >= call[k].due[i]
      /\ flight.body[i] >= call[k].due[i] /\ call[k].due[i] \in Nat
  BY <1>1, OwedBefore
<1>3. flight'.stale /\ flight'.body = flight.body
  BY <1>1, <1>2 DEF HInv, IInv, TypeOK, Work
<1>4. PICK v \in Nat : v = call[k].due[i]
  BY <1>2
<1>5. memory'[i] # 0 /\ memory'[i] >= v /\ memory'[i] \in Nat
  BY <1>1, <1>2, <1>4, NextVersion
<1>6. ASSUME sync'.at = "none" PROVE Brought(i, v)' /\ (Index \in raced' \/ i \in index')
  <2>1. ~Pending
    BY <1>1, <1>6 DEF Snapshot
  <2>2. i \notin dirty' \cup deleted'
    BY <1>1, <2>1 DEF Pending
  <2>3. Index \notin raced' => IF i \in index' THEN TRUE ELSE MayBe(i, 0)'
    BY <1>1 DEF HInv, IndexOK, Listable
  <2>4. MayBe(i, 0)' => memory'[i] = 0
    BY <2>2 DEF MayBe
  <2> QED
    BY <1>1, <1>5, <2>2, <2>3, <2>4, CleanIsBrought
<1>7. Brought(i, v)' => Brought(i, call[k].due[i])'
  BY <1>1, <1>4 DEF Brought
<1> QED
  BY <1>1, <1>2, <1>3, <1>4, <1>5, <1>6, <1>7 DEF Owes

(* A step of the synchronous flush that is not its last. *)
LEMMA FlushFileOwes ==
  ASSUME HInv, HInv', OInv, NEW j \in Ids, FlushShard(j) \/ FlushUnlink(j), NEW k \in Callers, NEW i \in Ids,
         call'[k].at = "owner", call'[k].due[i] # 0
  PROVE  Owes(k, i)'
<1>1. /\ Writing /\ UNCHANGED <<memory, call>> /\ (OvertakesByWrite(j) \/ OvertakesByUnlink(j))
  BY DEF FlushShard, FlushUnlink, store
<1>2. /\ flight.at # "none" /\ call'[k].due[i] = call[k].due[i] /\ memory[i] >= call[k].due[i]
      /\ flight.body[i] >= call[k].due[i]
  BY <1>1, OwedBefore
<1>3. flight.stale /\ flight \in Work
  BY <1>1, <1>2, WritingIs DEF HInv, SyncShape, Writing
<1>4. flight'.stale /\ flight'.body = flight.body
  BY <1>1, <1>3, Overtakes
<1>5. sync'.at = "writing"
  <2>1. sync \in Work /\ sync.at = "writing"
    BY <1>1 DEF Writing, HInv, IInv, TypeOK
  <2>2. sync' = [sync EXCEPT !.todo = @ \ {j}] \/ sync' = [sync EXCEPT !.drop = @ \ {j}]
    BY DEF FlushShard, FlushUnlink
  <2> QED
    BY <2>1, <2>2 DEF Work
<1> QED
  BY <1>1, <1>2, <1>4, <1>5 DEF Owes

(* Its last step leaves everything saved. *)
LEMMA FlushIndexOwes ==
  ASSUME HInv, HInv', OInv, FlushIndex, NEW k \in Callers, NEW i \in Ids, call'[k].at = "owner", call'[k].due[i] # 0
  PROVE  Owes(k, i)'
<1>1. /\ Writing /\ loaded' /\ UNCHANGED <<memory, call>> /\ OvertakesByWrite(Index)
      /\ ClearPersisted(sync) /\ index' = sync.ids
  BY DEF FlushIndex, Rename, Writing
<1>2. /\ flight.at # "none" /\ call'[k].due[i] = call[k].due[i] /\ memory[i] >= call[k].due[i]
      /\ flight.body[i] >= call[k].due[i] /\ call[k].due[i] \in Nat
  BY <1>1, OwedBefore
<1>3. /\ flight.stale /\ flight \in Work /\ sync.gens = dirtyGen /\ sync.ids = Held(memory, corruptIds)
  BY <1>1, <1>2, WritingIs DEF HInv, SyncShape, Writing
<1>4. flight'.stale /\ flight'.body = flight.body
  BY <1>1, <1>3, Overtakes
<1>5. PICK v \in Nat : v = call[k].due[i]
  BY <1>2
<1>6. memory'[i] # 0 /\ memory'[i] >= v /\ memory'[i] \in Nat
  BY <1>1, <1>2, <1>5, NextVersion
<1>7. i \notin dirty' /\ i \in index'
  BY <1>1, <1>3, <1>6 DEF ClearPersisted, Written, Held
<1>8. Brought(i, v)'
  BY <1>1, <1>6, <1>7, CleanIsBrought
<1>9. Brought(i, v)' => Brought(i, call[k].due[i])'
  BY <1>1, <1>5 DEF Brought
<1> QED
  BY <1>1, <1>2, <1>4, <1>5, <1>7, <1>8, <1>9 DEF Owes

(* What the pool puts in place is in the snapshot, and that is new enough. *)
LEMMA PoolOwes ==
  ASSUME HInv, HInv', OInv, PoolStep, NEW k \in Callers, NEW i \in Ids, call'[k].at = "owner", call'[k].due[i] # 0
  PROVE  Owes(k, i)'
<1> DEFINE f == flight.file
<1>1. /\ loaded /\ UNCHANGED <<memory, call, failures, sync>> /\ flight.at \in {"rename", "unlink"} /\ flight \in Work
      /\ FlightShape
  BY DEF PoolStep, store, HInv, FlightOK, IInv, TypeOK
<1>2. /\ flight'.body = flight.body /\ flight'.gens = flight.gens /\ flight'.gone = flight.gone
      /\ flight'.stale = flight.stale
  BY <1>1 DEF PoolStep, Work
<1>3. /\ Owes(k, i) /\ call'[k].due[i] = call[k].due[i] /\ memory[i] >= call[k].due[i]
      /\ flight.body[i] >= call[k].due[i] /\ call[k].due[i] \in Nat /\ call[k].due[i] # 0
  BY <1>1, OwedBefore
<1>4. flight.body[i] \in Nat /\ flight.body[i] # 0
  BY <1>1, <1>3, WorkFields
<1>5. raced' = raced \/ raced' = raced \cup {f} \/ raced' = raced \ {f}
  BY DEF PoolStep
<1>6. CASE f = i
  <2>1. Saves(flight, i)
    BY <1>1, <1>6, FilesAssumption DEF FlightShape, Saves
  <2>2. flight.at = "rename"
    BY <1>1, <1>4, <1>6 DEF FlightShape
  <2>3. shard' = [shard EXCEPT ![i] = flight.body[i]] /\ corrupt' = corrupt \ {i} /\ index' = index
    BY <1>6, <2>2, FilesAssumption DEF PoolStep, Rename
  <2>4. Parsed(i)' = flight.body[i]
    BY <2>3 DEF Parsed, HInv, IInv, TypeOK
  <2>5. i # Index /\ (Index \in raced => Index \in raced')
    BY <1>5, <1>6, FilesAssumption
  <2>6. Saves(flight', i)
    BY <1>2, <2>1 DEF Saves
  <2> QED
    BY <1>1, <1>2, <1>3, <2>3, <2>4, <2>5, <2>6 DEF Owes, Brought
<1>7. CASE f = Index
  <2>1. flight.at = "rename"
    BY <1>1, <1>7, FilesAssumption, WorkFields DEF FlightShape
  <2>2. index' = flight.ids /\ shard' = shard /\ corrupt' = corrupt
    BY <1>7, <2>1 DEF PoolStep, Rename
  <2>3. i \in index'
    BY <1>1, <1>4, <2>2 DEF FlightShape
  <2>4. Parsed(i)' = Parsed(i) /\ (i \in raced => i \in raced') /\ (Saves(flight', i) <=> Saves(flight, i))
    BY <1>2, <1>5, <1>7, <2>2, FilesAssumption DEF Parsed, Saves
  <2> QED
    BY <1>1, <1>2, <1>3, <2>3, <2>4 DEF Owes, Brought
<1>8. CASE f \notin {i, Index}
  <2>1. shard'[i] = shard[i] /\ (i \in corrupt' <=> i \in corrupt) /\ index' = index
    BY <1>8 DEF PoolStep, Rename, Unlink, HInv, IInv, TypeOK
  <2>2. Parsed(i)' = Parsed(i) /\ (i \in raced => i \in raced') /\ (Index \in raced => Index \in raced')
    BY <1>5, <1>8, <2>1 DEF Parsed
  <2>3. Saves(flight', i) <=> Saves(flight, i)
    BY <1>2 DEF Saves
  <2> QED
    BY <1>1, <1>2, <1>3, <2>1, <2>2, <2>3 DEF Owes, Brought
<1> QED
  BY <1>6, <1>7, <1>8

LEMMA OwnersKeep == ASSUME HInv, HInv', OInv, Next PROVE OInv'
<1>1. ASSUME NEW k \in Callers, call'[k].at = "owner" PROVE loaded' /\ flight'.at # "none"
  <2>1. ASSUME NEW c \in Callers, TurnEnds(c) PROVE loaded' /\ flight'.at # "none"
    <3>1. loaded' /\ FlushAsync /\ call' = [call EXCEPT ![c] =
           [at |-> IF flight.at # "none" THEN "waiting" ELSE IF Pending THEN "owner" ELSE "returned",
            due |-> memory]]
      BY <2>1 DEF TurnEnds, Idle, store
    <3>2. flight.at # "none" \/ Pending
      BY <1>1, <3>1, OwedVersion DEF OInv
    <3> QED
      BY <3>1, <3>2 DEF FlushAsync, Snapshot, NoFlush
  <2>2. CASE FlightLands \/ FlightAbandoned \/ FlightFails
    <3>1. loaded' /\ Landed(dirty', dirtyGen', deleted')
      BY <2>2 DEF FlightLands, FlightAbandoned, FlightFails, Idle, store
    <3> QED
      BY <1>1, <3>1, OwedVersion DEF Landed, Snapshot, NoFlush
  <2>3. ASSUME NEW j \in Ids, Remove(j) PROVE loaded' /\ flight'.at # "none"
    <3>1. call[k].at = "owner"
      BY <1>1, <2>3, OwedVersion DEF Remove
    <3> QED
      BY <2>3, <3>1 DEF OInv, Remove
  <2>4. CASE Crash
    BY <1>1, <2>4, OwedVersion DEF Crash
  <2>5. ASSUME call' = call PROVE loaded /\ flight.at # "none"
    BY <1>1, <2>5 DEF OInv
  <2>6. ASSUME NEW j \in Ids, Change(j) \/ Damage(j) PROVE loaded' /\ flight'.at # "none"
    BY <2>5, <2>6 DEF Change, Damage
  <2>7. ASSUME NEW j \in Ids, FlushShard(j) \/ FlushUnlink(j) PROVE loaded' /\ flight'.at # "none"
    <3>1. call' = call /\ loaded' = loaded /\ (OvertakesByWrite(j) \/ OvertakesByUnlink(j))
      BY <2>7 DEF FlushShard, FlushUnlink, store
    <3> QED
      BY <2>5, <2>7, <3>1, Overtakes DEF HInv, IInv, TypeOK, FlushShard, FlushUnlink, store
  <2>8. CASE FlushIndex
    <3>1. call' = call /\ loaded' = loaded /\ OvertakesByWrite(Index)
      BY <2>8 DEF FlushIndex
    <3> QED
      BY <2>5, <3>1, Overtakes DEF HInv, IInv, TypeOK
  <2>9. CASE TimerFires \/ NextFile \/ TmpWritten \/ PoolStep \/ Flush \/ FlushFails \/ Load
    <3>1. call' = call /\ (loaded' = loaded \/ Load)
      BY <2>9 DEF TimerFires, NextFile, TmpWritten, PoolStep, Flush, FlushFails, Load, store
    <3>2. flight.at # "none" /\ loaded /\ loaded' /\ flight \in Work
      BY <2>5, <3>1 DEF Load, HInv, IInv, TypeOK
    <3>3. CASE TimerFires \/ FlushFails \/ Load
      BY <3>2, <3>3 DEF TimerFires, FlushFails, Load, FlushAsync
    <3>4. CASE NextFile
      <4>1. PICK f, at : flight' = Begin(flight, f, at) /\ at # "none"
        BY <3>4 DEF NextFile
      <4> QED
        BY <3>2, <4>1 DEF Begin, Work
    <3>5. CASE TmpWritten
      BY <3>2, <3>5 DEF TmpWritten, AfterTmp, Work
    <3>6. CASE PoolStep
      BY <3>2, <3>6 DEF PoolStep, Work
    <3>7. CASE Flush
      BY <3>2, <3>7 DEF Flush, Work
    <3> QED
      BY <2>9, <3>2, <3>3, <3>4, <3>5, <3>6, <3>7
  <2> QED
    BY <2>1, <2>2, <2>3, <2>4, <2>6, <2>7, <2>8, <2>9 DEF Next
<1>2. ASSUME NEW k \in Callers, call'[k].at = "owner", NEW i \in Ids, call'[k].due[i] # 0 PROVE Owes(k, i)'
  <2>1. CASE \E j \in Ids : Change(j) \/ Remove(j)
    BY <1>2, <2>1, ChangeOwes
  <2>2. CASE \E j \in Ids : FlushShard(j) \/ FlushUnlink(j)
    BY <1>2, <2>2, FlushFileOwes
  <2>3. CASE \E c \in Callers : TurnEnds(c)
    BY <1>2, <2>3, TurnEndOwes
  <2>4. CASE TimerFires \/ NextFile \/ TmpWritten \/ FlushFails
    BY <1>2, <2>4, CalmOwes
  <2>5. CASE FlightLands \/ FlightAbandoned \/ FlightFails
    BY <1>2, <2>5, LandingOwes
  <2>6. CASE PoolStep \/ Flush \/ FlushIndex
    BY <1>2, <2>6, PoolOwes, FlushOwes, FlushIndexOwes
  <2>7. CASE Crash
    BY <1>2, <2>7, OwedVersion DEF Crash
  <2>8. CASE Load \/ \E j \in Ids : Damage(j)
    BY <1>2, <2>8 DEF OInv, Load, Damage
  <2> QED
    BY <2>1, <2>2, <2>3, <2>4, <2>5, <2>6, <2>7, <2>8 DEF Next
<1> QED
  BY <1>1, <1>2 DEF OInv

(* A turn end that started the flight finds its conversation on disk: the   *)
(* landing flight has written it or need not, and one that a synchronous    *)
(* flush abandoned lands when that flush is over (flushAsync).              *)
THEOREM OwnersReturnDurable == HSpec => OwnerReturnsDurable
<1> DEFINE Returns ==
      \A k \in Callers : (call[k].at = "owner" /\ call'[k].at = "returned" /\ failures' = 0) =>
        \A i \in Ids \ raced' : (Index \notin raced' /\ memory'[i] # 0) => Durable(i)' >= call[k].due[i]
<1>1. HInit => OInv
  BY DEF HInit, Init, OInv
<1>2. HInv /\ HInv' /\ OInv /\ [HNext]_<<vars, since>> => OInv'
  <2>1. CASE UNCHANGED <<vars, since>>
    BY <2>1 DEF OInv, Owes, Brought, Parsed, Saves, vars, store, disk
  <2>2. CASE HNext
    BY <2>2, OwnersKeep DEF HNext
  <2> QED
    BY <2>1, <2>2
<1>3. ASSUME HInv, HInv', OInv, HNext PROVE Returns
  <2> SUFFICES ASSUME NEW k \in Callers, call[k].at = "owner", call'[k].at = "returned", failures' = 0,
                      NEW i \in Ids, i \notin raced', Index \notin raced', memory'[i] # 0
               PROVE  Durable(i)' >= call[k].due[i]
    OBVIOUS
  <2>1. FlightLands \/ FlightAbandoned
    <3>1. call' # call /\ failures \in Nat
      BY OwedVersion, <1>3
    <3>2. ~FlightFails
      BY <3>1 DEF FlightFails
    <3>3. ASSUME NEW c \in Callers, TurnEnds(c) PROVE FALSE
      BY <1>3, <3>3, OwedVersion DEF TurnEnds
    <3>4. ASSUME NEW j \in Ids, Remove(j) PROVE FALSE
      BY <1>3, <3>4, OwedVersion DEF Remove
    <3>5. ~Crash
      BY <1>3, OwedVersion DEF Crash
    <3>6. ASSUME NEW j \in Ids, Change(j) \/ FlushShard(j) \/ FlushUnlink(j) \/ Damage(j) PROVE FALSE
      BY <3>1, <3>6 DEF Change, FlushShard, FlushUnlink, Damage
    <3>7. ASSUME TimerFires \/ NextFile \/ TmpWritten \/ PoolStep \/ Flush \/ FlushIndex \/ FlushFails \/ Load
          PROVE  FALSE
      BY <3>1, <3>7 DEF TimerFires, NextFile, TmpWritten, PoolStep, Flush, FlushIndex, FlushFails, Load
    <3> QED
      BY <1>3, <3>2, <3>3, <3>4, <3>5, <3>6, <3>7 DEF HNext, Next
  <2>2. /\ UNCHANGED <<memory, shard, corrupt, index, raced, failures>> /\ loaded /\ sync.at = "none"
        /\ flight.stale <=> ~FlightLands
    BY <2>1 DEF FlightLands, FlightAbandoned, Idle, store, disk
  <2>3. Durable(i)' = Durable(i) /\ Durable(i) = (IF i \in index THEN Parsed(i) ELSE 0)
    BY <2>2 DEF Durable, Parsed
  <2>4. Durable(i) \in Nat
    BY <1>3, <2>3, BoundsAssumption DEF HInv, IInv, TypeOK, Parsed, Versions
  <2>5. CASE call[k].due[i] = 0
    BY <2>3, <2>4, <2>5
  <2>6. CASE call[k].due[i] # 0
    <3>1. Owes(k, i) /\ call[k].due[i] \in Nat
      BY <1>3, <2>6, OwedVersion DEF OInv
    <3>2. CASE flight.stale
      BY <2>2, <2>3, <3>1, <3>2 DEF Owes, Brought
    <3>3. CASE ~flight.stale
      <4>1. AtEnd(flight) /\ FlightOK /\ flight \in Work /\ Runs
        <5>1. AtEnd(flight)
          BY <2>2, <3>3 DEF FlightLands
        <5>2. flight.at # "none"
          BY <5>1 DEF AtEnd
        <5> QED
          BY <1>3, <2>2, <3>3, <5>1, <5>2 DEF HInv, IInv, TypeOK, Runs
      <4>2. flight.at = "renamed" /\ flight.file = Index /\ flight.todo = {} /\ flight.drop = {}
        BY <3>3, <4>1 DEF AtEnd, FlightOK, FlightShape
      <4>3. flight.body[i] \in Nat /\ flight.body[i] >= call[k].due[i]
        BY <3>1, <4>1, WorkFields DEF Owes
      <4>4. i \in index
        BY <2>6, <3>1, <4>1, <4>2, <4>3 DEF FlightOK, FlightShape, FlightStored
      <4>5. CASE Saves(flight, i)
        <5>1. Parsed(i) = flight.body[i]
          BY <4>1, <4>2, <4>5 DEF FlightOK, FlightStored, OnFile
        <5> QED
          BY <2>3, <4>3, <4>4, <5>1
      <4>6. CASE ~Saves(flight, i)
        BY <2>2, <2>3, <3>1, <3>3, <4>4, <4>6 DEF Owes, Brought
      <4> QED
        BY <4>5, <4>6
    <3> QED
      BY <3>2, <3>3
  <2> QED
    BY <2>5, <2>6
<1>4. HInv /\ HInv' /\ OInv /\ [HNext]_<<vars, since>> => [Returns]_vars
  BY <1>3
<1> QED
  BY <1>1, <1>2, <1>4, HSpecKeeps, PTL DEF HSpec, OwnerReturnsDurable
=============================================================================
