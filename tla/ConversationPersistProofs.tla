--------------------- MODULE ConversationPersistProofs ---------------------
(***************************************************************************)
(* ConversationPersist for every set of ids and callers and every bound:   *)
(* the type invariant.                                                     *)
(***************************************************************************)
EXTENDS ConversationPersist, TLAPS

-----------------------------------------------------------------------------
(* The inductive invariant *)

\* A process that has not loaded has nothing to write and writes nothing.
QuietBeforeLoad ==
  ~loaded => dirty = {} /\ deleted = {} /\ flight = NoFlush /\ sync = NoFlush

IInv == TypeOK /\ QuietBeforeLoad

\* TypeOK, in the parts that actions change together.
MemoryOK == memory \in [Ids -> Versions] /\ changes \in Versions

DirtyOK ==
  /\ dirty \subseteq Ids /\ dirtyGen \in [Ids -> Nat] /\ deleted \subseteq Ids
  /\ dirty = {i \in Ids : dirtyGen[i] # 0} /\ dirty \cap deleted = {}
  /\ \A i \in Ids : (i \in dirty => memory[i] # 0) /\ (i \in deleted => memory[i] = 0)

BitsOK ==
  /\ loaded \in BOOLEAN /\ flushTimer \in BOOLEAN /\ flushAgain \in BOOLEAN
  /\ corruptIds \subseteq Ids /\ setAside \subseteq Ids /\ failures \in 0..MaxFailures

CallsOK ==
  call \in [Callers -> [at : {"idle", "owner", "waiting", "returned"}, due : [Ids -> Versions]]]

FilesOK == shard \in [Ids -> Versions] /\ index \subseteq Ids /\ corrupt \subseteq Ids

WorkOK == flight \in Work /\ sync \in Work

RacedOK == raced \subseteq Files

LEMMA TypeParts ==
  TypeOK <=> MemoryOK /\ DirtyOK /\ BitsOK /\ CallsOK /\ FilesOK /\ WorkOK /\ RacedOK
BY DEF TypeOK, MemoryOK, DirtyOK, BitsOK, CallsOK, FilesOK, WorkOK, RacedOK

LEMMA TypePartsNext ==
  TypeOK' <=> MemoryOK' /\ DirtyOK' /\ BitsOK' /\ CallsOK' /\ FilesOK' /\ WorkOK' /\ RacedOK'
BY DEF TypeOK, MemoryOK, DirtyOK, BitsOK, CallsOK, FilesOK, WorkOK, RacedOK

-----------------------------------------------------------------------------
(* The operators *)

LEMMA ZeroIsAVersion == 0 \in Versions
BY BoundsAssumption DEF Versions

LEMMA NoFlushInWork == NoFlush \in Work
BY ZeroIsAVersion DEF NoFlush, Work, Files

\* A snapshot of what is held, whatever is dirty, is a flush.
LEMMA SnapshotInWork ==
  ASSUME MemoryOK, corruptIds \subseteq Ids,
         NEW d \in SUBSET Ids, NEW del \in SUBSET Ids, NEW g \in [Ids -> Nat],
         NEW at \in {"mkdir", "writing"}
  PROVE  Snapshot(d, g, del, at) \in Work
<1>1. Held(memory, corruptIds) \subseteq Ids
  BY DEF Held
<1> QED BY <1>1, NoFlushInWork DEF Snapshot, NoFlush, Work, Files, MemoryOK

\* Turning to the next file leaves a flush.
LEMMA BeginInWork ==
  ASSUME NEW w \in Work, NEW f \in Files, NEW at \in {"tmp", "unlink"}
  PROVE  Begin(w, f, at) \in Work
BY DEF Begin, Work

\* A synchronous write or unlink marks the flight and keeps it a flush.
LEMMA OvertakesInWork ==
  ASSUME flight \in Work, NEW f, OvertakesByWrite(f) \/ OvertakesByUnlink(f)
  PROVE  flight' \in Work
<1>1. CASE OvertakesByWrite(f)
  <2> DEFINE late == flight.at \in {"rename", "unlink"}
  <2>1. late \in BOOLEAN
    OBVIOUS
  <2>2. flight' \in {flight, [flight EXCEPT !.latest = FALSE, !.overtaken = late]}
    BY <1>1 DEF OvertakesByWrite
  <2> HIDE DEF late
  <2> QED BY <2>1, <2>2 DEF Work
<1>2. CASE OvertakesByUnlink(f)
  BY <1>2 DEF OvertakesByUnlink, Work
<1> QED BY <1>1, <1>2

\* What clearPersisted clears is clean and was dirty; nothing else changes.
LEMMA ClearKeepsDirty ==
  ASSUME DirtyOK, NEW w, ClearPersisted(w), memory' = memory
  PROVE  DirtyOK'
BY DEF DirtyOK, ClearPersisted, Written

LEMMA RenameKeepsFiles ==
  ASSUME FilesOK, NEW w \in Work, NEW f \in Files, Rename(w, f)
  PROVE  FilesOK'
BY DEF FilesOK, Rename, Work, Files

LEMMA UnlinkKeepsFiles ==
  ASSUME FilesOK, NEW f, Unlink(f)
  PROVE  FilesOK'
BY ZeroIsAVersion DEF FilesOK, Unlink

\* The continuation of flushAsync leaves a flight and calls of their types.
LEMMA LandedKeeps ==
  ASSUME MemoryOK, BitsOK, CallsOK, WorkOK,
         NEW d \in SUBSET Ids, NEW del \in SUBSET Ids, NEW g \in [Ids -> Nat],
         Landed(d, g, del)
  PROVE  /\ flight' \in Work /\ CallsOK'
         /\ flushAgain' \in BOOLEAN /\ flushTimer' \in BOOLEAN
<1>1. Snapshot(d, g, del, "mkdir") \in Work
  BY SnapshotInWork DEF BitsOK
<1> QED BY <1>1, NoFlushInWork DEF Landed, BitsOK, CallsOK

LEMMA FlushAsyncKeeps ==
  ASSUME MemoryOK, DirtyOK, BitsOK, WorkOK, FlushAsync
  PROVE  flight' \in Work /\ flushAgain' \in BOOLEAN /\ flushTimer' \in BOOLEAN
<1>1. Snapshot(dirty, dirtyGen, deleted, "mkdir") \in Work
  BY SnapshotInWork DEF BitsOK, DirtyOK
<1> QED BY <1>1, NoFlushInWork DEF FlushAsync, BitsOK, WorkOK

-----------------------------------------------------------------------------
(* The initial states and the steps *)

LEMMA InitIInv == Init => IInv
<1> SUFFICES ASSUME Init PROVE IInv
  OBVIOUS
<1>1. MemoryOK /\ FilesOK /\ RacedOK
  BY ZeroIsAVersion DEF Init, MemoryOK, FilesOK, RacedOK
<1>2. DirtyOK
  BY DEF Init, DirtyOK
<1>3. BitsOK
  <2>1. failures \in 0..MaxFailures
    BY BoundsAssumption DEF Init
  <2>2. loaded = FALSE /\ flushTimer = FALSE /\ flushAgain = FALSE
    BY DEF Init
  <2>3. corruptIds = {} /\ setAside = {}
    BY DEF Init
  <2> QED BY <2>1, <2>2, <2>3 DEF BitsOK
<1>4. CallsOK
  BY ZeroIsAVersion DEF Init, CallsOK
<1>5. WorkOK
  BY NoFlushInWork DEF Init, WorkOK
<1> QED BY <1>1, <1>2, <1>3, <1>4, <1>5, TypeParts DEF IInv, QuietBeforeLoad, Init

\* The changes of the store.
LEMMA ChangesKeep ==
  ASSUME IInv, NEW i \in Ids, Change(i) \/ Remove(i)
  PROVE  IInv'
<1>1. MemoryOK /\ DirtyOK /\ BitsOK /\ CallsOK /\ FilesOK /\ WorkOK /\ RacedOK
  BY TypeParts DEF IInv
<1>2. changes + 1 \in Versions
  BY <1>1, BoundsAssumption DEF Change, Remove, MemoryOK, Versions
<1>3. CASE Change(i)
  <2>1. MemoryOK' /\ BitsOK' /\ CallsOK' /\ FilesOK' /\ WorkOK'
    BY <1>1, <1>2, <1>3 DEF Change, MemoryOK, BitsOK, CallsOK, FilesOK, WorkOK, disk
  <2>2. DirtyOK'
    <3>1. changes + 1 # 0 /\ \A j \in Ids : dirtyGen[j] \in Nat
      BY <1>1, BoundsAssumption DEF MemoryOK, DirtyOK, Versions
    <3>2. /\ memory' = [memory EXCEPT ![i] = changes + 1]
          /\ dirtyGen' = [dirtyGen EXCEPT ![i] = @ + 1]
          /\ dirty' = dirty \cup {i} /\ deleted' = deleted \ {i}
      BY <1>3 DEF Change
    <3>3. dirtyGen' \in [Ids -> Nat] /\ dirtyGen'[i] # 0
      BY <1>1, <3>1, <3>2 DEF DirtyOK
    <3> QED BY <1>1, <3>1, <3>2, <3>3 DEF DirtyOK, MemoryOK
  <2>3. RacedOK'
    BY <1>1, <1>3 DEF Change, RacedOK, Files
  <2> QED BY <1>3, <2>1, <2>2, <2>3, TypePartsNext DEF IInv, QuietBeforeLoad, Change, Idle
<1>4. CASE Remove(i)
  <2>1. MemoryOK' /\ BitsOK' /\ FilesOK' /\ WorkOK' /\ RacedOK'
    BY <1>1, <1>2, <1>4, ZeroIsAVersion
    DEF Remove, MemoryOK, BitsOK, FilesOK, WorkOK, RacedOK, disk
  <2>2. DirtyOK'
    BY <1>1, <1>4 DEF Remove, DirtyOK, MemoryOK
  <2>3. CallsOK'
    BY <1>1, <1>4, ZeroIsAVersion DEF Remove, CallsOK
  <2> QED BY <1>4, <2>1, <2>2, <2>3, TypePartsNext DEF IInv, QuietBeforeLoad, Remove, Idle
<1> QED BY <1>3, <1>4

\* The asynchronous flush.
LEMMA FlightKeeps ==
  ASSUME IInv,
         \/ TimerFires \/ (\E k \in Callers : TurnEnds(k)) \/ NextFile \/ TmpWritten
         \/ PoolStep \/ FlightLands \/ FlightAbandoned \/ FlightFails
  PROVE  IInv'
<1>1. MemoryOK /\ DirtyOK /\ BitsOK /\ CallsOK /\ FilesOK /\ WorkOK /\ RacedOK
  BY TypeParts DEF IInv
<1>2. loaded /\ loaded' = loaded
  BY DEF TimerFires, TurnEnds, NextFile, TmpWritten, PoolStep, FlightLands, FlightAbandoned,
         FlightFails, Idle, store
<1>3. QuietBeforeLoad'
  BY <1>2 DEF QuietBeforeLoad
<1>4. CASE TimerFires
  <2>1. flight' \in Work /\ flushAgain' \in BOOLEAN /\ flushTimer' \in BOOLEAN
    BY <1>1, <1>4, FlushAsyncKeeps DEF TimerFires
  <2>2. MemoryOK' /\ DirtyOK' /\ BitsOK' /\ CallsOK' /\ FilesOK' /\ WorkOK' /\ RacedOK'
    BY <1>1, <1>4, <2>1
    DEF TimerFires, MemoryOK, DirtyOK, BitsOK, CallsOK, FilesOK, WorkOK, RacedOK, store, disk
  <2> QED BY <1>3, <2>2, TypePartsNext DEF IInv
<1>5. ASSUME NEW k \in Callers, TurnEnds(k)
      PROVE  IInv'
  <2>1. flight' \in Work /\ flushAgain' \in BOOLEAN /\ flushTimer' \in BOOLEAN
    BY <1>1, <1>5, FlushAsyncKeeps DEF TurnEnds
  <2>2. MemoryOK' /\ DirtyOK' /\ BitsOK' /\ FilesOK' /\ WorkOK' /\ RacedOK'
    BY <1>1, <1>5, <2>1
    DEF TurnEnds, MemoryOK, DirtyOK, BitsOK, FilesOK, WorkOK, RacedOK, store, disk
  <2>3. CallsOK'
    BY <1>1, <1>5 DEF TurnEnds, CallsOK, MemoryOK
  <2> QED BY <1>3, <2>2, <2>3, TypePartsNext DEF IInv
<1>6. CASE NextFile \/ TmpWritten
  <2>1. flight' \in Work
    <3>1. CASE NextFile
      <4>1. PICK f \in Files, at \in {"tmp", "unlink"} : flight' = Begin(flight, f, at)
        BY <1>1, <3>1 DEF NextFile, WorkOK, Work, Files
      <4> QED BY <1>1, <4>1, BeginInWork DEF WorkOK
    <3>2. CASE TmpWritten
      BY <1>1, <3>2 DEF TmpWritten, AfterTmp, WorkOK, Work
    <3> QED BY <1>6, <3>1, <3>2
  <2>2. MemoryOK' /\ DirtyOK' /\ BitsOK' /\ CallsOK' /\ FilesOK' /\ WorkOK' /\ RacedOK'
    BY <1>1, <1>6, <2>1
    DEF NextFile, TmpWritten, MemoryOK, DirtyOK, BitsOK, CallsOK, FilesOK, WorkOK, RacedOK, store, disk
  <2> QED BY <1>3, <2>2, TypePartsNext DEF IInv
<1>7. CASE PoolStep
  <2>1. flight \in Work /\ flight.file \in Files
    BY <1>1 DEF WorkOK, Work
  <2>2. FilesOK'
    BY <1>1, <1>7, <2>1, RenameKeepsFiles, UnlinkKeepsFiles DEF PoolStep
  <2>3. flight' \in Work
    BY <1>7, <2>1 DEF PoolStep, Work
  <2>4. RacedOK'
    BY <1>1, <1>7, <2>1 DEF PoolStep, RacedOK
  <2>5. MemoryOK' /\ DirtyOK' /\ BitsOK' /\ CallsOK' /\ WorkOK'
    BY <1>1, <1>7, <2>3
    DEF PoolStep, MemoryOK, DirtyOK, BitsOK, CallsOK, WorkOK, store
  <2> QED BY <1>3, <2>2, <2>4, <2>5, TypePartsNext DEF IInv
<1>8. CASE FlightLands
  <2>1. DirtyOK'
    BY <1>1, <1>8, ClearKeepsDirty DEF FlightLands
  <2>2. /\ flight' \in Work /\ CallsOK'
        /\ flushAgain' \in BOOLEAN /\ flushTimer' \in BOOLEAN
    <3>1. dirty' \in SUBSET Ids /\ deleted' \in SUBSET Ids /\ dirtyGen' \in [Ids -> Nat]
      BY <2>1 DEF DirtyOK
    <3> QED BY <1>1, <1>8, <3>1, LandedKeeps DEF FlightLands
  <2>3. MemoryOK' /\ BitsOK' /\ FilesOK' /\ WorkOK' /\ RacedOK'
    BY <1>1, <1>8, <2>2 DEF FlightLands, MemoryOK, BitsOK, FilesOK, WorkOK, RacedOK, disk
  <2> QED BY <1>3, <2>1, <2>2, <2>3, TypePartsNext DEF IInv
<1>9. CASE FlightAbandoned \/ FlightFails
  <2>1. /\ flight' \in Work /\ CallsOK'
        /\ flushAgain' \in BOOLEAN /\ flushTimer' \in BOOLEAN
    BY <1>1, <1>9, LandedKeeps DEF FlightAbandoned, FlightFails, DirtyOK
  <2>2. failures' \in 0..MaxFailures
    BY <1>1, <1>9, BoundsAssumption DEF FlightAbandoned, FlightFails, BitsOK
  <2>3. MemoryOK' /\ DirtyOK' /\ BitsOK' /\ FilesOK' /\ WorkOK' /\ RacedOK'
    BY <1>1, <1>9, <2>1, <2>2
    DEF FlightAbandoned, FlightFails, MemoryOK, DirtyOK, BitsOK, FilesOK, WorkOK, RacedOK, store, disk
  <2> QED BY <1>3, <2>1, <2>3, TypePartsNext DEF IInv
<1> QED BY <1>4, <1>5, <1>6, <1>7, <1>8, <1>9

\* The synchronous flush.
LEMMA SyncKeeps ==
  ASSUME IInv,
         \/ Flush \/ FlushIndex \/ FlushFails
         \/ \E i \in Ids : FlushShard(i) \/ FlushUnlink(i)
  PROVE  IInv'
<1>1. MemoryOK /\ DirtyOK /\ BitsOK /\ CallsOK /\ FilesOK /\ WorkOK /\ RacedOK
  BY TypeParts DEF IInv
<1>2. loaded /\ loaded' = loaded
  BY DEF Flush, FlushIndex, FlushFails, FlushShard, FlushUnlink, Writing, Idle, store
<1>3. QuietBeforeLoad'
  BY <1>2 DEF QuietBeforeLoad
<1>4. CASE Flush
  <2>1. flight' \in Work
    BY <1>1, <1>4 DEF Flush, WorkOK, Work
  <2>2. sync' \in Work
    <3>1. Snapshot(dirty, dirtyGen, deleted, "writing") \in Work
      BY <1>1, SnapshotInWork DEF BitsOK, DirtyOK
    <3> QED BY <1>4, <3>1, NoFlushInWork DEF Flush
  <2>3. MemoryOK' /\ DirtyOK' /\ BitsOK' /\ CallsOK' /\ FilesOK' /\ WorkOK' /\ RacedOK'
    BY <1>1, <1>4, <2>1, <2>2
    DEF Flush, MemoryOK, DirtyOK, BitsOK, CallsOK, FilesOK, WorkOK, RacedOK, store, disk
  <2> QED BY <1>3, <2>3, TypePartsNext DEF IInv
<1>5. CASE FlushIndex
  <2>1. FilesOK'
    BY <1>1, <1>5, RenameKeepsFiles DEF FlushIndex, WorkOK, Files
  <2>2. DirtyOK'
    BY <1>1, <1>5, ClearKeepsDirty DEF FlushIndex
  <2>3. WorkOK'
    BY <1>1, <1>5, NoFlushInWork, OvertakesInWork DEF FlushIndex, WorkOK
  <2>4. MemoryOK' /\ BitsOK' /\ CallsOK' /\ RacedOK'
    BY <1>1, <1>5 DEF FlushIndex, MemoryOK, BitsOK, CallsOK, RacedOK
  <2> QED BY <1>3, <2>1, <2>2, <2>3, <2>4, TypePartsNext DEF IInv
<1>6. CASE FlushFails
  <2>1. failures' \in 0..MaxFailures
    BY <1>1, <1>6, BoundsAssumption DEF FlushFails, BitsOK
  <2>2. MemoryOK' /\ DirtyOK' /\ BitsOK' /\ CallsOK' /\ FilesOK' /\ WorkOK' /\ RacedOK'
    BY <1>1, <1>6, <2>1, NoFlushInWork
    DEF FlushFails, MemoryOK, DirtyOK, BitsOK, CallsOK, FilesOK, WorkOK, RacedOK, store, disk
  <2> QED BY <1>3, <2>2, TypePartsNext DEF IInv
<1>7. ASSUME NEW i \in Ids, FlushShard(i) \/ FlushUnlink(i)
      PROVE  IInv'
  <2>1. FilesOK'
    BY <1>1, <1>7, RenameKeepsFiles, UnlinkKeepsFiles
    DEF FlushShard, FlushUnlink, WorkOK, Files
  <2>2. WorkOK'
    <3>1. sync' \in Work
      BY <1>1, <1>7 DEF FlushShard, FlushUnlink, WorkOK, Work
    <3> QED BY <1>1, <1>7, <3>1, OvertakesInWork DEF FlushShard, FlushUnlink, WorkOK
  <2>3. MemoryOK' /\ DirtyOK' /\ BitsOK' /\ CallsOK' /\ RacedOK'
    BY <1>1, <1>7
    DEF FlushShard, FlushUnlink, MemoryOK, DirtyOK, BitsOK, CallsOK, RacedOK, store
  <2> QED BY <1>3, <2>1, <2>2, <2>3, TypePartsNext DEF IInv
<1> QED BY <1>4, <1>5, <1>6, <1>7

\* The end of the process, what happens to its files, and its start.
LEMMA ProcessKeeps ==
  ASSUME IInv, Crash \/ Load \/ \E i \in Ids : Damage(i)
  PROVE  IInv'
<1>1. MemoryOK /\ DirtyOK /\ BitsOK /\ CallsOK /\ FilesOK /\ WorkOK /\ RacedOK
  BY TypeParts DEF IInv
<1>2. CASE Crash
  <2>1. MemoryOK' /\ DirtyOK' /\ BitsOK' /\ FilesOK' /\ RacedOK'
    BY <1>1, <1>2, ZeroIsAVersion
    DEF Crash, MemoryOK, DirtyOK, BitsOK, FilesOK, RacedOK, disk
  <2>2. CallsOK' /\ WorkOK'
    BY <1>1, <1>2, NoFlushInWork DEF Crash, CallsOK, WorkOK
  <2> QED BY <1>2, <2>1, <2>2, TypePartsNext DEF IInv, QuietBeforeLoad, Crash
<1>3. CASE Load
  <2>1. \A i \in Ids : Durable(i) \in Versions
    BY <1>1, ZeroIsAVersion DEF FilesOK, Durable
  <2>2. MemoryOK' /\ BitsOK' /\ CallsOK' /\ WorkOK' /\ RacedOK'
    BY <1>1, <1>3, <2>1 DEF Load, MemoryOK, BitsOK, CallsOK, WorkOK, RacedOK, FilesOK
  <2>3. FilesOK'
    BY <1>1, <1>3, ZeroIsAVersion DEF Load, FilesOK
  <2>4. DirtyOK'
    BY <1>1, <1>3 DEF Load, DirtyOK, IInv, QuietBeforeLoad
  <2> QED BY <1>3, <2>2, <2>3, <2>4, TypePartsNext DEF IInv, QuietBeforeLoad, Load
<1>4. ASSUME NEW i \in Ids, Damage(i)
      PROVE  IInv'
  <2>1. MemoryOK' /\ DirtyOK' /\ BitsOK' /\ CallsOK' /\ FilesOK' /\ WorkOK' /\ RacedOK'
    BY <1>1, <1>4
    DEF Damage, MemoryOK, DirtyOK, BitsOK, CallsOK, FilesOK, WorkOK, RacedOK, store
  <2> QED BY <1>4, <2>1, TypePartsNext DEF IInv, QuietBeforeLoad, Damage, store
<1> QED BY <1>2, <1>3, <1>4

LEMMA NextKeeps == IInv /\ [Next]_vars => IInv'
<1> SUFFICES ASSUME IInv, [Next]_vars PROVE IInv'
  OBVIOUS
<1>1. CASE UNCHANGED vars
  BY <1>1 DEF IInv, TypeOK, QuietBeforeLoad, vars, store, disk
<1> QED BY <1>1, ChangesKeep, FlightKeeps, SyncKeeps, ProcessKeeps DEF Next

\* The state keeps its type: an id is dirty exactly while it has a generation,
\* what is dirty is held, what is deleted is not, and no id is both.
THEOREM PersistTypeCorrect == Spec => []TypeOK
<1>1. IInv => TypeOK
  BY DEF IInv
<1> QED BY <1>1, InitIInv, NextKeeps, PTL DEF Spec
=============================================================================
