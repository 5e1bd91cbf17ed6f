------------------------ MODULE ConversationPersist ------------------------
(***************************************************************************)
(* How ConversationStore keeps its conversations on disk: one shard file   *)
(* per conversation and an index of ids, written by a debounced            *)
(* asynchronous flush or by a synchronous one, and read back by load.      *)
(*                                                                         *)
(* JavaScript runs on one thread, but an asynchronous rename or unlink is  *)
(* done by a thread of libuv's pool: it takes effect at any time between   *)
(* the call and the continuation, even during a synchronous flush.  The    *)
(* process may be killed between any two steps.                            *)
(***************************************************************************)
EXTENDS Naturals

CONSTANTS
  Ids,          \* conversation ids
  Index,        \* the file index.json, which is no shard
  Callers,      \* turn ends that await flushAsync
  MaxChanges,   \* bound: changes and removals
  MaxFailures   \* bound: file operations that throw

ASSUME FilesAssumption == Index \notin Ids
ASSUME BoundsAssumption == MaxChanges \in Nat /\ MaxFailures \in Nat

VARIABLES
  memory,     \* conversations: the version held of each id, 0 for none
  changes,    \* the newest version
  loaded,     \* load has run and the process lives
  dirty, dirtyGen, deleted, corruptIds, flushTimer, flushAgain,
  flight,     \* flushInFlight: the asynchronous flush under way
  sync,       \* the synchronous flush under way; it holds the main thread
  call,       \* the turn ends' calls of flushAsync, and (history) what each
              \* found in memory
  shard,      \* the version in each shard file, 0 for no file
  index,      \* the ids in index.json
  corrupt,    \* shard files that do not parse
  setAside,   \* ids with a `.corrupt-` sibling
  failures,   \* how many file operations have thrown
  raced       \* history: files left behind by the races of Overtaken and Change

store == <<memory, changes, loaded, dirty, dirtyGen, deleted, corruptIds>>
disk == <<shard, index, corrupt, setAside>>
vars == <<store, flushTimer, flushAgain, flight, sync, call, disk, failures, raced>>

Files == Ids \cup {Index}
Versions == 0..MaxChanges

-----------------------------------------------------------------------------
(* One flush, synchronous or not: what is left of a snapshot *)

NoFlush ==
  [at |-> "none", file |-> Index, todo |-> {}, drop |-> {}, gone |-> {},
   gens |-> [i \in Ids |-> 0], body |-> [i \in Ids |-> 0], ids |-> {},
   stale |-> FALSE, latest |-> TRUE, overtaken |-> FALSE]

\* Mutant of Held: the ids of shards that did not parse are dropped.
HeldLive(m, c) == {i \in Ids : m[i] # 0}

\* The ids an index must list: the live ones and the corrupt ones.
Held(m, c) == {i \in Ids : m[i] # 0} \cup c

\* snapshotDirty.  A generation of 0 is an id that was not dirty; `gone` keeps
\* the removals for clearPersisted.
Snapshot(d, g, del, at) ==
  [NoFlush EXCEPT !.at = at, !.todo = d, !.drop = del, !.gone = del,
                  !.gens = [i \in Ids |-> IF i \in d THEN g[i] ELSE 0],
                  !.body = memory, !.ids = Held(memory, corruptIds)]

\* Mutant of Written: what was dirty at the snapshot is clean, whatever
\* happened since.
WrittenBlindly(w) == {i \in dirty : w.gens[i] # 0}

\* The dirty ids that clearPersisted clears: no change since the snapshot.
Written(w) == {i \in dirty : w.gens[i] = dirtyGen[i]}

ClearPersisted(w) ==
  /\ dirty' = dirty \ Written(w)
  /\ dirtyGen' = [i \in Ids |-> IF i \in Written(w) THEN 0 ELSE dirtyGen[i]]
  /\ deleted' = deleted \ w.gone

\* What loading the files now would make of an id.
Durable(i) == IF i \in index \ corrupt THEN shard[i] ELSE 0

\* A file write that stores what memory holds makes up for an earlier race.
Current(w, f) ==
  IF f = Index THEN w.ids = Held(memory, corruptIds) ELSE w.body[f] = memory[f]

\* writeJsonRaw's rename of file f.
Rename(w, f) ==
  IF f = Index
  THEN index' = w.ids /\ UNCHANGED <<shard, corrupt>>
  ELSE /\ shard' = [shard EXCEPT ![f] = w.body[f]]
       /\ corrupt' = corrupt \ {f}
       /\ UNCHANGED index

Unlink(f) ==
  /\ shard' = [shard EXCEPT ![f] = 0]
  /\ corrupt' = corrupt \ {f}
  /\ UNCHANGED index

-----------------------------------------------------------------------------
(* Changes *)

\* The main thread is free.
Idle == loaded /\ sync.at = "none"

\* Every operation that ends in markDirty, for a conversation that is there or
\* for one that is created or adopted from a host under the id.  Coming back
\* while a flush holds the id's earlier generation is the race `raced` records.
Change(i) ==
  /\ Idle /\ changes < MaxChanges
  /\ changes' = changes + 1
  /\ memory' = [memory EXCEPT ![i] = changes + 1]
  /\ deleted' = deleted \ {i}
  /\ dirty' = dirty \cup {i}
  /\ dirtyGen' = [dirtyGen EXCEPT ![i] = @ + 1]
  /\ flushTimer' = TRUE
  /\ raced' = raced \cup (IF memory[i] = 0 /\ flight.gens[i] # 0 THEN {i} ELSE {})
  /\ UNCHANGED <<loaded, corruptIds, flushAgain, flight, sync, call, disk, failures>>

\* remove and markDeleted; nobody's `due` speaks of the conversation any more.
Remove(i) ==
  /\ Idle /\ changes < MaxChanges /\ memory[i] # 0
  /\ changes' = changes + 1
  /\ memory' = [memory EXCEPT ![i] = 0]
  /\ dirty' = dirty \ {i}
  /\ dirtyGen' = [dirtyGen EXCEPT ![i] = 0]
  /\ deleted' = deleted \cup {i}
  /\ flushTimer' = TRUE
  /\ call' = [k \in Callers |-> [call[k] EXCEPT !.due[i] = 0]]
  /\ UNCHANGED <<loaded, corruptIds, flushAgain, flight, sync, disk, failures, raced>>

-----------------------------------------------------------------------------
(* The asynchronous flush *)

Pending == dirty # {} \/ deleted # {}

\* Mutant of FlushAsync: who finds a flight under way asks for nothing.
FlushAsyncForgets ==
  /\ flushTimer' = FALSE
  /\ flight' = IF flight.at = "none" /\ Pending
               THEN Snapshot(dirty, dirtyGen, deleted, "mkdir") ELSE flight
  /\ UNCHANGED flushAgain

\* flushAsync up to its first await: start a flight, or ask the one under way
\* for another pass.
FlushAsync ==
  /\ flushTimer' = FALSE
  /\ IF flight.at # "none"
     THEN flushAgain' = TRUE /\ UNCHANGED flight
     ELSE /\ flight' = IF Pending THEN Snapshot(dirty, dirtyGen, deleted, "mkdir") ELSE NoFlush
          /\ UNCHANGED flushAgain

TimerFires ==
  /\ Idle /\ flushTimer
  /\ FlushAsync
  /\ UNCHANGED <<store, sync, call, disk, failures, raced>>

\* A turn ends and awaits flushAsync, as the owner of a flight or waiting for
\* the one under way.
TurnEnds(k) ==
  /\ Idle /\ call[k].at = "idle"
  /\ FlushAsync
  /\ call' = [call EXCEPT ![k] =
       [at |-> IF flight.at # "none" THEN "waiting" ELSE IF Pending THEN "owner" ELSE "returned",
        due |-> memory]]
  /\ UNCHANGED <<store, sync, disk, failures, raced>>

\* Mutant of Goes: an abandoned flight goes on.
GoesRegardless(w) == w.at \in {"mkdir", "renamed", "unlinked", "discard"}

\* A continuation after an await of the flight, which no synchronous flush has
\* abandoned meanwhile.
Goes(w) == w.at \in {"mkdir", "renamed", "unlinked", "discard"} /\ ~w.stale

\* Mutant of AtEnd: the index is not written.
AtEndOfShards(w) == w.todo = {} /\ w.drop = {} /\ w.at \in {"renamed", "unlinked", "discard"}

\* The last file of a flight is the index.
AtEnd(w) == w.file = Index /\ w.at \in {"renamed", "discard"}

\* The flight turns to file f.
Begin(w, f, at) ==
  [w EXCEPT !.at = at, !.file = f, !.todo = @ \ {f}, !.drop = IF at = "unlink" THEN @ \ {f} ELSE @,
            !.latest = TRUE, !.overtaken = FALSE]

\* The next file: the shards, then the removals, then the index.
NextFile ==
  /\ Idle /\ Goes(flight) /\ ~AtEnd(flight)
  /\ \/ \E i \in flight.todo : flight' = Begin(flight, i, "tmp")
     \/ flight.todo = {} /\ \E i \in flight.drop : flight' = Begin(flight, i, "unlink")
     \/ flight.todo = {} /\ flight.drop = {} /\ flight' = Begin(flight, Index, "tmp")
  /\ UNCHANGED <<store, flushTimer, flushAgain, sync, call, disk, failures, raced>>

\* Mutant of AfterTmp: a write that a newer one has overtaken renames.
RenameAnyway(w) == "rename"

\* The temporary file is written: rename it unless the file was written since.
AfterTmp(w) == IF w.latest THEN "rename" ELSE "discard"

TmpWritten ==
  /\ Idle /\ flight.at = "tmp"
  /\ flight' = [flight EXCEPT !.at = AfterTmp(flight)]
  /\ UNCHANGED <<store, flushTimer, flushAgain, sync, call, disk, failures, raced>>

\* A synchronous write or unlink of the same file came first, unnoticed, and
\* stored what this one does not.
Overtaken(w) == w.overtaken /\ ~Current(w, w.file)

\* The pool's thread does the rename or the unlink; no main thread is needed.
PoolStep ==
  LET f == flight.file IN
  /\ loaded /\ flight.at \in {"rename", "unlink"}
  /\ \/ flight.at = "rename" /\ Rename(flight, f) /\ flight' = [flight EXCEPT !.at = "renamed"]
     \/ flight.at = "unlink" /\ Unlink(f) /\ flight' = [flight EXCEPT !.at = "unlinked"]
  /\ raced' = IF Overtaken(flight) THEN raced \cup {f}
              ELSE IF Current(flight, f) THEN raced \ {f} ELSE raced
  /\ UNCHANGED <<store, flushTimer, flushAgain, sync, call, setAside, failures>>

\* flushAsync after its await: another pass if one was asked for and something
\* is pending, else the owner returns.  Who waited returns in either case.
Landed(d, g, del) ==
  LET again == flushAgain /\ (d # {} \/ del # {}) IN
  /\ flushAgain' = FALSE
  /\ flushTimer' = IF again THEN FALSE ELSE flushTimer
  /\ flight' = IF again THEN Snapshot(d, g, del, "mkdir") ELSE NoFlush
  /\ call' = [k \in Callers |->
       IF call[k].at = "waiting" \/ (call[k].at = "owner" /\ ~again)
       THEN [call[k] EXCEPT !.at = "returned"] ELSE call[k]]

FlightLands ==
  /\ Idle /\ AtEnd(flight) /\ ~flight.stale
  /\ ClearPersisted(flight)
  /\ Landed(dirty', dirtyGen', deleted')
  /\ UNCHANGED <<memory, changes, loaded, corruptIds, sync, disk, failures, raced>>

\* A synchronous flush has abandoned the flight.
FlightAbandoned ==
  /\ Idle /\ flight.stale /\ flight.at \in {"mkdir", "renamed", "unlinked", "discard"}
  /\ Landed(dirty, dirtyGen, deleted)
  /\ UNCHANGED <<store, sync, disk, failures, raced>>

\* A write throws: the error is logged and nothing is cleared.
FlightFails ==
  /\ Idle /\ flight.at \in {"mkdir", "tmp", "rename"} /\ failures < MaxFailures
  /\ failures' = failures + 1
  /\ Landed(dirty, dirtyGen, deleted)
  /\ UNCHANGED <<store, sync, disk, raced>>

-----------------------------------------------------------------------------
(* The synchronous flush *)

\* flush: cancel the debounce, abandon the flight, take a snapshot.
Flush ==
  /\ Idle
  /\ flushTimer' = FALSE
  /\ flight' = [flight EXCEPT !.stale = flight.at # "none"]
  /\ sync' = IF Pending THEN Snapshot(dirty, dirtyGen, deleted, "writing") ELSE NoFlush
  /\ UNCHANGED <<store, flushAgain, call, disk, failures, raced>>

\* A write of f makes an asynchronous one of the same file an older one, too late
\* if the pool has it.  An unlink takes no sequence number and is never noticed.
OvertakesByWrite(f) ==
  flight' = IF flight.file = f /\ flight.at \in {"tmp", "rename", "unlink"}
            THEN [flight EXCEPT !.latest = FALSE, !.overtaken = flight.at \in {"rename", "unlink"}]
            ELSE flight

OvertakesByUnlink(f) ==
  flight' = IF flight.file = f /\ flight.at \in {"tmp", "rename", "unlink"}
            THEN [flight EXCEPT !.overtaken = TRUE] ELSE flight

Writing == loaded /\ sync.at = "writing"

FlushShard(i) ==
  /\ Writing /\ i \in sync.todo
  /\ Rename(sync, i) /\ OvertakesByWrite(i)
  /\ sync' = [sync EXCEPT !.todo = @ \ {i}]
  /\ raced' = raced \ {i}
  /\ UNCHANGED <<store, flushTimer, flushAgain, call, setAside, failures>>

FlushUnlink(i) ==
  /\ Writing /\ sync.todo = {} /\ i \in sync.drop
  /\ Unlink(i) /\ OvertakesByUnlink(i)
  /\ sync' = [sync EXCEPT !.drop = @ \ {i}]
  /\ UNCHANGED <<store, flushTimer, flushAgain, call, setAside, failures, raced>>

FlushIndex ==
  /\ Writing /\ sync.todo = {} /\ sync.drop = {}
  /\ Rename(sync, Index) /\ OvertakesByWrite(Index)
  /\ ClearPersisted(sync)
  /\ sync' = NoFlush
  /\ raced' = raced \ {Index}
  /\ UNCHANGED <<memory, changes, loaded, corruptIds, flushTimer, flushAgain, call, setAside, failures>>

FlushFails ==
  /\ Writing /\ failures < MaxFailures
  /\ sync.todo # {} \/ sync.drop \in {{}, sync.gone}
  /\ failures' = failures + 1
  /\ sync' = NoFlush
  /\ UNCHANGED <<store, flushTimer, flushAgain, flight, call, disk, raced>>

-----------------------------------------------------------------------------
(* The process *)

\* The process ends at any point, after a quit's flush or without one.
Crash ==
  /\ loaded
  /\ loaded' = FALSE
  /\ memory' = [i \in Ids |-> 0]
  /\ dirty' = {} /\ deleted' = {} /\ dirtyGen' = [i \in Ids |-> 0]
  /\ corruptIds' = {} /\ flushTimer' = FALSE /\ flushAgain' = FALSE
  /\ flight' = NoFlush /\ sync' = NoFlush
  /\ call' = [k \in Callers |-> [call[k] EXCEPT !.at = "idle"]]
  /\ raced' = {}
  /\ UNCHANGED <<changes, disk, failures>>

\* Something outside the program damages a shard.
Damage(i) ==
  /\ ~loaded /\ shard[i] # 0 /\ i \notin corrupt
  /\ corrupt' = corrupt \cup {i}
  /\ UNCHANGED <<store, flushTimer, flushAgain, flight, sync, call, shard, index, setAside, failures, raced>>

\* load through loadFromIndex: shards that do not parse are renamed aside.
Load ==
  LET bad == index \cap corrupt IN
  /\ ~loaded
  /\ loaded' = TRUE
  /\ memory' = [i \in Ids |-> Durable(i)]
  /\ corruptIds' = bad \cup {i \in index : shard[i] = 0 /\ i \in setAside}
  /\ shard' = [i \in Ids |-> IF i \in bad THEN 0 ELSE shard[i]]
  /\ corrupt' = corrupt \ bad
  /\ setAside' = setAside \cup bad
  /\ UNCHANGED <<changes, dirty, dirtyGen, deleted, flushTimer, flushAgain, flight, sync, call, index,
                 failures, raced>>

-----------------------------------------------------------------------------
Init ==
  /\ memory = [i \in Ids |-> 0] /\ changes = 0 /\ loaded = FALSE
  /\ dirty = {} /\ dirtyGen = [i \in Ids |-> 0] /\ deleted = {} /\ corruptIds = {}
  /\ flushTimer = FALSE /\ flushAgain = FALSE
  /\ flight = NoFlush /\ sync = NoFlush
  /\ call = [k \in Callers |-> [at |-> "idle", due |-> [i \in Ids |-> 0]]]
  /\ shard = [i \in Ids |-> 0] /\ index = {} /\ corrupt = {} /\ setAside = {}
  /\ failures = 0 /\ raced = {}

Next ==
  \/ \E i \in Ids : Change(i) \/ Remove(i) \/ FlushShard(i) \/ FlushUnlink(i) \/ Damage(i)
  \/ \E k \in Callers : TurnEnds(k)
  \/ TimerFires \/ NextFile \/ TmpWritten \/ PoolStep
  \/ FlightLands \/ FlightAbandoned \/ FlightFails
  \/ Flush \/ FlushIndex \/ FlushFails
  \/ Crash \/ Load

Spec == Init /\ [][Next]_vars

\* The event loop runs timers and continuations, the pool does its work, and a
\* synchronous flush goes on; nobody has to change, end a turn, flush or crash.
Fairness ==
  /\ WF_vars(TimerFires) /\ WF_vars(PoolStep)
  /\ WF_vars(NextFile \/ TmpWritten \/ FlightLands \/ FlightAbandoned)
  /\ WF_vars(FlushIndex \/ \E i \in Ids : FlushShard(i) \/ FlushUnlink(i))

FairSpec == Spec /\ Fairness

-----------------------------------------------------------------------------
(* Properties *)

Work ==
  [at : {"none", "mkdir", "tmp", "rename", "renamed", "unlink", "unlinked", "discard", "writing"},
   file : Files, todo : SUBSET Ids, drop : SUBSET Ids, gone : SUBSET Ids,
   gens : [Ids -> Nat], body : [Ids -> Versions], ids : SUBSET Ids,
   stale : BOOLEAN, latest : BOOLEAN, overtaken : BOOLEAN]

TypeOK ==
  /\ memory \in [Ids -> Versions] /\ changes \in Versions /\ loaded \in BOOLEAN
  /\ dirty \subseteq Ids /\ dirtyGen \in [Ids -> Nat] /\ deleted \subseteq Ids
  /\ corruptIds \subseteq Ids /\ flushTimer \in BOOLEAN /\ flushAgain \in BOOLEAN
  /\ flight \in Work /\ sync \in Work
  /\ call \in [Callers -> [at : {"idle", "owner", "waiting", "returned"}, due : [Ids -> Versions]]]
  /\ shard \in [Ids -> Versions] /\ index \subseteq Ids /\ corrupt \subseteq Ids /\ setAside \subseteq Ids
  /\ failures \in 0..MaxFailures /\ raced \subseteq Files
  /\ dirty = {i \in Ids : dirtyGen[i] # 0} /\ dirty \cap deleted = {}
  /\ \A i \in Ids : (i \in dirty => memory[i] # 0) /\ (i \in deleted => memory[i] = 0)

\* What the store believes saved is saved: a conversation that is neither dirty
\* nor deleted is on disk as it is in memory, so that a crash does not change
\* it, through every mix of the two flushes, failures, removals and restarts.
\* The two races the code loses are excepted, each for its own file.
CleanIsDurable ==
  loaded /\ Index \notin raced =>
    \A i \in Ids \ (dirty \cup deleted \cup raced) : Durable(i) = memory[i]

\* A conversation with a file, readable or set aside, leaves the index only
\* because it was removed, or while it is still to be written: no mix of flushes,
\* and no restart, drops another (the comment on corruptIds), unless the index is
\* one that a race has left.
OnlyRemovalsLeaveTheIndex ==
  [][Index \notin raced \cup raced' =>
       {i \in index \ index' : shard[i] # 0 \/ i \in setAside} \subseteq dirty' \cup deleted]_vars

\* A turn end whose flushAsync started the flight has its conversation on disk
\* when it goes on to emit `end`, if no write has failed.
OwnerReturnsDurable ==
  [][\A k \in Callers : (call[k].at = "owner" /\ call'[k].at = "returned" /\ failures' = 0) =>
       \A i \in Ids \ raced' : (Index \notin raced' /\ memory'[i] # 0) => Durable(i)' >= call[k].due[i]]_vars

\* Every change is written in the end, unless a write fails or the process ends.
ChangesAreWritten ==
  \A i \in Ids : i \in dirty \cup deleted ~> i \notin dirty \cup deleted \/ ~loaded \/ failures > 0

-----------------------------------------------------------------------------
(* What the comments say and the code does not do *)

\* fileWriteSeq: a stale asynchronous rename cannot clobber a newer write.
NewerShardsStay ==
  [][\A i \in Ids : shard'[i] # 0 => shard'[i] >= shard[i]]_vars

=============================================================================
