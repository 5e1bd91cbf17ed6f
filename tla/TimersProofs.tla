---------------------------- MODULE TimersProofs ----------------------------
(***************************************************************************)
(* Three properties of Timers, each with its own invariant.                *)
(*                                                                         *)
(* OneTurnPerJob.  The store cannot carry it: a reload may bring back a    *)
(* job whose run was never written, and removeJob drops the record of a    *)
(* run under way.  What does is the scheduler's inflight, which only the   *)
(* end of the turn itself, or of the process, takes a job out of.          *)
(*                                                                         *)
(* BusyHasATurn.  Books: each store, in memory and on disk, says "running" *)
(* only of jobs that have a turn, and holds the record of every turn among *)
(* the last RunsKept runs, so that its end finds what it has to undo.      *)
(*                                                                         *)
(* SlotsFireOnce.  Slots: in each store the next slot of a job lies after  *)
(* the one that was fired last, unless the job runs or is off.             *)
(***************************************************************************)
EXTENDS Timers, FiniteSetTheorems, FunctionTheorems, TLAPS

Typed ==
  /\ inflight \in [Hosts -> SUBSET Jobs]
  /\ turns \subseteq [host : Hosts, job : Jobs, id : Int]
  /\ runsMade \in Int

InFlight == \A t \in turns : t.job \in inflight[t.host]

OneTurnPerHost == \A t, u \in turns : t.host = u.host /\ t.job = u.job => t = u

IInv == Typed /\ InFlight /\ OneTurnPerHost

(* fire of a job that is not in flight at h. *)
LEMMA FireKeeps ==
  ASSUME IInv, NEW h \in Hosts, NEW j \in Jobs, NEW at, NEW inputs,
         j \notin inflight[h], Fire(h, j, at, inputs)
  PROVE  IInv'
<1> DEFINE new == [host |-> h, job |-> j, id |-> runsMade + 1]
<1>1. /\ inflight' = [inflight EXCEPT ![h] = @ \cup {j}]
      /\ turns' = turns \cup {new}
      /\ runsMade' = runsMade + 1
  BY DEF Fire
<1>2. Typed'
  BY <1>1 DEF IInv, Typed
<1>3. InFlight'
  BY <1>1 DEF IInv, Typed, InFlight
<1>4. \A t \in turns : ~(t.host = h /\ t.job = j)
  BY DEF IInv, InFlight
<1>5. OneTurnPerHost'
  BY <1>1, <1>4 DEF IInv, OneTurnPerHost
<1> QED
  BY <1>2, <1>3, <1>5 DEF IInv

(* The end of a turn frees its job, and no other turn of h has it. *)
LEMMA TurnEndsKeeps ==
  ASSUME IInv, NEW t \in turns, TurnEnds(t)
  PROVE  IInv'
<1>1. turns' = turns \ {t} /\ runsMade' = runsMade
  BY DEF TurnEnds
<1>2. \/ inflight' = inflight
      \/ inflight' = [inflight EXCEPT ![t.host] = @ \ {t.job}]
  BY DEF TurnEnds, Released
<1>3. Typed'
  BY <1>1, <1>2 DEF IInv, Typed
<1>4. \A u \in turns \ {t} : ~(u.host = t.host /\ u.job = t.job)
  BY DEF IInv, OneTurnPerHost
<1>5. InFlight'
  <2> SUFFICES ASSUME NEW u \in turns \ {t} PROVE u.job \in inflight'[u.host]
    BY <1>1 DEF InFlight
  <2>1. u.host \in Hosts /\ t.host \in Hosts /\ u.job \in inflight[u.host]
    BY DEF IInv, Typed, InFlight
  <2> QED
    BY <1>2, <1>4, <2>1 DEF IInv, Typed
<1>6. OneTurnPerHost'
  BY <1>1 DEF IInv, OneTurnPerHost
<1> QED
  BY <1>3, <1>5, <1>6 DEF IInv

LEMMA CrashKeeps ==
  ASSUME IInv, NEW h \in Hosts, Crash(h)
  PROVE  IInv'
<1>1. /\ inflight' = [inflight EXCEPT ![h] = {}]
      /\ turns' = {t \in turns : t.host # h}
      /\ runsMade' = runsMade
  BY DEF Crash
<1> QED
  BY <1>1 DEF IInv, Typed, InFlight, OneTurnPerHost

(* A step that only takes turns away. *)
LEMMA FewerTurnsKeep ==
  ASSUME IInv, turns' \subseteq turns, inflight' = inflight, runsMade' \in Int
  PROVE  IInv'
BY DEF IInv, Typed, InFlight, OneTurnPerHost

LEMMA Initially == Init => IInv
BY DEF Init, IInv, Typed, InFlight, OneTurnPerHost

LEMMA Inductive == IInv /\ [Next]_vars => IInv'
<1> SUFFICES ASSUME IInv, [Next]_vars PROVE IInv'
  OBVIOUS
<1>0. runsMade \in Int
  BY DEF IInv, Typed
<1>1. CASE Advance
  BY <1>0, <1>1, FewerTurnsKeep DEF Advance
<1>2. ASSUME NEW h \in Hosts, Tick(h) \/ Answer(h) \/ Start(h) \/ OtherRuns(h)
      PROVE  IInv'
  <2>1. turns' = turns /\ inflight' = inflight /\ runsMade' \in Int
    BY <1>0, <1>2 DEF Tick, Answer, Start, OtherRuns
  <2> QED
    BY <2>1, FewerTurnsKeep
<1>3. ASSUME NEW h \in Hosts, Crash(h) PROVE IInv'
  BY <1>3, CrashKeeps
<1>4. ASSUME NEW h \in Hosts, NEW j \in Jobs, CreateJob(h, j) \/ UpdateJob(h, j) \/ RemoveJob(h, j)
      PROVE  IInv'
  BY <1>0, <1>4, FewerTurnsKeep DEF CreateJob, UpdateJob, RemoveJob
<1>5. ASSUME NEW h \in Hosts, NEW j \in Jobs, RunNow(h, j) PROVE IInv'
  <2>1. j \notin inflight[h] /\ Fire(h, j, now, 1)
    BY <1>5 DEF RunNow, Busy
  <2> QED
    BY <2>1, FireKeeps
<1>6. ASSUME NEW h \in Hosts, NEW j \in Jobs, LoopStep(h, j) PROVE IInv'
  <2>1. CASE j \in inflight[h]
    BY <1>0, <1>6, <2>1, FewerTurnsKeep DEF LoopStep
  <2>2. CASE j \notin inflight[h]
    <3>1. Fire(h, j, loop[h].at, 0)
      BY <1>6, <2>2 DEF LoopStep
    <3> QED
      BY <2>2, <3>1, FireKeeps
  <2> QED
    BY <2>1, <2>2
<1>7. ASSUME NEW t \in turns, TurnEnds(t) PROVE IInv'
  BY <1>7, TurnEndsKeeps
<1>8. ASSUME NEW t \in turns, DropConversation(t) PROVE IInv'
  BY <1>0, <1>8, FewerTurnsKeep DEF DropConversation
<1>9. CASE UNCHANGED vars
  BY <1>0, <1>9, FewerTurnsKeep DEF vars
<1> QED
  BY <1>1, <1>2, <1>3, <1>4, <1>5, <1>6, <1>7, <1>8, <1>9 DEF Next

(* However many hosts share the files, none of them has two turns of a job *)
(* at a time (the test of inflight in tick and runNow).                    *)
THEOREM OneTurnPerJobAndHost == Spec => []OneTurnPerHost
<1>1. IInv => OneTurnPerHost
  BY DEF IInv
<1> QED
  BY <1>1, Initially, Inductive, PTL DEF Spec

(* With one host, the desktop or a vav-server alone, no job ever has two   *)
(* turns: not across ticks that overlap, a Run beside the clock, reloads,  *)
(* failed writes or restarts.                                              *)
THEOREM OneTurnAtATime ==
  ASSUME \A g, h \in Hosts : g = h
  PROVE  Spec => []OneTurnPerJob
<1>1. IInv => OneTurnPerJob
  <2> SUFFICES ASSUME IInv, NEW t \in turns, NEW u \in turns, t.job = u.job PROVE t = u
    BY DEF OneTurnPerJob
  <2>1. t.host \in Hosts /\ u.host \in Hosts
    BY DEF IInv, Typed
  <2> QED
    BY <2>1 DEF IInv, OneTurnPerHost
<1> QED
  BY <1>1, Initially, Inductive, PTL DEF Spec

-----------------------------------------------------------------------------
(* Types *)

Idle == \A h \in Hosts : up[h] \/ loop[h] = NoLoop

TInv == TypeOK /\ Idle

LEMMA MatchExists ==
  ASSUME NEW t \in Nat
  PROVE  \E s \in t .. t + Period - 1 : Match(s)
<1>1. Period \in Nat \ {0}
  BY TimersAssumption
<1>2. t % Period \in 0 .. Period - 1 /\ t = Period * (t \div Period) + (t % Period)
  BY <1>1, SMT
<1>3. CASE t % Period = 0
  BY <1>1, <1>3 DEF Match
<1>4. CASE t % Period # 0
  <2> DEFINE q == t \div Period + 1
  <2>1. q \in Int /\ Period * q = t + (Period - (t % Period))
    BY <1>1, <1>2, SMT
  <2>2. (Period * q) % Period = 0
    BY <1>1, <2>1, SMT
  <2> QED
    BY <1>1, <1>2, <1>4, <2>1, <2>2 DEF Match
<1> QED
  BY <1>3, <1>4

LEMMA SlotType ==
  ASSUME NEW kind \in Kinds, NEW at \in 0 .. MaxTime, NEW t \in 0 .. MaxTime + 1
  PROVE  NextRunAt(kind, at, t) \in Times \cup {None}
<1> USE TimersAssumption DEF Times, None
<1>1. CASE kind = "once"
  BY <1>1 DEF NextRunAt
<1>2. CASE kind = "interval"
  BY <1>2 DEF NextRunAt
<1>3. CASE kind = "cron"
  <2>1. (CHOOSE s \in t .. t + Period - 1 : Match(s)) \in t .. t + Period - 1
    BY MatchExists
  <2>2. NextRunAt(kind, at, t) = CHOOSE s \in t .. t + Period - 1 : Match(s)
    BY <1>3 DEF NextRunAt
  <2> QED
    BY <2>1, <2>2
<1> QED
  BY <1>1, <1>2, <1>3 DEF Kinds

LEMMA JobFields ==
  ASSUME NEW job \in JobType, job # NoJob
  PROVE  /\ job.kind \in Kinds /\ job.at \in 0 .. MaxTime /\ job.created \in 0 .. MaxTime
         /\ job.last \in 0 .. MaxTime \cup {None} /\ job.next \in Times \cup {None} /\ job.enabled \in BOOLEAN
         /\ \A slot_ \in Times \cup {None} : [job EXCEPT !.next = slot_] \in JobType
BY DEF JobType

LEMMA LoadType ==
  ASSUME NEW store \in StoreType
  PROVE  Load(store) \in StoreType
<1> DEFINE From(job) == IF job.last = None THEN job.created ELSE job.last
           Coerced(job) == IF job = NoJob \/ job.next # None THEN job
                           ELSE [job EXCEPT !.next = NextRunAt(job.kind, job.at, From(job))]
           jobs == [j \in Jobs |-> Coerced(store.jobs[j])]
<1>1. ASSUME NEW job \in JobType PROVE Coerced(job) \in JobType
  <2>1. CASE job # NoJob
    <3>1. From(job) \in 0 .. MaxTime + 1
      BY <2>1, JobFields, TimersAssumption DEF None
    <3>2. NextRunAt(job.kind, job.at, From(job)) \in Times \cup {None}
      BY <2>1, <3>1, JobFields, SlotType
    <3> QED
      BY <2>1, <3>2, JobFields
  <2> QED
    BY <2>1
<1>2. Load(store) = [store EXCEPT !.jobs = jobs]
  BY DEF Load
<1> HIDE DEF Coerced
<1>3. jobs \in [Jobs -> JobType]
  BY <1>1 DEF StoreType
<1> HIDE DEF jobs
<1> QED
  BY <1>2, <1>3 DEF StoreType

LEMMA PersistType ==
  ASSUME disk \in StoreType, NEW store \in StoreType, NEW fails,
         Persist(store, fails) \/ PersistJobs(store, fails)
  PROVE  disk' \in StoreType
<1>1. Kept(store.runs) \subseteq store.runs
  BY DEF Kept
<1>2. [jobs |-> store.jobs, runs |-> Kept(store.runs)] \in StoreType /\ [disk EXCEPT !.jobs = store.jobs] \in StoreType
  BY <1>1 DEF StoreType
<1> QED
  BY <1>2 DEF Persist, PersistJobs

(* One host's store becomes another store. *)
LEMMA MemType ==
  ASSUME TInv, NEW h \in Hosts, NEW store \in StoreType, mem' = [mem EXCEPT ![h] = store], loop' = loop,
         \A j \in loop[h].todo : store.jobs[j] # NoJob
  PROVE  /\ mem' \in [Hosts -> StoreType]
         /\ \A g \in Hosts, j \in Jobs : j \in loop'[g].todo => loop'[g].at # None /\ mem'[g].jobs[j] # NoJob
<1>1. mem \in [Hosts -> StoreType]
  BY DEF TInv, TypeOK
<1>2. mem'[h] = store /\ \A g \in Hosts \ {h} : mem'[g] = mem[g]
  BY <1>1
<1>3. mem' \in [Hosts -> StoreType]
  BY <1>1
<1> QED
  BY <1>2, <1>3 DEF TInv, TypeOK

LEMMA StoreFields ==
  ASSUME TInv, NEW h \in Hosts
  PROVE  mem[h] \in StoreType /\ mem[h].jobs \in [Jobs -> JobType] /\ mem[h].runs \in SUBSET RunType
BY DEF TInv, TypeOK, StoreType

LEMMA CreateJobTypes ==
  ASSUME TInv, NEW h \in Hosts, NEW j \in Jobs, CreateJob(h, j)
  PROVE  TInv'
<1>1. PICK job \in NewJobs(now), fails \in BOOLEAN :
        LET store == [mem[h] EXCEPT !.jobs[j] = job] IN mem' = [mem EXCEPT ![h] = store] /\ PersistJobs(store, fails)
  BY DEF CreateJob
<1> DEFINE store == [mem[h] EXCEPT !.jobs[j] = job]
<1>2. job \in JobType
  <2>1. PICK kind \in Kinds, at \in now .. MaxTime :
          job = [kind |-> kind, at |-> IF kind = "once" THEN at ELSE 0, created |-> now, enabled |-> TRUE, last |-> None,
                 next |-> NextRunAt(kind, at, now), status |-> "none"]
    BY <1>1 DEF NewJobs
  <2>2. now \in 0 .. MaxTime /\ at \in 0 .. MaxTime /\ now \in 0 .. MaxTime + 1 /\ 0 \in 0 .. MaxTime
    BY TimersAssumption DEF TInv, TypeOK
  <2>3. NextRunAt(kind, at, now) \in Times \cup {None}
    BY <2>2, SlotType
  <2> QED
    BY <2>1, <2>2, <2>3 DEF JobType
<1>3. store \in StoreType
  BY <1>2, StoreFields DEF StoreType
<1>4. loop[h] = NoLoop /\ loop' = loop
  BY DEF CreateJob, Free
<1>5. mem' = [mem EXCEPT ![h] = store] /\ PersistJobs(store, fails)
  BY <1>1
<1> HIDE DEF store
<1>6. \A i \in loop[h].todo : store.jobs[i] # NoJob
  BY <1>4 DEF NoLoop
<1>7. /\ mem' \in [Hosts -> StoreType]
      /\ \A g \in Hosts, i \in Jobs : i \in loop'[g].todo => loop'[g].at # None /\ mem'[g].jobs[i] # NoJob
  BY <1>3, <1>4, <1>5, <1>6, MemType
<1>8. disk' \in StoreType
  BY <1>3, <1>5, PersistType DEF TInv, TypeOK
<1> QED
  BY <1>7, <1>8 DEF CreateJob, TInv, TypeOK, Idle

LEMMA UpdateJobTypes ==
  ASSUME TInv, NEW h \in Hosts, NEW j \in Jobs, UpdateJob(h, j)
  PROVE  TInv'
<1>1. PICK enabled \in BOOLEAN, fails \in BOOLEAN :
        LET job == [mem[h].jobs[j] EXCEPT !.enabled = enabled]
            from == IF job.last = None THEN now ELSE job.last
            store == [mem[h] EXCEPT !.jobs[j] = [job EXCEPT !.next = Slot(job, from)]]
        IN mem' = [mem EXCEPT ![h] = store] /\ PersistJobs(store, fails)
  BY DEF UpdateJob
<1> DEFINE job == [mem[h].jobs[j] EXCEPT !.enabled = enabled]
           from == IF job.last = None THEN now ELSE job.last
           new == [job EXCEPT !.next = Slot(job, from)]
           store == [mem[h] EXCEPT !.jobs[j] = new]
<1>2. new \in JobType
  <2>1. mem[h].jobs[j] \in JobType /\ mem[h].jobs[j] # NoJob
    BY StoreFields DEF UpdateJob
  <2>2. /\ job \in [kind : Kinds, at : 0 .. MaxTime, created : 0 .. MaxTime, enabled : BOOLEAN,
                     last : 0 .. MaxTime \cup {None}, next : Times \cup {None},
                     status : {"none", "ok", "failed", "running"}]
    BY <2>1 DEF JobType
  <2> HIDE DEF job
  <2>3. from \in 0 .. MaxTime + 1
    BY <2>2, TimersAssumption DEF TInv, TypeOK, None
  <2> HIDE DEF from
  <2>4. Slot(job, from) \in Times \cup {None}
    BY <2>2, <2>3, SlotType DEF Slot
  <2> QED
    BY <2>2, <2>4 DEF JobType
<1>3. store = [mem[h] EXCEPT !.jobs[j] = new] /\ mem' = [mem EXCEPT ![h] = store] /\ PersistJobs(store, fails)
  BY <1>1
<1> HIDE DEF new
<1>4. store \in StoreType
  BY <1>2, StoreFields DEF StoreType
<1>5. loop[h] = NoLoop /\ loop' = loop
  BY DEF UpdateJob, Free
<1> HIDE DEF store
<1>6. \A i \in loop[h].todo : store.jobs[i] # NoJob
  BY <1>5 DEF NoLoop
<1>7. /\ mem' \in [Hosts -> StoreType]
      /\ \A g \in Hosts, i \in Jobs : i \in loop'[g].todo => loop'[g].at # None /\ mem'[g].jobs[i] # NoJob
  BY <1>3, <1>4, <1>5, <1>6, MemType
<1>8. disk' \in StoreType
  BY <1>3, <1>4, PersistType DEF TInv, TypeOK
<1>9. slot' \in [Jobs -> Times \cup {None}]
  BY DEF UpdateJob, TInv, TypeOK
<1> QED
  BY <1>7, <1>8, <1>9 DEF UpdateJob, TInv, TypeOK, Idle

LEMMA RemoveJobTypes ==
  ASSUME TInv, NEW h \in Hosts, NEW j \in Jobs, RemoveJob(h, j)
  PROVE  TInv'
<1> DEFINE store == [jobs |-> [mem[h].jobs EXCEPT ![j] = NoJob], runs |-> {r \in mem[h].runs : r.job # j}]
<1>1. PICK fails \in BOOLEAN : mem' = [mem EXCEPT ![h] = store] /\ Persist(store, fails)
  BY DEF RemoveJob
<1>2. store \in StoreType
  <2>1. NoJob \in JobType
    BY DEF JobType
  <2> QED
    BY <2>1, StoreFields DEF StoreType
<1>3. loop[h] = NoLoop /\ loop' = loop
  BY DEF RemoveJob, Free
<1> HIDE DEF store
<1>4. \A i \in loop[h].todo : store.jobs[i] # NoJob
  BY <1>3 DEF NoLoop
<1>5. /\ mem' \in [Hosts -> StoreType]
      /\ \A g \in Hosts, i \in Jobs : i \in loop'[g].todo => loop'[g].at # None /\ mem'[g].jobs[i] # NoJob
  BY <1>1, <1>2, <1>3, <1>4, MemType
<1>6. disk' \in StoreType
  BY <1>1, <1>2, PersistType DEF TInv, TypeOK
<1>7. removed' \subseteq Jobs
  BY DEF RemoveJob, TInv, TypeOK
<1> QED
  BY <1>5, <1>6, <1>7 DEF RemoveJob, TInv, TypeOK, Idle

(* fire of a job that exists. *)
LEMMA FireTypes ==
  ASSUME TInv, NEW h \in Hosts, NEW j \in Jobs, NEW at \in 0 .. MaxTime, NEW inputs, mem[h].jobs[j] # NoJob,
         Fire(h, j, at, inputs)
  PROVE  /\ disk' \in StoreType /\ mem' \in [Hosts -> StoreType]
         /\ inflight' \in [Hosts -> SUBSET Jobs]
         /\ turns' \subseteq [host : Hosts, job : Jobs, id : Nat] /\ runsMade' \in Nat
         /\ \A g \in Hosts, i \in Jobs : mem[g].jobs[i] # NoJob => mem'[g].jobs[i] # NoJob
<1> DEFINE run == [id |-> runsMade + 1, job |-> j, running |-> TRUE]
           job == [mem[h].jobs[j] EXCEPT !.last = at, !.status = "running"]
           store == [jobs |-> [mem[h].jobs EXCEPT ![j] = job], runs |-> mem[h].runs \cup {run}]
<1>1. /\ mem[h].jobs \in [Jobs -> JobType] /\ mem[h].runs \in SUBSET RunType /\ runsMade \in Nat
      /\ mem \in [Hosts -> StoreType] /\ disk \in StoreType
  BY StoreFields DEF TInv, TypeOK
<1>2. job \in JobType /\ job.status = "running"
  BY <1>1 DEF JobType
<1>3. run \in RunType
  BY <1>1 DEF RunType
<1>4. [[mem[h].jobs EXCEPT ![j].last = at] EXCEPT ![j].status = "running"] = [mem[h].jobs EXCEPT ![j] = job]
  BY <1>1
<1>5. PICK fails \in BOOLEAN : mem' = [mem EXCEPT ![h] = store] /\ Persist(store, fails)
  BY <1>4 DEF Fire
<1> HIDE DEF job, run
<1>6. store \in StoreType /\ store.jobs[j] = job /\ \A i \in Jobs \ {j} : store.jobs[i] = mem[h].jobs[i]
  BY <1>1, <1>2, <1>3 DEF StoreType
<1> HIDE DEF store
<1>7. job # NoJob
  BY <1>2 DEF NoJob
<1>8. mem' \in [Hosts -> StoreType] /\ mem'[h] = store /\ \A g \in Hosts \ {h} : mem'[g] = mem[g]
  BY <1>1, <1>5, <1>6
<1>9. disk' \in StoreType
  BY <1>1, <1>5, <1>6, PersistType
<1>10. /\ inflight' \in [Hosts -> SUBSET Jobs] /\ runsMade' \in Nat
       /\ turns' \subseteq [host : Hosts, job : Jobs, id : Nat]
  BY <1>1 DEF Fire, TInv, TypeOK
<1>11. \A g \in Hosts, i \in Jobs : mem[g].jobs[i] # NoJob => mem'[g].jobs[i] # NoJob
  BY <1>6, <1>7, <1>8
<1> QED
  BY <1>8, <1>9, <1>10, <1>11

LEMMA RunNowTypes ==
  ASSUME TInv, NEW h \in Hosts, NEW j \in Jobs, RunNow(h, j)
  PROVE  TInv'
<1>1. Fire(h, j, now, 1) /\ mem[h].jobs[j] # NoJob /\ now \in 0 .. MaxTime
  BY DEF RunNow, TInv, TypeOK
<1>2. /\ disk' \in StoreType /\ mem' \in [Hosts -> StoreType]
      /\ inflight' \in [Hosts -> SUBSET Jobs]
      /\ turns' \subseteq [host : Hosts, job : Jobs, id : Nat] /\ runsMade' \in Nat
      /\ \A g \in Hosts, i \in Jobs : mem[g].jobs[i] # NoJob => mem'[g].jobs[i] # NoJob
  BY <1>1, FireTypes
<1> QED
  BY <1>2 DEF RunNow, TInv, TypeOK, Idle

LEMMA LoopStepTypes ==
  ASSUME TInv, NEW h \in Hosts, NEW j \in Jobs, LoopStep(h, j)
  PROVE  TInv'
<1>1. j \in loop[h].todo /\ loop[h].at \in 0 .. MaxTime /\ mem[h].jobs[j] # NoJob /\ mem[h].jobs[j] \in JobType
  BY StoreFields DEF LoopStep, TInv, TypeOK
<1>2. /\ loop' \in [Hosts -> [at : 0 .. MaxTime \cup {None}, todo : SUBSET Jobs]]
      /\ \A g \in Hosts, i \in Jobs : i \in loop'[g].todo => i \in loop[g].todo /\ loop'[g].at = loop[g].at
      /\ up' = up /\ up[h]
  <2>1. NoLoop \in [at : 0 .. MaxTime \cup {None}, todo : SUBSET Jobs] /\ NoLoop.todo = {}
    BY DEF NoLoop
  <2>2. [loop[h] EXCEPT !.todo = @ \ {j}] \in [at : 0 .. MaxTime \cup {None}, todo : SUBSET Jobs]
        /\ [loop[h] EXCEPT !.todo = @ \ {j}].at = loop[h].at
        /\ [loop[h] EXCEPT !.todo = @ \ {j}].todo \subseteq loop[h].todo
    BY DEF TInv, TypeOK
  <2>3. loop' = [loop EXCEPT ![h] = IF loop[h].todo = {j} THEN NoLoop ELSE [loop[h] EXCEPT !.todo = @ \ {j}]]
    BY DEF LoopStep
  <2>4. loop \in [Hosts -> [at : 0 .. MaxTime \cup {None}, todo : SUBSET Jobs]]
    BY DEF TInv, TypeOK
  <2> DEFINE rest == [loop[h] EXCEPT !.todo = @ \ {j}]
  <2> HIDE DEF rest
  <2>5. loop' = [loop EXCEPT ![h] = IF loop[h].todo = {j} THEN NoLoop ELSE rest]
        /\ rest \in [at : 0 .. MaxTime \cup {None}, todo : SUBSET Jobs] /\ rest.at = loop[h].at
        /\ rest.todo \subseteq loop[h].todo
    BY <2>2, <2>3 DEF rest
  <2> QED
    BY <2>1, <2>4, <2>5 DEF LoopStep
<1>3. Idle'
  <2>1. \A g \in Hosts \ {h} : loop'[g] = loop[g]
    BY DEF LoopStep, TInv, TypeOK
  <2> QED
    BY <1>2, <2>1 DEF TInv, Idle
<1>4. CASE j \in inflight[h]
  BY <1>2, <1>3, <1>4 DEF LoopStep, TInv, TypeOK
<1>5. CASE j \notin inflight[h]
  <2>1. Fire(h, j, loop[h].at, 0) /\ slot' = [slot EXCEPT ![j] = mem[h].jobs[j].next]
    BY <1>5 DEF LoopStep
  <2>2. slot' \in [Jobs -> Times \cup {None}]
    BY <1>1, <2>1, JobFields DEF TInv, TypeOK
  <2>3. /\ disk' \in StoreType /\ mem' \in [Hosts -> StoreType]
        /\ inflight' \in [Hosts -> SUBSET Jobs]
        /\ turns' \subseteq [host : Hosts, job : Jobs, id : Nat] /\ runsMade' \in Nat
        /\ \A g \in Hosts, i \in Jobs : mem[g].jobs[i] # NoJob => mem'[g].jobs[i] # NoJob
    BY <1>1, <2>1, FireTypes
  <2>4. /\ now' = now /\ up' = up /\ asking' = asking /\ stranded' = stranded /\ removed' = removed
    BY DEF LoopStep
  <2> QED
    BY <1>2, <1>3, <2>2, <2>3, <2>4 DEF TInv, TypeOK
<1> QED
  BY <1>4, <1>5

LEMMA FinishedType ==
  ASSUME TInv, NEW job \in JobType, job # NoJob, NEW ok \in BOOLEAN
  PROVE  Finished(job, ok) \in JobType /\ Finished(job, ok) # NoJob
<1> DEFINE next == IF job.enabled /\ job.kind # "once" THEN NextRunAt(job.kind, job.at, now + 1) ELSE None
           status == IF ok THEN "ok" ELSE "failed"
           enabled == IF job.kind = "once" THEN FALSE ELSE job.enabled
<1>1. now + 1 \in 0 .. MaxTime + 1
  BY TimersAssumption DEF TInv, TypeOK
<1>2. next \in Times \cup {None}
  BY <1>1, JobFields, SlotType
<1>3. enabled \in BOOLEAN /\ status \in {"ok", "failed"}
  BY JobFields
<1>4. Finished(job, ok) = [[[job EXCEPT !.status = status] EXCEPT !.next = next] EXCEPT !.enabled = enabled]
  BY DEF Finished
<1> HIDE DEF next, status, enabled
<1>5. /\ Finished(job, ok) \in JobType /\ Finished(job, ok).status = status
  BY <1>2, <1>3, <1>4 DEF JobType
<1> QED
  BY <1>3, <1>5 DEF NoJob

LEMMA TurnEndsTypes ==
  ASSUME TInv, NEW t \in turns, TurnEnds(t)
  PROVE  TInv'
<1> DEFINE h == t.host
           j == t.job
           known == {r \in mem[h].runs : r.id = t.id /\ r.running}
<1>1. t \in [host : Hosts, job : Jobs, id : Nat] /\ h \in Hosts /\ j \in Jobs
  BY DEF TInv, TypeOK
<1>2. /\ loop[h] = NoLoop /\ loop' = loop /\ now' = now /\ up' = up /\ asking' = asking
      /\ runsMade' = runsMade /\ slot' = slot /\ removed' = removed /\ turns' = turns \ {t}
  BY DEF TurnEnds, Free
<1>3. stranded' \subseteq Jobs
  <2>1. stranded' = stranded \/ stranded' = stranded \cup {j}
    BY DEF TurnEnds
  <2> QED
    BY <1>1, <2>1 DEF TInv, TypeOK
<1>4. CASE known = {}
  BY <1>2, <1>3, <1>4 DEF TurnEnds, TInv, TypeOK, Idle
<1>5. CASE known # {}
  <2>1. PICK ok \in BOOLEAN, fails \in BOOLEAN :
          LET store == [jobs |-> IF mem[h].jobs[j] = NoJob THEN mem[h].jobs
                                 ELSE [mem[h].jobs EXCEPT ![j] = Finished(@, ok)],
                        runs |-> (mem[h].runs \ known) \cup {[r EXCEPT !.running = FALSE] : r \in known}]
          IN mem' = [mem EXCEPT ![h] = store] /\ Persist(store, fails) /\ inflight' = [inflight EXCEPT ![h] = Released(h, j, ok)]
    BY <1>5 DEF TurnEnds
  <2> DEFINE jobs == IF mem[h].jobs[j] = NoJob THEN mem[h].jobs ELSE [mem[h].jobs EXCEPT ![j] = Finished(@, ok)]
             runs == (mem[h].runs \ known) \cup {[r EXCEPT !.running = FALSE] : r \in known}
             store == [jobs |-> jobs, runs |-> runs]
  <2>2. jobs \in [Jobs -> JobType]
    <3>1. mem[h].jobs \in [Jobs -> JobType] /\ mem[h].jobs[j] \in JobType
      BY <1>1, StoreFields
    <3>2. mem[h].jobs[j] # NoJob => Finished(mem[h].jobs[j], ok) \in JobType
      BY <3>1, FinishedType
    <3> QED
      BY <3>1, <3>2
  <2>3. runs \in SUBSET RunType
    <3>1. mem[h].runs \in SUBSET RunType
      BY <1>1, StoreFields
    <3>2. \A r \in RunType : [r EXCEPT !.running = FALSE] \in RunType
      BY DEF RunType
    <3> QED
      BY <3>1, <3>2
  <2>4. store \in StoreType
    <3> HIDE DEF jobs, runs
    <3> QED
      BY <2>2, <2>3 DEF StoreType
  <2>5. mem' = [mem EXCEPT ![h] = store] /\ Persist(store, fails) /\ inflight' = [inflight EXCEPT ![h] = inflight[h] \ {j}]
    BY <2>1 DEF Released
  <2> HIDE DEF store
  <2>6. \A i \in loop[h].todo : store.jobs[i] # NoJob
    BY <1>2 DEF NoLoop
  <2>7. /\ mem' \in [Hosts -> StoreType]
        /\ \A g \in Hosts, i \in Jobs : i \in loop'[g].todo => loop'[g].at # None /\ mem'[g].jobs[i] # NoJob
    BY <1>1, <1>2, <2>4, <2>5, <2>6, MemType
  <2>8. disk' \in StoreType
    BY <2>4, <2>5, PersistType DEF TInv, TypeOK
  <2>9. inflight' \in [Hosts -> SUBSET Jobs]
    BY <1>1, <2>5 DEF TInv, TypeOK
  <2> QED
    BY <1>2, <1>3, <2>7, <2>8, <2>9 DEF TInv, TypeOK, Idle
<1> QED
  BY <1>4, <1>5

LEMMA TickTypes ==
  ASSUME TInv, NEW h \in Hosts, Tick(h) \/ Start(h)
  PROVE  TInv'
<1>1. loop[h] = NoLoop /\ loop' = loop /\ mem' = [mem EXCEPT ![h] = Load(disk)]
  BY DEF Tick, Start, Free, TInv, Idle
<1>2. Load(disk) \in StoreType
  BY LoadType DEF TInv, TypeOK
<1>3. \A i \in loop[h].todo : Load(disk).jobs[i] # NoJob
  BY <1>1 DEF NoLoop
<1>4. /\ mem' \in [Hosts -> StoreType]
      /\ \A g \in Hosts, i \in Jobs : i \in loop'[g].todo => loop'[g].at # None /\ mem'[g].jobs[i] # NoJob
  BY <1>1, <1>2, <1>3, MemType
<1>5. CASE Tick(h)
  <2> DEFINE asked == [at |-> now, defer |-> h # Server /\ Server \in Hosts /\ up[Server]]
  <2>1. asked \in [at : 0 .. MaxTime, defer : BOOLEAN]
    <3>1. Server \in Hosts => up[Server] \in BOOLEAN
      BY DEF TInv, TypeOK
    <3>2. now \in 0 .. MaxTime
      BY DEF TInv, TypeOK
    <3>3. (h # Server /\ Server \in Hosts /\ up[Server]) \in BOOLEAN
      BY Zenon
    <3> QED
      BY <3>2, <3>3
  <2>2. asking' = [asking EXCEPT ![h] = @ \cup {asked}]
    BY <1>5 DEF Tick
  <2> HIDE DEF asked
  <2>3. asking' \in [Hosts -> SUBSET [at : 0 .. MaxTime, defer : BOOLEAN]]
    BY <2>1, <2>2 DEF TInv, TypeOK
  <2> QED
    BY <1>4, <1>5, <2>3 DEF Tick, TInv, TypeOK, Idle
<1>6. CASE Start(h)
  BY <1>4, <1>6 DEF Start, TInv, TypeOK, Idle
<1> QED
  BY <1>5, <1>6

LEMMA AnswerTypes ==
  ASSUME TInv, NEW h \in Hosts, Answer(h)
  PROVE  TInv'
<1>1. PICK a \in asking[h] :
        /\ asking' = [asking EXCEPT ![h] = @ \ {a}]
        /\ loop' = [loop EXCEPT ![h] =
             IF a.defer \/ Due(h, a.at) = {} THEN NoLoop ELSE [at |-> a.at, todo |-> Due(h, a.at)]]
  BY DEF Answer
<1>2. a.at \in 0 .. MaxTime /\ a.at # None /\ asking' \in [Hosts -> SUBSET [at : 0 .. MaxTime, defer : BOOLEAN]]
  BY <1>1 DEF TInv, TypeOK, None
<1>3. Due(h, a.at) \in SUBSET Jobs /\ \A j \in Due(h, a.at) : mem[h].jobs[j] # NoJob
  BY DEF Due, NoJob
<1> DEFINE new == IF a.defer \/ Due(h, a.at) = {} THEN NoLoop ELSE [at |-> a.at, todo |-> Due(h, a.at)]
<1>4. /\ new \in [at : 0 .. MaxTime \cup {None}, todo : SUBSET Jobs]
      /\ \A j \in new.todo : new.at # None /\ mem[h].jobs[j] # NoJob
  BY <1>2, <1>3 DEF NoLoop
<1>5. loop' = [loop EXCEPT ![h] = new]
  BY <1>1
<1> HIDE DEF new
<1>6. /\ loop' \in [Hosts -> [at : 0 .. MaxTime \cup {None}, todo : SUBSET Jobs]]
      /\ loop'[h] = new /\ \A g \in Hosts \ {h} : loop'[g] = loop[g]
  BY <1>4, <1>5 DEF TInv, TypeOK
<1> QED
  BY <1>2, <1>4, <1>6 DEF Answer, Free, TInv, TypeOK, Idle

LEMMA CrashTypes ==
  ASSUME TInv, NEW h \in Hosts, Crash(h)
  PROVE  TInv'
<1>1. NoLoop \in [at : 0 .. MaxTime \cup {None}, todo : SUBSET Jobs] /\ NoLoop.todo = {}
  BY DEF NoLoop
<1>2. /\ loop' \in [Hosts -> [at : 0 .. MaxTime \cup {None}, todo : SUBSET Jobs]]
      /\ loop'[h] = NoLoop /\ \A g \in Hosts \ {h} : loop'[g] = loop[g]
  BY <1>1 DEF Crash, TInv, TypeOK
<1>3. up' \in [Hosts -> BOOLEAN] /\ \A g \in Hosts \ {h} : up'[g] = up[g]
  BY DEF Crash, TInv, TypeOK
<1>4. inflight' \in [Hosts -> SUBSET Jobs] /\ asking' \in [Hosts -> SUBSET [at : 0 .. MaxTime, defer : BOOLEAN]]
  BY DEF Crash, TInv, TypeOK
<1>5. stranded' \subseteq Jobs /\ turns' \subseteq [host : Hosts, job : Jobs, id : Nat]
  BY DEF Crash, TInv, TypeOK
<1>6. Idle'
  BY <1>2, <1>3 DEF TInv, Idle
<1> QED
  BY <1>1, <1>2, <1>3, <1>4, <1>5, <1>6 DEF Crash, TInv, TypeOK

LEMMA OtherRunsTypes ==
  ASSUME TInv, NEW h \in Hosts, OtherRuns(h)
  PROVE  TInv'
<1> DEFINE run == [id |-> runsMade + 1, job |-> OtherJob, running |-> FALSE]
           store == [mem[h] EXCEPT !.runs = @ \cup {run}]
<1>1. run \in RunType
  BY DEF RunType, TInv, TypeOK
<1>2. PICK fails \in BOOLEAN : Persist(store, fails)
  BY DEF OtherRuns
<1>3. mem' = [mem EXCEPT ![h] = store] /\ loop' = loop /\ loop[h] = NoLoop
  BY DEF OtherRuns, Free
<1> HIDE DEF run
<1>4. store \in StoreType
  BY <1>1, StoreFields DEF StoreType
<1> HIDE DEF store
<1>5. \A i \in loop[h].todo : store.jobs[i] # NoJob
  BY <1>3 DEF NoLoop
<1>6. /\ mem' \in [Hosts -> StoreType]
      /\ \A g \in Hosts, i \in Jobs : i \in loop'[g].todo => loop'[g].at # None /\ mem'[g].jobs[i] # NoJob
  BY <1>3, <1>4, <1>5, MemType
<1>7. disk' \in StoreType
  BY <1>2, <1>4, PersistType DEF TInv, TypeOK
<1> QED
  BY <1>6, <1>7 DEF OtherRuns, TInv, TypeOK, Idle

LEMMA InitTypes == Init => TInv
<1>1. NoJob \in JobType /\ NoLoop \in [at : 0 .. MaxTime \cup {None}, todo : SUBSET Jobs] /\ NoLoop.todo = {}
  BY DEF JobType, NoLoop
<1> QED
  BY <1>1, TimersAssumption DEF Init, TInv, TypeOK, Idle, StoreType

LEMMA TypesInductive == TInv /\ [Next]_vars => TInv'
<1> SUFFICES ASSUME TInv, [Next]_vars PROVE TInv'
  OBVIOUS
<1>1. CASE Advance
  BY <1>1, TimersAssumption DEF Advance, TInv, TypeOK, Idle
<1>2. ASSUME NEW h \in Hosts, Tick(h) \/ Answer(h) \/ Start(h) \/ Crash(h) \/ OtherRuns(h)
      PROVE  TInv'
  BY <1>2, TickTypes, AnswerTypes, CrashTypes, OtherRunsTypes
<1>3. ASSUME NEW h \in Hosts, NEW j \in Jobs,
             CreateJob(h, j) \/ UpdateJob(h, j) \/ RemoveJob(h, j) \/ RunNow(h, j) \/ LoopStep(h, j)
      PROVE  TInv'
  BY <1>3, CreateJobTypes, UpdateJobTypes, RemoveJobTypes, RunNowTypes, LoopStepTypes
<1>4. ASSUME NEW t \in turns, TurnEnds(t) PROVE TInv'
  BY <1>4, TurnEndsTypes
<1>5. ASSUME NEW t \in turns, DropConversation(t) PROVE TInv'
  BY <1>5 DEF DropConversation, TInv, TypeOK, Idle
<1>6. CASE UNCHANGED vars
  BY <1>6 DEF vars, TInv, TypeOK, Idle
<1> QED
  BY <1>1, <1>2, <1>3, <1>4, <1>5, <1>6 DEF Next

(* What is stored, reloaded and begun has its type: a slot that is         *)
(* computed anew lies within one period, and a loop never fires a job that *)
(* its host does not have.                                                 *)
THEOREM TimersTypeCorrect == Spec => []TypeOK
<1>1. TInv => TypeOK
  BY DEF TInv
<1> QED
  BY <1>1, InitTypes, TypesInductive, PTL DEF Spec

-----------------------------------------------------------------------------
(* The records of runs *)

(* Every run has a number of its own, and a turn has the one of its run. *)
Numbered(s, T, n) ==
  \A r \in s.runs : /\ r.id \in 1 .. n
                    /\ \A q \in s.runs : q.id = r.id => q = r
                    /\ \A t \in T : t.id = r.id => t.job = r.job

HasTurn(j, T, X) == j \in X \/ \E t \in T : t.job = j

(* What runs by a store s has a turn of T, unless its job is one of X. *)
Backed(s, T, X) ==
  /\ \A r \in s.runs : r.running => r.job \in X \/ \E t \in T : t.job = r.job /\ t.id = r.id
  /\ \A j \in Jobs : s.jobs[j].status = "running" => HasTurn(j, T, X)

Record(t) == [id |-> t.id, job |-> t.job, running |-> TRUE]

(* A turn whose run is among the last ones is on record. *)
Filed(s, T, X, n) == \A t \in T : t.job \notin X /\ n - t.id < RunsKept => Record(t) \in s.runs

Counted(T, n) == \A t \in T : t.id \in 1 .. n /\ \A u \in T : u.id = t.id => u = t

Books(s, T, X, Y, n, f) == Numbered(s, T, n) /\ Backed(s, T, X) /\ (f = 0 => Filed(s, T, Y, n))

(* The newest runs are kept: no more lie behind a run than were made since. *)
LEMMA KeptRecent ==
  ASSUME NEW runs, NEW n \in Nat, NEW r \in runs, r.id \in 1 .. n, n - r.id < RunsKept,
         \A s \in runs : s.id \in 1 .. n /\ \A q \in runs : q.id = s.id => q = s
  PROVE  r \in Kept(runs)
<1> DEFINE later == {s \in runs : s.id > r.id}
           f == [s \in later |-> s.id]
<1>1. f \in Injection(later, r.id + 1 .. n)
  <2>1. f \in [later -> r.id + 1 .. n]
    OBVIOUS
  <2>2. \A a, b \in later : f[a] = f[b] => a = b
    OBVIOUS
  <2> QED
    BY <2>1, <2>2, Fun_IsInj
<1> HIDE DEF f
<1>2. IsFiniteSet(r.id + 1 .. n) /\ Cardinality(r.id + 1 .. n) <= n - r.id
  <2> DEFINE a == r.id + 1
  <2>1. a \in Int /\ n \in Int
    OBVIOUS
  <2> HIDE DEF a
  <2>2. IsFiniteSet(a .. n) /\ Cardinality(a .. n) = IF a > n THEN 0 ELSE n - a + 1
    BY <2>1, FS_Interval
  <2> QED
    BY <2>2 DEF a
<1>3. IsFiniteSet(later) /\ Cardinality(later) <= Cardinality(r.id + 1 .. n)
  BY <1>1, <1>2, FS_Injection
<1>4. Cardinality(later) \in Nat /\ Cardinality(r.id + 1 .. n) \in Nat
  BY <1>2, <1>3, FS_CardinalityType
<1>5. Cardinality(later) < RunsKept
  BY <1>2, <1>3, <1>4, TimersAssumption
<1> QED
  BY <1>5 DEF Kept

(* Less is asked when a turn is gone whose job does not count any more.     *)
LEMMA BooksGrow ==
  ASSUME NEW s, NEW T, NEW X, NEW Y, NEW n \in Nat, NEW f \in Nat, Books(s, T, X, Y, n, f),
         NEW S, NEW V, NEW W, NEW m \in Nat, NEW g \in Nat, S \subseteq T, X \subseteq V, Y \subseteq W, n <= m, f <= g,
         \A t \in T \ S : t.job \in V, \A t \in T : t.id \in 1 .. n
  PROVE  Books(s, S, V, W, m, g)
<1>1. Numbered(s, S, m)
  BY DEF Books, Numbered
<1>2. Backed(s, S, V)
  BY DEF Books, Backed, HasTurn
<1>3. g = 0 => Filed(s, S, W, m)
  <2>1. g = 0 => f = 0
    OBVIOUS
  <2>2. \A t \in S : t.id \in 1 .. n /\ (m - t.id < RunsKept => n - t.id < RunsKept)
    BY TimersAssumption
  <2> QED
    BY <2>1, <2>2 DEF Books, Filed
<1> QED
  BY <1>1, <1>2, <1>3 DEF Books

(* The same runs, and no job more that runs. *)
LEMMA BooksAlike ==
  ASSUME NEW s, NEW v, NEW T, NEW X, NEW Y, NEW n, NEW f, Books(s, T, X, Y, n, f), v.runs = s.runs,
         \A j \in Jobs : v.jobs[j].status = "running" => s.jobs[j].status = "running"
  PROVE  Books(v, T, X, Y, n, f)
BY DEF Books, Numbered, Backed, Filed

(* What is written keeps the books, and what is not written is a failure. *)
LEMMA PersistBooks ==
  ASSUME NEW store, NEW fails \in BOOLEAN, Persist(store, fails), NEW T, NEW X, NEW Y, NEW n \in Nat, NEW f,
         Books(store, T, X, Y, n, f), fails => Numbered(disk, T, n) /\ Backed(disk, T, X), fails => f # 0,
         \A t \in T : t.id \in 1 .. n
  PROVE  Books(disk', T, X, Y, n, f)
<1>1. CASE fails
  BY <1>1 DEF Persist, Books
<1>2. CASE ~fails
  <2>1. disk'.jobs = store.jobs /\ disk'.runs = Kept(store.runs)
    BY <1>2 DEF Persist
  <2>2. Kept(store.runs) \subseteq store.runs
    BY DEF Kept
  <2>3. Numbered(disk', T, n) /\ Backed(disk', T, X)
    BY <2>1, <2>2 DEF Books, Numbered, Backed
  <2>4. ASSUME f = 0, NEW t \in T, t.job \notin Y, n - t.id < RunsKept
        PROVE  Record(t) \in disk'.runs
    <3>1. Record(t) \in store.runs /\ Record(t).id = t.id
      BY <2>4 DEF Books, Filed, Record
    <3> QED
      BY <2>1, <2>4, <3>1, KeptRecent DEF Books, Numbered
  <2> QED
    BY <2>3, <2>4 DEF Books, Filed
<1> QED
  BY <1>1, <1>2

LEMMA PersistJobsBooks ==
  ASSUME disk \in StoreType, NEW store, NEW fails, PersistJobs(store, fails), NEW T, NEW X, NEW Y, NEW n, NEW f,
         Books(disk, T, X, Y, n, f), Backed(store, T, X)
  PROVE  Books(disk', T, X, Y, n, f)
<1>1. CASE disk' = disk
  BY <1>1
<1>2. CASE disk' = [disk EXCEPT !.jobs = store.jobs]
  <2>1. disk'.jobs = store.jobs /\ disk'.runs = disk.runs
    BY <1>2 DEF StoreType
  <2> QED
    BY <2>1 DEF Books, Numbered, Backed, Filed
<1> QED
  BY <1>1, <1>2 DEF PersistJobs

Solo == \A g, h \in Hosts : g = h

Right(s) == Books(s, turns, stranded, stranded \cup removed, runsMade, count.failures)

BInv ==
  /\ count \in [inputs : Int, failures : Nat]
  /\ Counted(turns, runsMade)
  /\ Right(disk) /\ \A h \in Hosts : Right(mem[h])
  /\ \A h \in Hosts, j \in Jobs : j \in inflight[h] => HasTurn(j, turns, stranded)

(* There is one store in memory. *)
LEMMA OneStore ==
  ASSUME TInv, Solo, NEW h \in Hosts, NEW store, mem' = [mem EXCEPT ![h] = store]
  PROVE  \A g \in Hosts : g = h /\ mem'[g] = store
<1>1. mem'[h] = store
  BY DEF TInv, TypeOK
<1> QED
  BY <1>1 DEF Solo

LEMMA SpendIs ==
  ASSUME BInv, NEW inputs \in {0, 1}, NEW fails \in BOOLEAN, Spend(inputs, fails)
  PROVE  /\ count' \in [inputs : Int, failures : Nat] /\ count.failures \in Nat
         /\ count.failures <= count'.failures /\ (fails => count'.failures # 0) /\ (~fails => count'.failures = count.failures)
BY DEF BInv, Spend

LEMMA LoadIs ==
  ASSUME NEW s \in StoreType
  PROVE  /\ Load(s).runs = s.runs
         /\ \A j \in Jobs : /\ Load(s).jobs[j].status = s.jobs[j].status
                            /\ Load(s).jobs[j].enabled = s.jobs[j].enabled
                            /\ Load(s).jobs[j].kind = s.jobs[j].kind
                            /\ Load(s).jobs[j] = s.jobs[j] \/ s.jobs[j].next = None
<1> DEFINE From(job) == IF job.last = None THEN job.created ELSE job.last
           Coerced(job) == IF job = NoJob \/ job.next # None THEN job
                           ELSE [job EXCEPT !.next = NextRunAt(job.kind, job.at, From(job))]
           jobs == [j \in Jobs |-> Coerced(s.jobs[j])]
<1>1. Load(s) = [s EXCEPT !.jobs = jobs]
  BY DEF Load
<1>2. Load(s).runs = s.runs /\ Load(s).jobs = jobs
  BY <1>1 DEF StoreType
<1>3. ASSUME NEW j \in Jobs
      PROVE  LET job == s.jobs[j] IN
             /\ Coerced(job).status = job.status /\ Coerced(job).enabled = job.enabled /\ Coerced(job).kind = job.kind
             /\ Coerced(job) = job \/ job.next = None
  <2> DEFINE job == s.jobs[j]
             next == NextRunAt(job.kind, job.at, From(job))
  <2>1. job \in JobType
    BY DEF StoreType
  <2>2. Coerced(job) = job \/ (job.next = None /\ job # NoJob /\ Coerced(job) = [job EXCEPT !.next = next])
    OBVIOUS
  <2> HIDE DEF next
  <2> QED
    BY <2>1, <2>2 DEF JobType
<1> QED
  BY <1>2, <1>3

-----------------------------------------------------------------------------
(* Every action keeps the books *)

Before == TInv /\ Solo /\ IInv /\ BInv

(* A step that begins no turn and writes nothing down; a turn that goes     *)
(* leaves its job stranded.                                                *)
LEMMA QuietBooks ==
  ASSUME Before, turns' \subseteq turns, stranded \subseteq stranded', removed' = removed, runsMade' = runsMade, disk' = disk,
         count' \in [inputs : Int, failures : Nat], count'.failures = count.failures,
         \A t \in turns \ turns' : t.job \in stranded',
         \A h \in Hosts : inflight'[h] \subseteq inflight[h],
         \A h \in Hosts : mem'[h] = mem[h] \/ mem'[h] = Load(disk)
  PROVE  BInv'
<1> DEFINE Y == stranded \cup removed
           Z == stranded' \cup removed'
<1>1. /\ runsMade \in Nat /\ count.failures \in Nat /\ \A t \in turns : t.id \in 1 .. runsMade
      /\ disk \in StoreType
  BY DEF Before, BInv, Counted, TInv, TypeOK
<1>2. ASSUME NEW s, Right(s)
      PROVE  Books(s, turns', stranded', Z, runsMade', count'.failures)
    <2>1. Books(s, turns, stranded, Y, runsMade, count.failures) /\ Y \subseteq Z
      BY <1>2 DEF Right
    <2>2. runsMade <= runsMade' /\ runsMade' \in Nat /\ count.failures <= count'.failures /\ count'.failures \in Nat
      BY <1>1
    <2> HIDE DEF Y, Z
    <2> QED
      BY <1>1, <2>1, <2>2, BooksGrow
<1>3. Right(Load(disk))
  BY <1>1, LoadIs, BooksAlike DEF Before, BInv, Right
<1>4. Right(disk)' /\ \A h \in Hosts : Right(mem[h])'
  BY <1>2, <1>3 DEF Before, BInv, Right
<1>5. Counted(turns', runsMade')
  BY DEF Before, BInv, Counted
<1>6. ASSUME NEW h \in Hosts, NEW j \in Jobs, j \in inflight'[h] PROVE HasTurn(j, turns', stranded')
  <2>1. HasTurn(j, turns, stranded)
    BY <1>6 DEF Before, BInv
  <2> QED
    BY <2>1 DEF HasTurn
<1> QED
  BY <1>4, <1>5, <1>6 DEF BInv

(* Another store is written, and a turn at most is gone. *)
LEMMA WrittenBooks ==
  ASSUME Before, NEW h \in Hosts, NEW store, mem' = [mem EXCEPT ![h] = store],
         Books(store, turns', stranded', stranded' \cup removed', runsMade', count'.failures),
         Books(disk', turns', stranded', stranded' \cup removed', runsMade', count'.failures),
         Counted(turns', runsMade'), count' \in [inputs : Int, failures : Nat],
         \A j \in Jobs : j \in inflight'[h] => HasTurn(j, turns', stranded')
  PROVE  BInv'
<1>1. \A g \in Hosts : g = h /\ mem'[g] = store
  BY OneStore DEF Before
<1>2. \A g \in Hosts : Right(mem[g])'
  BY <1>1 DEF Right
<1>3. \A g \in Hosts, j \in Jobs : j \in inflight'[g] => HasTurn(j, turns', stranded')
  BY <1>1
<1>4. Right(disk)'
  BY DEF Right
<1> QED
  BY <1>2, <1>3, <1>4 DEF BInv

LEMMA JobBooks ==
  ASSUME Before, NEW h \in Hosts, NEW j \in Jobs, CreateJob(h, j) \/ UpdateJob(h, j)
  PROVE  BInv'
<1>1. /\ UNCHANGED <<inflight, turns, runsMade, stranded, removed>>
      /\ runsMade \in Nat /\ disk \in StoreType
  BY DEF CreateJob, UpdateJob, Before, TInv, TypeOK
<1>2. PICK store : \E fails \in BOOLEAN :
        /\ Spend(1, fails) /\ mem' = [mem EXCEPT ![h] = store] /\ PersistJobs(store, fails)
        /\ store.runs = mem[h].runs
        /\ \A i \in Jobs : store.jobs[i].status = "running" => mem[h].jobs[i].status = "running"
  <2>1. CASE CreateJob(h, j)
    <3>1. PICK job \in NewJobs(now), fails \in BOOLEAN :
            LET store == [mem[h] EXCEPT !.jobs[j] = job] IN
            Spend(1, fails) /\ mem' = [mem EXCEPT ![h] = store] /\ PersistJobs(store, fails)
      BY <2>1 DEF CreateJob
    <3> DEFINE store == [mem[h] EXCEPT !.jobs[j] = job]
    <3>2. job.status = "none"
      BY <3>1 DEF NewJobs
    <3>3. mem[h] \in StoreType
      BY StoreFields DEF Before
    <3>4. store.runs = mem[h].runs /\ store.jobs = [mem[h].jobs EXCEPT ![j] = job] /\ mem[h].jobs \in [Jobs -> JobType]
      BY <3>3 DEF StoreType
    <3>5. Spend(1, fails) /\ mem' = [mem EXCEPT ![h] = store] /\ PersistJobs(store, fails)
      BY <3>1
    <3> HIDE DEF store
    <3>6. \A i \in Jobs : store.jobs[i].status = "running" => mem[h].jobs[i].status = "running"
      BY <3>2, <3>4
    <3> QED
      BY <3>4, <3>5, <3>6
  <2>2. CASE UpdateJob(h, j)
    <3>1. PICK enabled \in BOOLEAN, fails \in BOOLEAN :
            LET job == [mem[h].jobs[j] EXCEPT !.enabled = enabled]
                from == IF job.last = None THEN now ELSE job.last
                store == [mem[h] EXCEPT !.jobs[j] = [job EXCEPT !.next = Slot(job, from)]]
            IN Spend(1, fails) /\ mem' = [mem EXCEPT ![h] = store] /\ PersistJobs(store, fails)
      BY <2>2 DEF UpdateJob
    <3> DEFINE job == [mem[h].jobs[j] EXCEPT !.enabled = enabled]
               from == IF job.last = None THEN now ELSE job.last
               new == [job EXCEPT !.next = Slot(job, from)]
               store == [mem[h] EXCEPT !.jobs[j] = new]
    <3>2. mem[h] \in StoreType /\ mem[h].jobs \in [Jobs -> JobType] /\ mem[h].jobs[j] \in JobType
      BY StoreFields DEF Before
    <3>3. new.status = mem[h].jobs[j].status
      <4>1. job.status = mem[h].jobs[j].status /\ "status" \in DOMAIN job
        BY <3>2 DEF JobType, NoJob
      <4> HIDE DEF job
      <4> QED
        BY <4>1
    <3>4. Spend(1, fails) /\ mem' = [mem EXCEPT ![h] = store] /\ PersistJobs(store, fails)
      BY <3>1
    <3> HIDE DEF new
    <3>5. store.runs = mem[h].runs /\ store.jobs = [mem[h].jobs EXCEPT ![j] = new]
      BY <3>2 DEF StoreType
    <3> HIDE DEF store
    <3>6. \A i \in Jobs : store.jobs[i].status = "running" => mem[h].jobs[i].status = "running"
      BY <3>2, <3>3, <3>5
    <3> QED
      BY <3>4, <3>5, <3>6
  <2> QED
    BY <2>1, <2>2
<1>2a. PICK fails \in BOOLEAN : Spend(1, fails) /\ PersistJobs(store, fails)
  BY <1>2
<1>3. /\ count' \in [inputs : Int, failures : Nat] /\ count.failures \in Nat
      /\ count.failures <= count'.failures /\ (~fails => count'.failures = count.failures)
  BY <1>2a, SpendIs DEF Before
<1>4. \A t \in turns : t.id \in 1 .. runsMade
  BY DEF Before, BInv, Counted
<1>5. Right(store) /\ Right(disk)
  BY <1>2, BooksAlike DEF Before, BInv, Right
<1> DEFINE Y == stranded \cup removed
<1>6. ASSUME NEW s, Right(s) PROVE Books(s, turns, stranded, Y, runsMade, count'.failures)
  <2>1. Books(s, turns, stranded, Y, runsMade, count.failures) /\ count'.failures \in Nat
    BY <1>3, <1>6 DEF Right
  <2> HIDE DEF Y
  <2> QED
    BY <1>1, <1>3, <1>4, <2>1, BooksGrow
<1>7. Books(store, turns, stranded, Y, runsMade, count'.failures)
  BY <1>5, <1>6
<1>8. Books(disk', turns, stranded, Y, runsMade, count'.failures)
  <2>1. Books(disk, turns, stranded, Y, runsMade, count'.failures) /\ Backed(store, turns, stranded)
    BY <1>5, <1>6, <1>7 DEF Books
  <2> HIDE DEF Y
  <2> QED
    BY <1>1, <1>2a, <2>1, PersistJobsBooks
<1>9. /\ Books(store, turns', stranded', stranded' \cup removed', runsMade', count'.failures)
      /\ Books(disk', turns', stranded', stranded' \cup removed', runsMade', count'.failures)
  BY <1>1, <1>7, <1>8
<1>10. \A i \in Jobs : i \in inflight'[h] => HasTurn(i, turns', stranded')
  BY <1>1 DEF Before, BInv
<1>11. Counted(turns', runsMade')
  BY <1>1 DEF Before, BInv
<1> QED
  BY <1>2, <1>3, <1>9, <1>10, <1>11, WrittenBooks

LEMMA RemoveJobBooks ==
  ASSUME Before, NEW h \in Hosts, NEW j \in Jobs, RemoveJob(h, j)
  PROVE  BInv'
<1> DEFINE store == [jobs |-> [mem[h].jobs EXCEPT ![j] = NoJob], runs |-> {r \in mem[h].runs : r.job # j}]
           Y == stranded \cup removed'
<1>1. PICK fails \in BOOLEAN :
        /\ Spend(1, fails) /\ mem' = [mem EXCEPT ![h] = store] /\ Persist(store, fails)
        /\ removed' = IF fails THEN removed ELSE removed \cup {j}
  BY DEF RemoveJob
<1>2. /\ UNCHANGED <<inflight, turns, runsMade, stranded>>
      /\ runsMade \in Nat /\ mem[h].jobs \in [Jobs -> JobType]
  BY StoreFields DEF RemoveJob, Before, TInv, TypeOK
<1>3. /\ count' \in [inputs : Int, failures : Nat] /\ count.failures \in Nat /\ count'.failures \in Nat
      /\ count.failures <= count'.failures /\ (fails => count'.failures # 0)
      /\ (~fails => count'.failures = count.failures)
  BY <1>1, SpendIs DEF Before
<1>4. \A t \in turns : t.id \in 1 .. runsMade
  BY DEF Before, BInv, Counted
<1>5. store.runs \subseteq mem[h].runs /\ \A i \in Jobs : store.jobs[i].status = "running" => mem[h].jobs[i].status = "running"
  <2>1. store.jobs = [mem[h].jobs EXCEPT ![j] = NoJob] /\ NoJob.status = "none" /\ store.runs \subseteq mem[h].runs
    BY DEF NoJob
  <2> HIDE DEF store
  <2> QED
    BY <1>2, <2>1
<1>6. /\ Numbered(mem[h], turns, runsMade) /\ Backed(mem[h], turns, stranded)
      /\ Numbered(disk, turns, runsMade) /\ Backed(disk, turns, stranded)
      /\ count.failures = 0 => Filed(mem[h], turns, stranded \cup removed, runsMade)
  BY DEF Before, BInv, Right, Books
<1>7. Numbered(store, turns, runsMade) /\ Backed(store, turns, stranded)
  <2> HIDE DEF store
  <2> QED
    BY <1>5, <1>6 DEF Numbered, Backed
<1>8. ASSUME count'.failures = 0, NEW t \in turns, t.job \notin Y, runsMade - t.id < RunsKept
      PROVE  Record(t) \in store.runs
  <2>1. t.job # j /\ t.job \notin stranded \cup removed
    BY <1>1, <1>3, <1>8
  <2>2. Record(t) \in mem[h].runs
    BY <1>3, <1>6, <1>8, <2>1 DEF Filed
  <2> QED
    BY <2>1, <2>2 DEF Record
<1>9. Books(store, turns, stranded, Y, runsMade, count'.failures)
  BY <1>7, <1>8 DEF Books, Filed
<1> HIDE DEF store, Y
<1>10. Books(disk', turns, stranded, Y, runsMade, count'.failures)
  BY <1>1, <1>2, <1>3, <1>4, <1>6, <1>9, PersistBooks
<1>11. /\ Books(store, turns', stranded', stranded' \cup removed', runsMade', count'.failures)
       /\ Books(disk', turns', stranded', stranded' \cup removed', runsMade', count'.failures)
  BY <1>2, <1>9, <1>10 DEF Y
<1>12. \A i \in Jobs : i \in inflight'[h] => HasTurn(i, turns', stranded')
  BY <1>2 DEF Before, BInv
<1>13. Counted(turns', runsMade')
  BY <1>2 DEF Before, BInv
<1> QED
  BY <1>1, <1>3, <1>11, <1>12, <1>13, WrittenBooks

LEMMA OtherRunsBooks ==
  ASSUME Before, NEW h \in Hosts, OtherRuns(h)
  PROVE  BInv'
<1> DEFINE run == [id |-> runsMade + 1, job |-> OtherJob, running |-> FALSE]
           store == [mem[h] EXCEPT !.runs = @ \cup {run}]
           Y == stranded \cup removed
<1>1. PICK fails \in BOOLEAN : Spend(1, fails) /\ Persist(store, fails)
  BY DEF OtherRuns
<1>2. /\ mem' = [mem EXCEPT ![h] = store] /\ runsMade' = runsMade + 1
      /\ UNCHANGED <<inflight, turns, stranded, removed>>
      /\ runsMade \in Nat /\ mem[h] \in StoreType
  BY StoreFields DEF OtherRuns, Before, TInv, TypeOK
<1>3. /\ count' \in [inputs : Int, failures : Nat] /\ count.failures \in Nat /\ count'.failures \in Nat
      /\ count.failures <= count'.failures /\ (fails => count'.failures # 0)
      /\ (~fails => count'.failures = count.failures)
  BY <1>1, SpendIs DEF Before
<1>4. \A t \in turns : t.id \in 1 .. runsMade /\ t.id \in 1 .. runsMade'
  BY <1>2 DEF Before, BInv, Counted
<1>5. store.runs = mem[h].runs \cup {run} /\ store.jobs = mem[h].jobs /\ run.id = runsMade + 1 /\ ~run.running
  BY <1>2 DEF StoreType
<1> HIDE DEF store, run
<1>6. /\ Books(mem[h], turns, stranded, Y, runsMade', count'.failures)
      /\ Books(disk, turns, stranded, Y, runsMade', count'.failures)
  <2>1. /\ Books(mem[h], turns, stranded, Y, runsMade, count.failures)
        /\ Books(disk, turns, stranded, Y, runsMade, count.failures)
    BY DEF Before, BInv, Right
  <2>2. runsMade' \in Nat /\ runsMade <= runsMade'
    BY <1>2
  <2> HIDE DEF Y
  <2> QED
    BY <1>2, <1>3, <1>4, <2>1, <2>2, BooksGrow
<1>7. Books(store, turns, stranded, Y, runsMade', count'.failures)
  <2>1. Numbered(store, turns, runsMade')
    <3>1. \A r \in mem[h].runs : r.id \in 1 .. runsMade
      BY DEF Before, BInv, Right, Books, Numbered
    <3>2. \A r \in mem[h].runs \cup {run} : r.id \in 1 .. runsMade' /\ (r.id = runsMade + 1 => r = run)
      BY <1>2, <1>5, <3>1
    <3>3. \A t \in turns : t.id # run.id
      BY <1>2, <1>4, <1>5
    <3> QED
      BY <1>5, <1>6, <3>2, <3>3 DEF Books, Numbered
  <2>2. Backed(store, turns, stranded)
    BY <1>5, <1>6 DEF Books, Backed
  <2>3. count'.failures = 0 => Filed(store, turns, Y, runsMade')
    BY <1>5, <1>6 DEF Books, Filed
  <2> QED
    BY <2>1, <2>2, <2>3 DEF Books
<1>8. Books(disk', turns, stranded, Y, runsMade', count'.failures)
  <2>1. runsMade' \in Nat /\ Numbered(disk, turns, runsMade') /\ Backed(disk, turns, stranded)
    BY <1>2, <1>6 DEF Books
  <2> HIDE DEF Y
  <2> QED
    BY <1>1, <1>3, <1>4, <1>7, <2>1, PersistBooks
<1>9. /\ Books(store, turns', stranded', stranded' \cup removed', runsMade', count'.failures)
      /\ Books(disk', turns', stranded', stranded' \cup removed', runsMade', count'.failures)
  BY <1>2, <1>7, <1>8
<1>10. \A i \in Jobs : i \in inflight'[h] => HasTurn(i, turns', stranded')
  BY <1>2 DEF Before, BInv
<1>11. Counted(turns', runsMade')
  BY <1>2, <1>4 DEF Before, BInv, Counted
<1> QED
  BY <1>2, <1>3, <1>9, <1>10, <1>11, WrittenBooks

(* What fire writes. *)
LEMMA FireIs ==
  ASSUME Before, NEW h \in Hosts, NEW j \in Jobs, NEW at, NEW inputs, Fire(h, j, at, inputs)
  PROVE  \E store : \E fails \in BOOLEAN :
           /\ Spend(inputs, fails) /\ mem' = [mem EXCEPT ![h] = store] /\ Persist(store, fails)
           /\ store.runs = mem[h].runs \cup {Record([id |-> runsMade + 1, job |-> j])}
           /\ \A i \in Jobs : /\ i # j => store.jobs[i] = mem[h].jobs[i]
                              /\ store.jobs[i].enabled = mem[h].jobs[i].enabled
                              /\ store.jobs[i].next = mem[h].jobs[i].next
           /\ store.jobs[j].status = "running"
<1> DEFINE run == [id |-> runsMade + 1, job |-> j, running |-> TRUE]
           job == [mem[h].jobs[j] EXCEPT !.last = at, !.status = "running"]
           store == [jobs |-> [mem[h].jobs EXCEPT ![j] = job], runs |-> mem[h].runs \cup {run}]
<1>1. mem[h].jobs \in [Jobs -> JobType]
  BY StoreFields DEF Before
<1>2. job.status = "running" /\ job.enabled = mem[h].jobs[j].enabled /\ job.next = mem[h].jobs[j].next
  BY <1>1 DEF JobType, NoJob
<1>3. [[mem[h].jobs EXCEPT ![j].last = at] EXCEPT ![j].status = "running"] = [mem[h].jobs EXCEPT ![j] = job]
  BY <1>1
<1>4. PICK fails \in BOOLEAN : Spend(inputs, fails) /\ mem' = [mem EXCEPT ![h] = store] /\ Persist(store, fails)
  BY <1>3 DEF Fire
<1>5. run = Record([id |-> runsMade + 1, job |-> j])
  BY DEF Record
<1> HIDE DEF job, run
<1>6. store.jobs = [mem[h].jobs EXCEPT ![j] = job] /\ store.runs = mem[h].runs \cup {run}
  OBVIOUS
<1> HIDE DEF store
<1>7. store.jobs[j] = job /\ \A i \in Jobs : i # j => store.jobs[i] = mem[h].jobs[i]
  BY <1>1, <1>6
<1> QED
  BY <1>2, <1>4, <1>5, <1>6, <1>7

LEMMA FireBooks ==
  ASSUME Before, NEW h \in Hosts, NEW j \in Jobs, NEW at, NEW inputs \in {0, 1}, Fire(h, j, at, inputs),
         UNCHANGED <<stranded, removed>>
  PROVE  BInv'
<1> DEFINE run == Record([id |-> runsMade + 1, job |-> j])
           new == [host |-> h, job |-> j, id |-> runsMade + 1]
           T == turns \cup {new}
           n == runsMade + 1
           Y == stranded \cup removed
<1>1. PICK store : \E fails \in BOOLEAN :
        /\ Spend(inputs, fails) /\ mem' = [mem EXCEPT ![h] = store] /\ Persist(store, fails)
        /\ store.runs = mem[h].runs \cup {run}
        /\ \A i \in Jobs : i # j => store.jobs[i] = mem[h].jobs[i]
  <2> HIDE DEF run
  <2> QED
    BY FireIs DEF run
<1>1a. PICK fails \in BOOLEAN : Spend(inputs, fails) /\ Persist(store, fails)
  BY <1>1
<1>2. turns' = T /\ runsMade' = n /\ inflight' = [inflight EXCEPT ![h] = @ \cup {j}]
  BY DEF Fire
<1>3. runsMade \in Nat /\ n \in Nat /\ turns \subseteq [host : Hosts, job : Jobs, id : Nat]
      /\ inflight \in [Hosts -> SUBSET Jobs]
  BY DEF Before, TInv, TypeOK
<1>4. /\ count' \in [inputs : Int, failures : Nat] /\ count.failures \in Nat /\ count'.failures \in Nat
      /\ (fails => count'.failures # 0) /\ (~fails => count'.failures = count.failures)
      /\ count'.failures = 0 => count.failures = 0
  BY <1>1a, SpendIs DEF Before
<1>5. \A t \in turns : t.id \in 1 .. runsMade /\ \A u \in turns : u.id = t.id => u = t
  BY DEF Before, BInv, Counted
<1>6. run.id = n /\ run.job = j /\ run.running /\ new.id = n /\ new.job = j /\ Record(new) = run /\ new \in T
      /\ turns \subseteq T
  BY DEF Record
<1> HIDE DEF run, new
<1>7. Counted(T, n) /\ \A t \in T : t.id \in 1 .. n
  BY <1>3, <1>5, <1>6 DEF Counted
<1>8. ASSUME NEW s, Numbered(s, turns, runsMade), Backed(s, turns, stranded)
      PROVE  Numbered(s, T, n) /\ Backed(s, T, stranded)
  <2>1. \A r \in s.runs : r.id \in 1 .. n /\ r.id # new.id
    BY <1>3, <1>6, <1>8 DEF Numbered
  <2> QED
    BY <1>6, <1>8, <2>1 DEF Numbered, Backed, HasTurn
<1>9. /\ Numbered(mem[h], turns, runsMade) /\ Backed(mem[h], turns, stranded)
      /\ Numbered(disk, turns, runsMade) /\ Backed(disk, turns, stranded)
      /\ count.failures = 0 => Filed(mem[h], turns, Y, runsMade)
  BY DEF Before, BInv, Right, Books
<1>10. /\ Numbered(mem[h], T, n) /\ Backed(mem[h], T, stranded)
       /\ Numbered(disk, T, n) /\ Backed(disk, T, stranded)
  <2> HIDE DEF T, n
  <2> QED
    BY <1>8, <1>9
<1>11. Numbered(store, T, n)
  <2>1. \A r \in mem[h].runs : r.id # n
    BY <1>3, <1>9 DEF Numbered
  <2>2. \A t \in T : t.id = n => t.job = j
    BY <1>3, <1>5, <1>6
  <2>3. n \in 1 .. n
    BY <1>3
  <2> HIDE DEF T, n
  <2> QED
    BY <1>1, <1>6, <1>10, <2>1, <2>2, <2>3 DEF Numbered
<1>12. Backed(store, T, stranded)
  <2> HIDE DEF T, n
  <2> QED
    BY <1>1, <1>6, <1>10 DEF Backed, HasTurn
<1>13. ASSUME count'.failures = 0, NEW t \in T, t.job \notin Y, n - t.id < RunsKept
       PROVE  Record(t) \in store.runs
  <2>1. CASE t = new
    BY <1>1, <1>6, <2>1
  <2>2. CASE t \in turns
    <3>1. runsMade - t.id < RunsKept
      BY <1>3, <1>5, <1>13, <2>2, TimersAssumption
    <3> QED
      BY <1>1, <1>4, <1>9, <1>13, <2>2, <3>1 DEF Filed
  <2> QED
    BY <2>1, <2>2
<1>14. Books(store, T, stranded, Y, n, count'.failures)
  <2> HIDE DEF T, n, Y
  <2> QED
    BY <1>11, <1>12, <1>13 DEF Books, Filed
<1>15. Books(disk', T, stranded, Y, n, count'.failures)
  <2> HIDE DEF T, n, Y
  <2> QED
    BY <1>1a, <1>3, <1>4, <1>7, <1>10, <1>14, PersistBooks
<1>16. /\ Books(store, turns', stranded', stranded' \cup removed', runsMade', count'.failures)
       /\ Books(disk', turns', stranded', stranded' \cup removed', runsMade', count'.failures)
  BY <1>2, <1>14, <1>15
<1>17. ASSUME NEW i \in Jobs, i \in inflight'[h] PROVE HasTurn(i, turns', stranded')
  <2>1. i = j \/ HasTurn(i, turns, stranded)
    BY <1>2, <1>3, <1>17 DEF Before, BInv
  <2> QED
    BY <1>2, <1>6, <2>1 DEF HasTurn
<1>18. Counted(turns', runsMade')
  BY <1>2, <1>7
<1> QED
  BY <1>1, <1>4, <1>16, <1>17, <1>18, WrittenBooks

(* The end that the store does not know of: one of the four ways a turn is  *)
(* lost to it.                                                             *)
LEMMA UnknownEndBooks ==
  ASSUME Before, NEW t \in turns, TurnEnds(t), {r \in mem[t.host].runs : r.id = t.id /\ r.running} = {}
  PROVE  BInv'
<1>1. /\ turns' = turns \ {t} /\ UNCHANGED <<disk, mem, inflight, count, runsMade, removed>>
      /\ stranded' = IF Crowded(t) \/ count.failures > 0 \/ t.job \in removed
                     THEN stranded \cup {t.job} ELSE stranded
  BY DEF TurnEnds
<1>2. t.host \in Hosts /\ count.failures \in Nat /\ runsMade \in Nat /\ t.id \in Nat
      /\ count \in [inputs : Int, failures : Nat]
  BY DEF Before, BInv, TInv, TypeOK
<1>3. t.job \in stranded'
  <2> SUFFICES ASSUME t.job \notin stranded' PROVE FALSE
    OBVIOUS
  <2>1. t.job \notin stranded \cup removed /\ count.failures = 0 /\ runsMade - t.id < RunsKept
    BY <1>1, <1>2, TimersAssumption DEF Crowded
  <2>2. Record(t) \in mem[t.host].runs
    BY <1>2, <2>1 DEF Before, BInv, Right, Books, Filed
  <2> QED
    BY <2>2 DEF Record
<1>4. \A u \in turns \ turns' : u.job \in stranded'
  BY <1>1, <1>3
<1>5. turns' \subseteq turns /\ stranded \subseteq stranded'
  BY <1>1
<1> QED
  BY <1>1, <1>2, <1>4, <1>5, QuietBooks

(* The end that the store knows of closes its record; if that cannot be     *)
(* written, the job is one of those a reload brings back as running.       *)
LEMMA KnownEndBooks ==
  ASSUME Before, NEW t \in turns, TurnEnds(t), {r \in mem[t.host].runs : r.id = t.id /\ r.running} # {}
  PROVE  BInv'
<1> DEFINE h == t.host
           j == t.job
           known == {r \in mem[h].runs : r.id = t.id /\ r.running}
           T == turns \ {t}
           Y == stranded' \cup removed
<1>1. t \in [host : Hosts, job : Jobs, id : Nat] /\ h \in Hosts /\ j \in Jobs
  BY DEF Before, TInv, TypeOK
<1>2. PICK ok \in BOOLEAN, fails \in BOOLEAN :
        LET store == [jobs |-> IF mem[h].jobs[j] = NoJob THEN mem[h].jobs
                               ELSE [mem[h].jobs EXCEPT ![j] = Finished(@, ok)],
                      runs |-> (mem[h].runs \ known) \cup {[r EXCEPT !.running = FALSE] : r \in known}]
        IN /\ Spend(0, fails) /\ mem' = [mem EXCEPT ![h] = store] /\ Persist(store, fails)
           /\ inflight' = [inflight EXCEPT ![h] = Released(h, j, ok)]
           /\ stranded' = IF fails THEN stranded \cup {j} ELSE stranded
  BY DEF TurnEnds
<1> DEFINE jobs == IF mem[h].jobs[j] = NoJob THEN mem[h].jobs ELSE [mem[h].jobs EXCEPT ![j] = Finished(@, ok)]
           runs == (mem[h].runs \ known) \cup {[r EXCEPT !.running = FALSE] : r \in known}
           store == [jobs |-> jobs, runs |-> runs]
<1>3. /\ Spend(0, fails) /\ mem' = [mem EXCEPT ![h] = store] /\ Persist(store, fails)
      /\ inflight' = [inflight EXCEPT ![h] = inflight[h] \ {j}]
      /\ stranded' = IF fails THEN stranded \cup {j} ELSE stranded
  BY <1>2 DEF Released
<1>4. turns' = T /\ runsMade' = runsMade /\ removed' = removed /\ runsMade \in Nat
      /\ inflight \in [Hosts -> SUBSET Jobs] /\ mem[h] \in StoreType
  BY <1>1, StoreFields DEF TurnEnds, Before, TInv, TypeOK
<1>5. /\ count' \in [inputs : Int, failures : Nat] /\ count.failures \in Nat /\ count'.failures \in Nat
      /\ (fails => count'.failures # 0) /\ (count'.failures = 0 => count.failures = 0)
  BY <1>3, SpendIs DEF Before
<1>6. /\ Counted(turns, runsMade)
      /\ Numbered(mem[h], turns, runsMade) /\ Backed(mem[h], turns, stranded)
      /\ Numbered(disk, turns, runsMade) /\ Backed(disk, turns, stranded)
      /\ count.failures = 0 => Filed(mem[h], turns, stranded \cup removed, runsMade)
  BY <1>1 DEF Before, BInv, Right, Books
<1>7. PICK o \in mem[h].runs : known = {o} /\ o.id = t.id /\ o.running
  <2>1. \A r, q \in known : r = q
    BY <1>6 DEF Numbered
  <2>2. PICK o \in known : TRUE
    OBVIOUS
  <2> QED
    BY <2>1, <2>2
<1> DEFINE closed == [o EXCEPT !.running = FALSE]
<1>8. /\ closed.id = t.id /\ closed.job = o.job /\ ~closed.running
      /\ store.runs = (mem[h].runs \ {o}) \cup {closed}
  <2>1. o \in RunType
    BY <1>4 DEF StoreType
  <2> QED
    BY <1>7, <2>1 DEF RunType
<1>9. \A i \in Jobs : store.jobs[i].status = "running" => i # j /\ mem[h].jobs[i].status = "running"
  <2>1. mem[h].jobs \in [Jobs -> JobType] /\ mem[h].jobs[j] \in JobType
    BY <1>1, <1>4 DEF StoreType
  <2>2. CASE mem[h].jobs[j] = NoJob
    <3>1. store.jobs = mem[h].jobs
      BY <2>2
    <3> HIDE DEF store
    <3> QED
      BY <2>2, <3>1 DEF NoJob
  <2>3. CASE mem[h].jobs[j] # NoJob
    <3> DEFINE done == Finished(mem[h].jobs[j], ok)
    <3>1. done.status \in {"ok", "failed"}
      <4>1. "status" \in DOMAIN mem[h].jobs[j]
        BY <2>1, <2>3 DEF JobType
      <4> QED
        BY <4>1 DEF Finished
    <3>2. store.jobs = [mem[h].jobs EXCEPT ![j] = done]
      BY <2>3
    <3> HIDE DEF done, store
    <3>3. store.jobs[j] = done /\ \A i \in Jobs : i # j => store.jobs[i] = mem[h].jobs[i]
      BY <1>1, <2>1, <3>2
    <3> QED
      BY <3>1, <3>3
  <2> QED
    BY <2>2, <2>3
<1> HIDE DEF store, closed, known
<1>10. \A u \in turns : u # t => u.id # t.id /\ u \in T
  BY <1>6 DEF Counted
<1>11. Numbered(store, T, runsMade)
  <2>1. \A r \in mem[h].runs : r # o => r.id # t.id
    BY <1>6, <1>7 DEF Numbered
  <2>2. \A u \in T : u \in turns
    OBVIOUS
  <2>3. t.id \in 1 .. runsMade
    BY <1>6 DEF Counted
  <2> HIDE DEF T
  <2> QED
    BY <1>6, <1>7, <1>8, <2>1, <2>2, <2>3 DEF Numbered
<1>12. \A i \in Jobs : i # j /\ HasTurn(i, turns, stranded) => HasTurn(i, T, stranded')
  BY <1>3 DEF HasTurn
<1>13. Backed(store, T, stranded')
  <2>1. ASSUME NEW r \in mem[h].runs, r # o, r.running PROVE r.job \in stranded' \/ \E u \in T : u.job = r.job /\ u.id = r.id
    <3>1. r.id # t.id
      BY <1>6, <1>7, <2>1 DEF Numbered
    <3>2. r.job \in stranded \/ \E u \in turns : u.job = r.job /\ u.id = r.id
      BY <1>6, <2>1 DEF Backed
    <3> QED
      BY <1>3, <3>1, <3>2
  <2>2. \A i \in Jobs : store.jobs[i].status = "running" => HasTurn(i, T, stranded')
    BY <1>6, <1>9, <1>12 DEF Backed
  <2> QED
    BY <1>8, <2>1, <2>2 DEF Backed
<1>14. ASSUME count'.failures = 0, NEW u \in T, u.job \notin Y, runsMade - u.id < RunsKept
       PROVE  Record(u) \in store.runs
  <2>1. u \in turns /\ u.id # t.id /\ u.job \notin stranded \cup removed
    BY <1>3, <1>10, <1>14
  <2>2. Record(u) \in mem[h].runs /\ Record(u).id = u.id
    BY <1>5, <1>6, <1>14, <2>1 DEF Filed, Record
  <2> QED
    BY <1>7, <1>8, <2>1, <2>2
<1>15. Books(store, T, stranded', Y, runsMade, count'.failures)
  BY <1>11, <1>13, <1>14 DEF Books, Filed
<1>16. fails => Numbered(disk, T, runsMade) /\ Backed(disk, T, stranded')
  <2>1. Numbered(disk, T, runsMade)
    BY <1>6 DEF Numbered
  <2>2. ASSUME fails PROVE Backed(disk, T, stranded')
    <3>1. stranded' = stranded \cup {j}
      BY <1>3, <2>2
    <3>2. \A u \in turns : u \in T \/ u.job = j
      OBVIOUS
    <3>3. \A r \in disk.runs : r.running => r.job \in stranded' \/ \E u \in T : u.job = r.job /\ u.id = r.id
      BY <1>6, <3>1, <3>2 DEF Backed
    <3>4. \A i \in Jobs : disk.jobs[i].status = "running" => HasTurn(i, T, stranded')
      BY <1>6, <3>1, <3>2 DEF Backed, HasTurn
    <3> QED
      BY <3>3, <3>4 DEF Backed
  <2> QED
    BY <2>1, <2>2
<1>17. \A u \in T : u.id \in 1 .. runsMade
  BY <1>6 DEF Counted
<1>18. Books(disk', T, stranded', Y, runsMade, count'.failures)
  <2> HIDE DEF T, Y
  <2> QED
    BY <1>3, <1>4, <1>5, <1>15, <1>16, <1>17, PersistBooks
<1>19. /\ Books(store, turns', stranded', stranded' \cup removed', runsMade', count'.failures)
       /\ Books(disk', turns', stranded', stranded' \cup removed', runsMade', count'.failures)
  BY <1>4, <1>15, <1>18
<1>20. ASSUME NEW i \in Jobs, i \in inflight'[h] PROVE HasTurn(i, turns', stranded')
  <2>1. i # j /\ i \in inflight[h]
    BY <1>1, <1>3, <1>4, <1>20
  <2> QED
    BY <1>1, <1>4, <1>12, <2>1 DEF Before, BInv
<1>21. Counted(turns', runsMade')
  BY <1>4, <1>6 DEF Counted
<1> QED
  BY <1>1, <1>3, <1>5, <1>19, <1>20, <1>21, WrittenBooks

LEMMA CrashBooks ==
  ASSUME Before, NEW h \in Hosts, Crash(h)
  PROVE  BInv'
<1>1. /\ turns' = {t \in turns : t.host # h} /\ UNCHANGED <<disk, mem, runsMade, removed>> /\ Input
      /\ stranded' = stranded \cup {t.job : t \in {u \in turns : u.host = h}}
      /\ inflight' = [inflight EXCEPT ![h] = {}]
  BY DEF Crash
<1>2. \A t \in turns \ turns' : t.job \in stranded'
  BY <1>1
<1>3. count' \in [inputs : Int, failures : Nat] /\ count'.failures = count.failures
  BY <1>1 DEF Input, Before, BInv
<1>4. \A g \in Hosts : inflight'[g] \subseteq inflight[g]
  BY <1>1 DEF Before, TInv, TypeOK
<1>5. turns' \subseteq turns /\ stranded \subseteq stranded'
  BY <1>1
<1> QED
  BY <1>1, <1>2, <1>3, <1>4, <1>5, QuietBooks

LEMMA RestBooks ==
  ASSUME Before,
         \/ Advance \/ UNCHANGED vars
         \/ \E h \in Hosts : Tick(h) \/ Answer(h) \/ Start(h)
         \/ \E t \in turns : DropConversation(t)
  PROVE  BInv'
<1>1. /\ UNCHANGED <<removed, runsMade, disk, inflight>> /\ (UNCHANGED count \/ Input)
      /\ \/ UNCHANGED <<turns, stranded>>
         \/ \E t \in turns : turns' = turns \ {t} /\ stranded' = stranded \cup {t.job}
      /\ UNCHANGED mem \/ \E h \in Hosts : mem' = [mem EXCEPT ![h] = Load(disk)]
  BY DEF Advance, vars, Tick, Answer, Start, DropConversation
<1>2. count' \in [inputs : Int, failures : Nat] /\ count'.failures = count.failures
  BY <1>1 DEF Input, Before, BInv
<1>3. \A h \in Hosts : mem'[h] = mem[h] \/ mem'[h] = Load(disk)
  BY <1>1 DEF Before, TInv, TypeOK
<1>4. turns' \subseteq turns /\ stranded \subseteq stranded' /\ \A t \in turns \ turns' : t.job \in stranded'
  BY <1>1
<1>5. \A h \in Hosts : inflight'[h] \subseteq inflight[h]
  BY <1>1
<1> QED
  BY <1>1, <1>2, <1>3, <1>4, <1>5, QuietBooks

LEMMA InitBooks == Init => BInv
<1> SUFFICES ASSUME Init PROVE BInv
  OBVIOUS
<1>1. /\ disk = [jobs |-> [j \in Jobs |-> NoJob], runs |-> {}] /\ \A h \in Hosts : mem[h] = disk /\ inflight[h] = {}
      /\ turns = {} /\ count = [inputs |-> 0, failures |-> 0]
  BY DEF Init
<1>2. disk.runs = {} /\ \A j \in Jobs : disk.jobs[j].status = "none"
  BY <1>1 DEF NoJob
<1>3. Right(disk)
  BY <1>1, <1>2 DEF Right, Books, Numbered, Backed, Filed
<1> QED
  BY <1>1, <1>3 DEF BInv, Counted

LEMMA BooksInductive == ASSUME Before, [Next]_vars PROVE BInv'
<1>1. CASE \/ Advance \/ UNCHANGED vars
           \/ \E h \in Hosts : Tick(h) \/ Answer(h) \/ Start(h)
           \/ \E t \in turns : DropConversation(t)
  BY <1>1, RestBooks
<1>2. ASSUME NEW h \in Hosts, Crash(h) \/ OtherRuns(h) PROVE BInv'
  BY <1>2, CrashBooks, OtherRunsBooks
<1>3. ASSUME NEW h \in Hosts, NEW j \in Jobs, CreateJob(h, j) \/ UpdateJob(h, j) \/ RemoveJob(h, j)
      PROVE  BInv'
  BY <1>3, JobBooks, RemoveJobBooks
<1>4. ASSUME NEW h \in Hosts, NEW j \in Jobs, RunNow(h, j) PROVE BInv'
  <2>1. Fire(h, j, now, 1) /\ UNCHANGED <<stranded, removed>>
    BY <1>4 DEF RunNow
  <2> QED
    BY <2>1, FireBooks
<1>5. ASSUME NEW h \in Hosts, NEW j \in Jobs, LoopStep(h, j) PROVE BInv'
  <2>1. CASE j \in inflight[h]
    <3>1. UNCHANGED <<disk, mem, inflight, turns, runsMade, count, stranded, removed>>
      BY <1>5, <2>1 DEF LoopStep
    <3>2. count' \in [inputs : Int, failures : Nat] /\ count'.failures = count.failures
      BY <3>1 DEF Before, BInv
    <3> QED
      BY <3>1, <3>2, QuietBooks
  <2>2. CASE j \notin inflight[h]
    <3>1. Fire(h, j, loop[h].at, 0) /\ UNCHANGED <<stranded, removed>>
      BY <1>5, <2>2 DEF LoopStep
    <3> QED
      BY <3>1, FireBooks
  <2> QED
    BY <2>1, <2>2
<1>6. ASSUME NEW t \in turns, TurnEnds(t) PROVE BInv'
  BY <1>6, KnownEndBooks, UnknownEndBooks
<1> QED
  BY <1>1, <1>2, <1>3, <1>4, <1>5, <1>6 DEF Next

(* With one host a job that is held for running has a turn, so that the     *)
(* clock or the user will start it again: neither the end of the turn nor a *)
(* reload leaves a record or a status behind, except in the four ways in    *)
(* which the code is known to lose a turn (onTurnEnd, beginRun, finishRun). *)
THEOREM BusyJobsHaveTurns ==
  ASSUME \A g, h \in Hosts : g = h
  PROVE  Spec => []BusyHasATurn
<1>1. TInv /\ IInv /\ BInv /\ [Next]_vars => BInv'
  BY BooksInductive DEF Before, Solo
<1>2. BInv => BusyHasATurn
  <2> SUFFICES ASSUME BInv, NEW h \in Hosts, NEW j \in Jobs, j \notin stranded,
                      mem[h].jobs[j].status = "running" \/ Busy(h, j)
               PROVE  \E t \in turns : t.job = j
    BY DEF BusyHasATurn
  <2>1. Backed(mem[h], turns, stranded) /\ (j \in inflight[h] => HasTurn(j, turns, stranded))
    BY DEF BInv, Right, Books
  <2> QED
    BY <2>1 DEF Busy, Backed, HasTurn
<1> QED
  BY <1>1, <1>2, InitTypes, TypesInductive, Initially, Inductive, InitBooks, PTL DEF Spec

-----------------------------------------------------------------------------
(* Slots *)

(* What a tick fired of a job lies before its next slot. *)
Past(job, fired) == fired = None \/ ~job.enabled \/ job.status = "running" \/ job.next > fired

(* A job that is not there was never fired, or a user removed it. *)
Slots(s, F, R) ==
  \A j \in Jobs : Past(s.jobs[j], F[j]) /\ (s.jobs[j] = NoJob => F[j] = None \/ j \in R)

(* The loop goes through jobs that are due. *)
Timely(job, at) == job.enabled /\ job.next # None /\ job.next <= at /\ job.status # "running"

OnTime ==
  /\ \A j \in Jobs : slot[j] <= now
  /\ \A h \in Hosts : loop[h].at <= now /\ \A a \in asking[h] : a.at <= now

Todo == \A h \in Hosts, j \in Jobs : j \in loop[h].todo => Timely(mem[h].jobs[j], loop[h].at)

Fired == count.failures = 0 => Slots(disk, slot, removed) /\ \A h \in Hosts : Slots(mem[h], slot, removed)

SInv == OnTime /\ Todo /\ Fired

Ready == Before /\ SInv

(* The slot after a run lies after it. *)
LEMMA NextIsLater ==
  ASSUME NEW kind \in {"interval", "cron"}, NEW at, NEW t \in Nat
  PROVE  NextRunAt(kind, at, t) >= t
<1>1. CASE kind = "interval"
  BY <1>1, TimersAssumption DEF NextRunAt
<1>2. CASE kind = "cron"
  <2>1. (CHOOSE s \in t .. t + Period - 1 : Match(s)) \in t .. t + Period - 1
    BY MatchExists
  <2>2. NextRunAt(kind, at, t) = CHOOSE s \in t .. t + Period - 1 : Match(s)
    BY <1>2 DEF NextRunAt
  <2> QED
    BY <2>1, <2>2, TimersAssumption
<1> QED
  BY <1>1, <1>2

(* A reload computes no slot of a job that a tick has fired. *)
LEMMA LoadSlots ==
  ASSUME NEW s \in StoreType, NEW F \in [Jobs -> Times \cup {None}], NEW R, Slots(s, F, R)
  PROVE  Slots(Load(s), F, R)
<1> SUFFICES ASSUME NEW j \in Jobs
             PROVE  /\ Past(Load(s).jobs[j], F[j])
                    /\ Load(s).jobs[j] = NoJob => F[j] = None \/ j \in R
  BY DEF Slots
<1>1. /\ Load(s).jobs[j].status = s.jobs[j].status /\ Load(s).jobs[j].enabled = s.jobs[j].enabled
      /\ Load(s).jobs[j].kind = s.jobs[j].kind
      /\ Load(s).jobs[j] = s.jobs[j] \/ s.jobs[j].next = None
  BY LoadIs
<1>2. Past(s.jobs[j], F[j]) /\ (s.jobs[j] = NoJob => F[j] = None \/ j \in R)
  BY DEF Slots
<1>3. F[j] \in Nat \/ F[j] = None
  BY TimersAssumption DEF Times
<1>4. Past(Load(s).jobs[j], F[j])
  BY <1>1, <1>2, <1>3 DEF Past, None
<1>5. ASSUME Load(s).jobs[j] = NoJob PROVE s.jobs[j] = NoJob
  <2>1. s.jobs[j] \in JobType
    BY DEF StoreType
  <2>2. s.jobs[j].kind = "none"
    BY <1>1, <1>5 DEF NoJob
  <2> QED
    BY <2>1, <2>2, JobFields DEF Kinds
<1> QED
  BY <1>2, <1>4, <1>5

(* What is stored without a failure is what memory holds. *)
LEMMA PersistSlots ==
  ASSUME disk \in StoreType, NEW store, NEW fails \in BOOLEAN, Persist(store, fails) \/ PersistJobs(store, fails),
         NEW F, NEW R, ~fails, Slots(store, F, R)
  PROVE  Slots(disk', F, R)
<1>1. disk'.jobs = store.jobs
  BY DEF Persist, PersistJobs, StoreType
<1> QED
  BY <1>1 DEF Slots

(* A step that changes no job, or loads them again; time may pass. *)
LEMMA QuietSlots ==
  ASSUME Ready, UNCHANGED <<disk, slot, removed>>, now <= now', now' \in Nat, count'.failures = count.failures,
         \A h \in Hosts : mem'[h] = mem[h] \/ (mem'[h] = Load(disk) /\ loop'[h] = NoLoop),
         \A h \in Hosts : \/ loop'[h] = loop[h] \/ loop'[h] = NoLoop
                          \/ \E a \in asking[h] : loop'[h] = [at |-> a.at, todo |-> Due(h, a.at)] /\ mem'[h] = mem[h]
                          \/ /\ loop'[h].at = loop[h].at /\ loop'[h].todo \subseteq loop[h].todo,
         \A h \in Hosts : \A a \in asking'[h] : a \in asking[h] \/ a.at = now
  PROVE  SInv'
<1>1. /\ now \in Nat /\ slot \in [Jobs -> Times \cup {None}] /\ disk \in StoreType
      /\ asking \in [Hosts -> SUBSET [at : 0 .. MaxTime, defer : BOOLEAN]]
      /\ loop \in [Hosts -> [at : 0 .. MaxTime \cup {None}, todo : SUBSET Jobs]]
      /\ Times \cup {None} \subseteq Int /\ 0 .. MaxTime \cup {None} \subseteq Int
  BY TimersAssumption DEF Ready, Before, TInv, TypeOK, Times, None
<1>2. OnTime'
  <2>1. ASSUME NEW j \in Jobs PROVE slot'[j] <= now'
    <3>1. slot[j] \in Int /\ slot[j] <= now /\ now' \in Int
      BY <1>1 DEF Ready, SInv, OnTime
    <3> QED
      BY <1>1, <3>1
  <2>2. ASSUME NEW h \in Hosts PROVE loop'[h].at <= now' /\ \A a \in asking'[h] : a.at <= now'
    <3>1. loop[h].at \in Int /\ loop[h].at <= now /\ NoLoop.at = -1
      BY <1>1 DEF Ready, SInv, OnTime, NoLoop, None
    <3>2. \A a \in asking[h] : a.at \in Int /\ a.at <= now
      BY <1>1 DEF Ready, SInv, OnTime
    <3>3. now' \in Int /\ now \in Int /\ now <= now'
      BY <1>1
    <3>4. \A a \in asking'[h] : a.at <= now'
      BY <3>2, <3>3
    <3>5. loop'[h].at <= now'
      <4>1. CASE loop'[h].at = loop[h].at \/ loop'[h] = NoLoop
        BY <3>1, <3>3, <4>1
      <4>2. ASSUME NEW a \in asking[h], loop'[h] = [at |-> a.at, todo |-> Due(h, a.at)] PROVE loop'[h].at <= now'
        <5>1. loop'[h].at = a.at
          BY <4>2
        <5> QED
          BY <3>2, <3>3, <5>1
      <4> QED
        BY <4>1, <4>2
    <3> QED
      BY <3>4, <3>5
  <2> QED
    BY <2>1, <2>2 DEF OnTime
<1>3. ASSUME NEW h \in Hosts, NEW j \in Jobs, j \in loop'[h].todo PROVE Timely(mem'[h].jobs[j], loop'[h].at)
  <2>1. loop'[h] # NoLoop
    BY <1>3 DEF NoLoop
  <2>2. mem'[h] = mem[h]
    BY <2>1
  <2>3. CASE j \in loop[h].todo /\ loop'[h].at = loop[h].at
    BY <2>2, <2>3 DEF Ready, SInv, Todo
  <2>4. ASSUME NEW a \in asking[h], loop'[h] = [at |-> a.at, todo |-> Due(h, a.at)]
        PROVE  Timely(mem'[h].jobs[j], loop'[h].at)
    <3>1. j \in Due(h, a.at) /\ loop'[h].at = a.at
      BY <1>3, <2>4
    <3> QED
      BY <2>2, <3>1 DEF Due, Timely
  <2> QED
    BY <1>3, <2>1, <2>3, <2>4
<1>4. Fired'
  <2>1. Slots(disk, slot, removed) => Slots(Load(disk), slot, removed)
    BY <1>1, LoadSlots
  <2> QED
    BY <2>1 DEF Ready, SInv, Fired
<1> QED
  BY <1>2, <1>3, <1>4 DEF SInv, Todo

(* Another store is written while no loop goes on, or for a job of it. *)
LEMMA WrittenSlots ==
  ASSUME Ready, NEW h \in Hosts, NEW store, NEW fails \in BOOLEAN, mem' = [mem EXCEPT ![h] = store],
         Persist(store, fails) \/ PersistJobs(store, fails), fails => count'.failures # 0,
         UNCHANGED <<now, asking>>, \A j \in Jobs : slot'[j] <= now,
         loop'[h].at <= now, \A j \in Jobs : j \in loop'[h].todo => Timely(store.jobs[j], loop'[h].at),
         count'.failures = 0 => Slots(store, slot', removed')
  PROVE  SInv'
<1>1. \A g \in Hosts : g = h /\ mem'[g] = store
  BY OneStore DEF Ready, Before
<1>2. disk \in StoreType
  BY DEF Ready, Before, TInv, TypeOK
<1>3. OnTime'
  BY <1>1 DEF Ready, SInv, OnTime
<1>4. Todo'
  BY <1>1 DEF Todo
<1>5. count'.failures = 0 => Slots(disk', slot', removed')
  BY <1>2, PersistSlots
<1>6. Fired'
  BY <1>1, <1>5 DEF Fired
<1> QED
  BY <1>3, <1>4, <1>6 DEF SInv

(* One job changes. *)
LEMMA SlotsButOne ==
  ASSUME NEW s, NEW v, NEW F, NEW G, NEW R, NEW S, NEW j \in Jobs, Slots(s, F, R), R \subseteq S,
         \A i \in Jobs : i # j => v.jobs[i] = s.jobs[i] /\ G[i] = F[i],
         Past(v.jobs[j], G[j]), v.jobs[j] = NoJob => G[j] = None \/ j \in S
  PROVE  Slots(v, G, S)
<1> SUFFICES ASSUME NEW i \in Jobs
             PROVE  Past(v.jobs[i], G[i]) /\ (v.jobs[i] = NoJob => G[i] = None \/ i \in S)
  BY DEF Slots
<1>1. CASE i = j
  BY <1>1
<1>2. CASE i # j
  BY <1>2 DEF Slots
<1> QED
  BY <1>1, <1>2

LEMMA CreateJobSlots ==
  ASSUME Ready, NEW h \in Hosts, NEW j \in Jobs, CreateJob(h, j)
  PROVE  SInv'
<1>1. PICK job \in NewJobs(now), fails \in BOOLEAN :
        LET store == [mem[h] EXCEPT !.jobs[j] = job] IN
        Spend(1, fails) /\ mem' = [mem EXCEPT ![h] = store] /\ PersistJobs(store, fails)
  BY DEF CreateJob
<1> DEFINE store == [mem[h] EXCEPT !.jobs[j] = job]
<1>2. job # NoJob
  BY <1>1 DEF NewJobs, NoJob, Kinds
<1>3. mem[h] \in StoreType /\ mem[h].jobs \in [Jobs -> JobType]
  BY StoreFields DEF Ready, Before
<1>4. store.jobs = [mem[h].jobs EXCEPT ![j] = job]
  BY <1>3 DEF StoreType
<1>5. Spend(1, fails) /\ mem' = [mem EXCEPT ![h] = store] /\ PersistJobs(store, fails)
  BY <1>1
<1> HIDE DEF store
<1>6. store.jobs[j] = job /\ \A i \in Jobs : i # j => store.jobs[i] = mem[h].jobs[i]
  BY <1>3, <1>4
<1>7. /\ UNCHANGED <<now, asking, slot, removed, loop>> /\ loop[h] = NoLoop
      /\ mem[h].jobs[j] = NoJob /\ j \notin removed
  BY DEF CreateJob, Free
<1>8. (fails => count'.failures # 0) /\ (count'.failures = 0 => count.failures = 0)
  BY <1>5, SpendIs DEF Ready, Before
<1>9. ASSUME count'.failures = 0 PROVE Slots(store, slot', removed')
  <2>1. Slots(mem[h], slot, removed)
    BY <1>8, <1>9 DEF Ready, SInv, Fired
  <2>2. slot[j] = None
    BY <1>7, <2>1 DEF Slots
  <2> QED
    BY <1>6, <1>7, <2>1, <2>2, SlotsButOne DEF Past
<1>10. /\ \A i \in Jobs : slot'[i] <= now
       /\ loop'[h].at <= now /\ loop'[h].todo = {}
  BY <1>7 DEF Ready, SInv, OnTime, NoLoop
<1> QED
  BY <1>5, <1>7, <1>8, <1>9, <1>10, WrittenSlots

LEMMA UpdateJobSlots ==
  ASSUME Ready, NEW h \in Hosts, NEW j \in Jobs, UpdateJob(h, j)
  PROVE  SInv'
<1>1. PICK enabled \in BOOLEAN, fails \in BOOLEAN :
        LET job == [mem[h].jobs[j] EXCEPT !.enabled = enabled]
            from == IF job.last = None THEN now ELSE job.last
            store == [mem[h] EXCEPT !.jobs[j] = [job EXCEPT !.next = Slot(job, from)]]
        IN Spend(1, fails) /\ mem' = [mem EXCEPT ![h] = store] /\ PersistJobs(store, fails)
  BY DEF UpdateJob
<1> DEFINE job == [mem[h].jobs[j] EXCEPT !.enabled = enabled]
           from == IF job.last = None THEN now ELSE job.last
           new == [job EXCEPT !.next = Slot(job, from)]
           store == [mem[h] EXCEPT !.jobs[j] = new]
<1>2. Spend(1, fails) /\ mem' = [mem EXCEPT ![h] = store] /\ PersistJobs(store, fails)
  BY <1>1
<1>3. mem[h] \in StoreType /\ mem[h].jobs \in [Jobs -> JobType]
  BY StoreFields DEF Ready, Before
<1> HIDE DEF new
<1>4. store.jobs = [mem[h].jobs EXCEPT ![j] = new]
  BY <1>3 DEF StoreType
<1> HIDE DEF store
<1>5. \A i \in Jobs : i # j => store.jobs[i] = mem[h].jobs[i]
  BY <1>3, <1>4
<1>6. /\ UNCHANGED <<now, asking, removed, loop>> /\ loop[h] = NoLoop /\ slot' = [slot EXCEPT ![j] = None]
      /\ slot \in [Jobs -> Times \cup {None}] /\ now \in Nat
  BY TimersAssumption DEF UpdateJob, Free, Ready, Before, TInv, TypeOK
<1>7. slot'[j] = None /\ \A i \in Jobs : i # j => slot'[i] = slot[i]
  BY <1>6
<1>8. (fails => count'.failures # 0) /\ (count'.failures = 0 => count.failures = 0)
  BY <1>2, SpendIs DEF Ready, Before
<1>9. ASSUME count'.failures = 0 PROVE Slots(store, slot', removed')
  <2>1. Slots(mem[h], slot, removed)
    BY <1>8, <1>9 DEF Ready, SInv, Fired
  <2>2. Past(store.jobs[j], slot'[j]) /\ (store.jobs[j] = NoJob => slot'[j] = None \/ j \in removed)
    BY <1>7 DEF Past
  <2>3. \A i \in Jobs : i # j => store.jobs[i] = mem[h].jobs[i] /\ slot'[i] = slot[i]
    BY <1>5, <1>7
  <2> DEFINE F == slot
             G == slot'
             s == mem[h]
  <2>4. Slots(s, F, removed)
    BY <2>1
  <2>5. /\ Past(store.jobs[j], G[j]) /\ (store.jobs[j] = NoJob => G[j] = None \/ j \in removed)
        /\ \A i \in Jobs : i # j => store.jobs[i] = s.jobs[i] /\ G[i] = F[i]
    BY <2>2, <2>3
  <2> HIDE DEF F, G, s
  <2>6. Slots(store, G, removed)
    BY <2>4, <2>5, SlotsButOne
  <2> QED
    BY <1>6, <2>6 DEF G
<1>10. /\ \A i \in Jobs : slot'[i] <= now
       /\ loop'[h].at <= now /\ loop'[h].todo = {}
  BY <1>6, <1>7 DEF Ready, SInv, OnTime, NoLoop, None
<1> QED
  BY <1>2, <1>6, <1>8, <1>9, <1>10, WrittenSlots

LEMMA RemoveJobSlots ==
  ASSUME Ready, NEW h \in Hosts, NEW j \in Jobs, RemoveJob(h, j)
  PROVE  SInv'
<1> DEFINE store == [jobs |-> [mem[h].jobs EXCEPT ![j] = NoJob], runs |-> {r \in mem[h].runs : r.job # j}]
<1>1. PICK fails \in BOOLEAN :
        /\ Spend(1, fails) /\ mem' = [mem EXCEPT ![h] = store] /\ Persist(store, fails)
        /\ removed' = IF fails THEN removed ELSE removed \cup {j}
  BY DEF RemoveJob
<1>2. mem[h].jobs \in [Jobs -> JobType]
  BY StoreFields DEF Ready, Before
<1>3. store.jobs[j] = NoJob /\ \A i \in Jobs : i # j => store.jobs[i] = mem[h].jobs[i]
  BY <1>2
<1> HIDE DEF store
<1>4. UNCHANGED <<now, asking, slot, loop>> /\ loop[h] = NoLoop
  BY DEF RemoveJob, Free
<1>5. (fails => count'.failures # 0) /\ (count'.failures = 0 => count.failures = 0)
  BY <1>1, SpendIs DEF Ready, Before
<1>6. ASSUME count'.failures = 0 PROVE Slots(store, slot', removed')
  <2>1. Slots(mem[h], slot, removed) /\ removed' = removed \cup {j}
    BY <1>1, <1>5, <1>6 DEF Ready, SInv, Fired
  <2>2. Past(store.jobs[j], slot[j])
    BY <1>3 DEF Past, NoJob
  <2>3. removed \subseteq removed' /\ j \in removed'
    BY <2>1
  <2> DEFINE F == slot
             R == removed'
             s == mem[h]
  <2>4. Slots(s, F, removed) /\ removed \subseteq R /\ j \in R
    BY <2>1, <2>3
  <2>5. Past(store.jobs[j], F[j]) /\ \A i \in Jobs : i # j => store.jobs[i] = s.jobs[i]
    BY <1>3, <2>2
  <2> HIDE DEF F, R, s
  <2>6. Slots(store, F, R)
    BY <2>4, <2>5, SlotsButOne
  <2> QED
    BY <1>4, <2>6 DEF F, R
<1>7. /\ \A i \in Jobs : slot'[i] <= now
      /\ loop'[h].at <= now /\ loop'[h].todo = {}
  BY <1>4 DEF Ready, SInv, OnTime, NoLoop
<1> QED
  BY <1>1, <1>4, <1>5, <1>6, <1>7, WrittenSlots

LEMMA OtherRunsSlots ==
  ASSUME Ready, NEW h \in Hosts, OtherRuns(h)
  PROVE  SInv'
<1> DEFINE run == [id |-> runsMade + 1, job |-> OtherJob, running |-> FALSE]
           store == [mem[h] EXCEPT !.runs = @ \cup {run}]
<1>1. PICK fails \in BOOLEAN : Spend(1, fails) /\ Persist(store, fails)
  BY DEF OtherRuns
<1>2. mem' = [mem EXCEPT ![h] = store] /\ UNCHANGED <<now, asking, slot, loop, removed>> /\ loop[h] = NoLoop
  BY DEF OtherRuns, Free
<1>3. store.jobs = mem[h].jobs
  BY StoreFields DEF Ready, Before, StoreType
<1> HIDE DEF store
<1>4. (fails => count'.failures # 0) /\ (count'.failures = 0 => count.failures = 0)
  BY <1>1, SpendIs DEF Ready, Before
<1>5. count'.failures = 0 => Slots(store, slot', removed')
  BY <1>2, <1>3, <1>4 DEF Ready, SInv, Fired, Slots
<1>6. /\ \A i \in Jobs : slot'[i] <= now
      /\ loop'[h].at <= now /\ loop'[h].todo = {}
  BY <1>2 DEF Ready, SInv, OnTime, NoLoop
<1> QED
  BY <1>1, <1>2, <1>4, <1>5, <1>6, WrittenSlots

(* fire leaves the slot in the job, which is running now. *)
LEMMA FireSlots ==
  ASSUME Ready, NEW h \in Hosts, NEW j \in Jobs, NEW at, NEW inputs \in {0, 1}, Fire(h, j, at, inputs),
         UNCHANGED <<now, asking, removed>>, \A i \in Jobs : i # j => slot'[i] = slot[i],
         \A i \in Jobs : slot'[i] <= now, mem[h].jobs[j] # NoJob,
         loop'[h].at <= now,
         \A i \in Jobs : i \in loop'[h].todo => i # j /\ i \in loop[h].todo /\ loop'[h].at = loop[h].at
  PROVE  SInv'
<1>1. PICK store : \E fails \in BOOLEAN :
           /\ Spend(inputs, fails) /\ mem' = [mem EXCEPT ![h] = store] /\ Persist(store, fails)
           /\ store.runs = mem[h].runs \cup {Record([id |-> runsMade + 1, job |-> j])}
           /\ \A i \in Jobs : /\ i # j => store.jobs[i] = mem[h].jobs[i]
                              /\ store.jobs[i].enabled = mem[h].jobs[i].enabled
                              /\ store.jobs[i].next = mem[h].jobs[i].next
           /\ store.jobs[j].status = "running"
  BY FireIs DEF Ready
<1>2. PICK fails \in BOOLEAN : Spend(inputs, fails) /\ mem' = [mem EXCEPT ![h] = store] /\ Persist(store, fails)
  BY <1>1
<1>3. store.jobs[j].status = "running" /\ \A i \in Jobs : i # j => store.jobs[i] = mem[h].jobs[i]
  BY <1>1
<1>4. (fails => count'.failures # 0) /\ (count'.failures = 0 => count.failures = 0)
  BY <1>2, SpendIs DEF Ready, Before
<1>5. ASSUME count'.failures = 0 PROVE Slots(store, slot', removed')
  <2> DEFINE F == slot
             G == slot'
             s == mem[h]
  <2>1. Slots(s, F, removed)
    BY <1>4, <1>5 DEF Ready, SInv, Fired
  <2>2. Past(store.jobs[j], G[j]) /\ store.jobs[j] # NoJob
    BY <1>3 DEF Past, NoJob
  <2>3. \A i \in Jobs : i # j => store.jobs[i] = s.jobs[i] /\ G[i] = F[i]
    BY <1>3
  <2> HIDE DEF F, G, s
  <2>4. Past(store.jobs[j], G[j]) /\ (store.jobs[j] = NoJob => G[j] = None \/ j \in removed)
    BY <2>2
  <2>5. removed \subseteq removed
    OBVIOUS
  <2>6. Slots(store, G, removed)
    BY <2>1, <2>3, <2>4, <2>5, SlotsButOne
  <2> QED
    BY <2>6 DEF G
<1>6. \A i \in Jobs : i \in loop'[h].todo => Timely(store.jobs[i], loop'[h].at)
  BY <1>3 DEF Ready, SInv, Todo
<1> QED
  BY <1>2, <1>4, <1>5, <1>6, WrittenSlots

LEMMA RunNowSlots ==
  ASSUME Ready, NEW h \in Hosts, NEW j \in Jobs, RunNow(h, j)
  PROVE  SInv'
<1>1. /\ Fire(h, j, now, 1) /\ UNCHANGED <<now, asking, removed, slot, loop>> /\ loop[h] = NoLoop
      /\ mem[h].jobs[j] # NoJob
  BY DEF RunNow, Free
<1>2. \A i \in Jobs : slot'[i] <= now /\ slot'[i] = slot[i]
  BY <1>1 DEF Ready, SInv, OnTime
<1>3. loop'[h].at <= now /\ loop'[h].todo = {}
  BY <1>1 DEF Ready, SInv, OnTime, NoLoop
<1> QED
  BY <1>1, <1>2, <1>3, FireSlots

(* What the loop does next, without the job it comes to. *)
LEMMA LoopMoves ==
  ASSUME Ready, NEW h \in Hosts, NEW j \in Jobs, LoopStep(h, j)
  PROVE  /\ \A g \in Hosts : loop'[g] = NoLoop \/ (loop'[g].at = loop[g].at /\ loop'[g].todo \subseteq loop[g].todo)
         /\ loop'[h] = NoLoop \/ loop'[h].todo = loop[h].todo \ {j}
<1>1. /\ loop' = [loop EXCEPT ![h] = IF loop[h].todo = {j} THEN NoLoop ELSE [loop[h] EXCEPT !.todo = @ \ {j}]]
      /\ loop \in [Hosts -> [at : 0 .. MaxTime \cup {None}, todo : SUBSET Jobs]]
  BY DEF LoopStep, Ready, Before, TInv, TypeOK
<1>2. /\ \A g \in Hosts : g # h => loop'[g] = loop[g]
      /\ loop'[h] = NoLoop \/ loop'[h] = [loop[h] EXCEPT !.todo = @ \ {j}]
  BY <1>1
<1>3. [loop[h] EXCEPT !.todo = @ \ {j}].at = loop[h].at /\ [loop[h] EXCEPT !.todo = @ \ {j}].todo = loop[h].todo \ {j}
  BY <1>1
<1> QED
  BY <1>2, <1>3

LEMMA LoopStepSlots ==
  ASSUME Ready, NEW h \in Hosts, NEW j \in Jobs, LoopStep(h, j)
  PROVE  SInv'
<1>1. UNCHANGED <<now, asking, removed>> /\ j \in loop[h].todo /\ now \in Nat
  BY TimersAssumption DEF LoopStep, Ready, Before, TInv, TypeOK
<1>2. CASE j \in inflight[h]
  <2>1. UNCHANGED <<disk, mem, count, slot>>
    BY <1>2 DEF LoopStep
  <2>2. now <= now' /\ now' \in Nat /\ count'.failures = count.failures
    BY <1>1, <2>1
  <2> QED
    BY <1>1, <2>1, <2>2, LoopMoves, QuietSlots
<1>3. CASE j \notin inflight[h]
  <2>1. /\ Fire(h, j, loop[h].at, 0) /\ slot' = [slot EXCEPT ![j] = mem[h].jobs[j].next]
        /\ slot \in [Jobs -> Times \cup {None}] /\ mem[h].jobs[j] # NoJob
    BY <1>1, <1>3 DEF LoopStep, Ready, Before, TInv, TypeOK
  <2>2. Timely(mem[h].jobs[j], loop[h].at) /\ loop[h].at <= now /\ loop[h].at \in Int
    BY <1>1, TimersAssumption DEF Ready, SInv, Todo, OnTime, Before, TInv, TypeOK, None
  <2>3. mem[h].jobs[j] \in JobType
    BY StoreFields DEF Ready, Before
  <2>4. mem[h].jobs[j].next \in Int
    BY <2>1, <2>3, JobFields, TimersAssumption DEF Times, None
  <2>5. slot'[j] <= now /\ \A i \in Jobs : i # j => slot'[i] = slot[i]
    BY <1>1, <2>1, <2>2, <2>4 DEF Timely
  <2>6. \A i \in Jobs : slot'[i] <= now
    BY <2>5 DEF Ready, SInv, OnTime
  <2>7. loop'[h].at <= now
    BY <1>1, <2>2, LoopMoves DEF NoLoop, None
  <2>8. \A i \in Jobs : i \in loop'[h].todo => i # j /\ i \in loop[h].todo /\ loop'[h].at = loop[h].at
    BY LoopMoves DEF NoLoop
  <2> QED
    BY <1>1, <2>1, <2>5, <2>6, <2>7, <2>8, FireSlots
<1> QED
  BY <1>2, <1>3

(* The next slot of a job that has run lies ahead; a job for one time is done. *)
LEMMA FinishedSlot ==
  ASSUME now \in Nat, NEW job \in JobType, job # NoJob, NEW ok, NEW fired, fired \in Int, fired <= now
  PROVE  Past(Finished(job, ok), fired)
<1> DEFINE next == IF job.enabled /\ job.kind # "once" THEN NextRunAt(job.kind, job.at, now + 1) ELSE None
           enabled == IF job.kind = "once" THEN FALSE ELSE job.enabled
<1>1. Finished(job, ok).next = next /\ Finished(job, ok).enabled = enabled
  BY DEF Finished, JobType
<1>2. CASE job.kind = "once" \/ ~job.enabled
  BY <1>1, <1>2, JobFields DEF Past
<1>3. CASE job.kind # "once" /\ job.enabled
  <2>1. job.kind \in {"interval", "cron"} /\ now + 1 \in Nat
    BY <1>3, JobFields DEF Kinds
  <2>2. next = NextRunAt(job.kind, job.at, now + 1)
    BY <1>3
  <2>3. next \in Int
    <3>1. CASE job.kind = "interval"
      BY <2>2, <3>1, TimersAssumption DEF NextRunAt
    <3>2. CASE job.kind = "cron"
      <4>1. (CHOOSE s \in now + 1 .. now + 1 + Period - 1 : Match(s)) \in now + 1 .. now + 1 + Period - 1
        BY <2>1, MatchExists
      <4>2. next = CHOOSE s \in now + 1 .. now + 1 + Period - 1 : Match(s)
        BY <2>2, <3>2 DEF NextRunAt
      <4>3. now + 1 .. now + 1 + Period - 1 \subseteq Int
        OBVIOUS
      <4> HIDE DEF next
      <4> QED
        BY <4>1, <4>2, <4>3
    <3> QED
      BY <2>1, <3>1, <3>2
  <2>4. next >= now + 1
    BY <2>1, <2>2, NextIsLater
  <2> HIDE DEF next
  <2> QED
    BY <1>1, <2>3, <2>4 DEF Past
<1> QED
  BY <1>2, <1>3

LEMMA KnownEndSlots ==
  ASSUME Ready, NEW t \in turns, TurnEnds(t), {r \in mem[t.host].runs : r.id = t.id /\ r.running} # {}
  PROVE  SInv'
<1> DEFINE h == t.host
           j == t.job
           known == {r \in mem[h].runs : r.id = t.id /\ r.running}
<1>1. /\ h \in Hosts /\ j \in Jobs /\ now \in Nat /\ slot \in [Jobs -> Times \cup {None}]
      /\ loop[h] = NoLoop /\ UNCHANGED <<now, asking, loop, slot, removed>>
  BY TimersAssumption DEF TurnEnds, Free, Ready, Before, TInv, TypeOK
<1>2. mem[h].jobs \in [Jobs -> JobType]
  BY <1>1, StoreFields DEF Ready, Before
<1>3. PICK ok \in BOOLEAN, fails \in BOOLEAN :
          LET store == [jobs |-> IF mem[h].jobs[j] = NoJob THEN mem[h].jobs
                                 ELSE [mem[h].jobs EXCEPT ![j] = Finished(@, ok)],
                        runs |-> (mem[h].runs \ known) \cup {[r EXCEPT !.running = FALSE] : r \in known}]
          IN
          Spend(0, fails) /\ mem' = [mem EXCEPT ![h] = store] /\ Persist(store, fails)
  BY DEF TurnEnds
<1> DEFINE jobs == IF mem[h].jobs[j] = NoJob THEN mem[h].jobs ELSE [mem[h].jobs EXCEPT ![j] = Finished(@, ok)]
           runs == (mem[h].runs \ known) \cup {[r EXCEPT !.running = FALSE] : r \in known}
           store == [jobs |-> jobs, runs |-> runs]
<1>4. Spend(0, fails) /\ mem' = [mem EXCEPT ![h] = store] /\ Persist(store, fails)
  BY <1>3
<1>5. /\ \A i \in Jobs : i # j => jobs[i] = mem[h].jobs[i]
      /\ \/ jobs[j] = mem[h].jobs[j]
         \/ mem[h].jobs[j] # NoJob /\ jobs[j] = Finished(mem[h].jobs[j], ok)
  BY <1>1, <1>2
<1> HIDE DEF runs, jobs
<1>6. store.jobs = jobs
  OBVIOUS
<1> HIDE DEF store
<1>7. (fails => count'.failures # 0) /\ (count'.failures = 0 => count.failures = 0)
  BY <1>4, SpendIs DEF Ready, Before
<1>8. ASSUME count'.failures = 0 PROVE Slots(store, slot', removed')
  <2> DEFINE F == slot
             s == mem[h]
  <2>1. Slots(s, F, removed)
    BY <1>1, <1>7, <1>8 DEF Ready, SInv, Fired
  <2>2. mem[h].jobs[j] # NoJob => Past(Finished(mem[h].jobs[j], ok), slot[j])
    <3>1. slot[j] \in Int /\ slot[j] <= now /\ mem[h].jobs[j] \in JobType
      BY <1>1, <1>2, TimersAssumption DEF Ready, SInv, OnTime, Times, None
    <3> QED
      BY <1>1, <3>1, FinishedSlot
  <2>3. mem[h].jobs[j] # NoJob => Finished(mem[h].jobs[j], ok) # NoJob
    BY <1>1, <1>2, FinishedType DEF Ready, Before
  <2>4. Past(mem[h].jobs[j], slot[j]) /\ (mem[h].jobs[j] = NoJob => slot[j] = None \/ j \in removed)
    BY <1>1, <2>1 DEF Slots
  <2>5. Past(store.jobs[j], slot[j]) /\ (store.jobs[j] = NoJob => slot[j] = None \/ j \in removed)
    BY <1>5, <1>6, <2>2, <2>3, <2>4
  <2>6. \A i \in Jobs : i # j => store.jobs[i] = s.jobs[i]
    BY <1>5, <1>6
  <2>7. Past(store.jobs[j], F[j]) /\ (store.jobs[j] = NoJob => F[j] = None \/ j \in removed)
    BY <2>5
  <2> HIDE DEF F, s, h, j
  <2>8. j \in Jobs
    BY <1>1
  <2>9. Slots(store, F, removed)
    BY <2>1, <2>6, <2>7, <2>8, SlotsButOne
  <2> QED
    BY <1>1, <2>9 DEF F
<1>9. /\ \A i \in Jobs : slot'[i] <= now
      /\ loop'[h].at <= now /\ loop'[h].todo = {}
  BY <1>1 DEF Ready, SInv, OnTime, NoLoop
<1> HIDE DEF h
<1> QED
  BY <1>1, <1>4, <1>7, <1>8, <1>9, WrittenSlots

LEMMA RestSlots ==
  ASSUME Ready,
         \/ Advance \/ UNCHANGED vars
         \/ \E h \in Hosts : Tick(h) \/ Answer(h) \/ Start(h) \/ Crash(h)
         \/ \E t \in turns : DropConversation(t)
         \/ \E t \in turns : TurnEnds(t) /\ {r \in mem[t.host].runs : r.id = t.id /\ r.running} = {}
  PROVE  SInv'
<1>1. /\ now \in Nat
      /\ mem \in [Hosts -> StoreType]
      /\ asking \in [Hosts -> SUBSET [at : 0 .. MaxTime, defer : BOOLEAN]]
      /\ loop \in [Hosts -> [at : 0 .. MaxTime \cup {None}, todo : SUBSET Jobs]]
  BY TimersAssumption DEF Ready, Before, TInv, TypeOK
<1>2. /\ UNCHANGED <<disk, slot, removed>> /\ (UNCHANGED count \/ Input)
      /\ now' = now \/ now' = now + 1
  BY DEF Advance, vars, Tick, Answer, Start, Crash, DropConversation, TurnEnds
<1>3. now <= now' /\ now' \in Nat
  BY <1>1, <1>2
<1>4. count'.failures = count.failures
  BY <1>2 DEF Input, Ready, Before, BInv
<1>5. CASE UNCHANGED <<mem, loop, asking>>
  <2>1. \A h \in Hosts : mem'[h] = mem[h] /\ loop'[h] = loop[h] /\ asking'[h] = asking[h]
    BY <1>5
  <2> QED
    BY <1>2, <1>3, <1>4, <2>1, QuietSlots
<1>6. ASSUME NEW h \in Hosts, Tick(h) \/ Start(h) PROVE SInv'
  <2>1. /\ mem' = [mem EXCEPT ![h] = Load(disk)] /\ loop' = loop /\ loop[h] = NoLoop
        /\ \/ asking' = asking
           \/ \E d : asking' = [asking EXCEPT ![h] = @ \cup {[at |-> now, defer |-> d]}]
    BY <1>6 DEF Tick, Start, Free, Ready, Before, TInv, Idle
  <2>2. \A g \in Hosts : mem'[g] = mem[g] \/ (mem'[g] = Load(disk) /\ loop'[g] = NoLoop)
    BY <1>1, <2>1
  <2>3. \A g \in Hosts : loop'[g] = loop[g]
    BY <2>1
  <2>4. \A g \in Hosts : \A a \in asking'[g] : a \in asking[g] \/ a.at = now
    BY <1>1, <2>1
  <2> QED
    BY <1>2, <1>3, <1>4, <2>2, <2>3, <2>4, QuietSlots
<1>7. ASSUME NEW h \in Hosts, Answer(h) PROVE SInv'
  <2>1. PICK a \in asking[h] :
          /\ asking' = [asking EXCEPT ![h] = @ \ {a}]
          /\ loop' = [loop EXCEPT ![h] =
               IF a.defer \/ Due(h, a.at) = {} THEN NoLoop ELSE [at |-> a.at, todo |-> Due(h, a.at)]]
    BY <1>7 DEF Answer
  <2>2. mem' = mem
    BY <1>7 DEF Answer
  <2>3. \A g \in Hosts : mem'[g] = mem[g]
    BY <2>2
  <2>4. loop'[h] = NoLoop \/ loop'[h] = [at |-> a.at, todo |-> Due(h, a.at)]
    BY <1>1, <2>1
  <2>5. \A g \in Hosts : g # h => loop'[g] = loop[g]
    BY <1>1, <2>1
  <2>6. \A g \in Hosts : \/ loop'[g] = loop[g] \/ loop'[g] = NoLoop
                         \/ \E b \in asking[g] : loop'[g] = [at |-> b.at, todo |-> Due(g, b.at)] /\ mem'[g] = mem[g]
    BY <2>3, <2>4, <2>5
  <2>7. \A g \in Hosts : \A b \in asking'[g] : b \in asking[g]
    BY <1>1, <2>1
  <2> QED
    BY <1>2, <1>3, <1>4, <2>3, <2>6, <2>7, QuietSlots
<1>8. ASSUME NEW h \in Hosts, Crash(h) PROVE SInv'
  <2>1. /\ mem' = mem /\ loop' = [loop EXCEPT ![h] = NoLoop] /\ asking' = [asking EXCEPT ![h] = {}]
    BY <1>8 DEF Crash
  <2>2. \A g \in Hosts : /\ mem'[g] = mem[g] /\ (loop'[g] = loop[g] \/ loop'[g] = NoLoop)
                         /\ asking'[g] \subseteq asking[g]
    BY <1>1, <2>1
  <2>3. \A g \in Hosts : \A a \in asking'[g] : a \in asking[g]
    BY <2>2
  <2> QED
    BY <1>2, <1>3, <1>4, <2>2, <2>3, QuietSlots
<1> QED
  BY <1>5, <1>6, <1>7, <1>8 DEF Advance, vars, DropConversation, TurnEnds

LEMMA InitSlots == Init => SInv
<1> SUFFICES ASSUME Init PROVE SInv
  OBVIOUS
<1>1. /\ now = 0 /\ \A j \in Jobs : slot[j] = None
      /\ \A h \in Hosts : mem[h] = disk /\ loop[h] = NoLoop /\ asking[h] = {}
  BY DEF Init
<1>2. OnTime /\ Todo
  BY <1>1 DEF OnTime, Todo, NoLoop, None
<1>3. Fired
  BY <1>1 DEF Fired, Slots, Past
<1> QED
  BY <1>2, <1>3 DEF SInv

LEMMA SlotsInductive == ASSUME Ready, [Next]_vars PROVE SInv'
<1>1. CASE \/ Advance \/ UNCHANGED vars
           \/ \E h \in Hosts : Tick(h) \/ Answer(h) \/ Start(h) \/ Crash(h)
           \/ \E t \in turns : DropConversation(t)
  BY <1>1, RestSlots
<1>2. ASSUME NEW h \in Hosts, OtherRuns(h) PROVE SInv'
  BY <1>2, OtherRunsSlots
<1>3. ASSUME NEW h \in Hosts, NEW j \in Jobs,
             CreateJob(h, j) \/ UpdateJob(h, j) \/ RemoveJob(h, j) \/ RunNow(h, j) \/ LoopStep(h, j)
      PROVE  SInv'
  BY <1>3, CreateJobSlots, UpdateJobSlots, RemoveJobSlots, RunNowSlots, LoopStepSlots
<1>4. ASSUME NEW t \in turns, TurnEnds(t) PROVE SInv'
  BY <1>4, KnownEndSlots, RestSlots
<1> QED
  BY <1>1, <1>2, <1>3, <1>4 DEF Next

(* Only the loop puts a job of it in flight. *)
LEMMA OnlyTheLoopFires ==
  ASSUME Ready, Next, NEW h \in Hosts, NEW j \in Jobs, j \in loop[h].todo, j \in inflight'[h] \ inflight[h]
  PROVE  LoopStep(h, j)
<1>1. loop[h] # NoLoop /\ inflight \in [Hosts -> SUBSET Jobs]
  BY DEF NoLoop, Ready, Before, TInv, TypeOK
<1>2. \A g \in Hosts : g = h
  BY DEF Ready, Before, Solo
<1>3. inflight' # inflight
  OBVIOUS
<1>4. ASSUME NEW g \in Hosts, Tick(g) \/ Answer(g) \/ Start(g) \/ Crash(g) \/ OtherRuns(g) PROVE FALSE
  BY <1>1, <1>3, <1>4 DEF Tick, Answer, Start, Crash, OtherRuns
<1>5. ASSUME NEW g \in Hosts, NEW i \in Jobs, CreateJob(g, i) \/ UpdateJob(g, i) \/ RemoveJob(g, i) \/ RunNow(g, i)
      PROVE  FALSE
  BY <1>1, <1>2, <1>5 DEF CreateJob, UpdateJob, RemoveJob, RunNow, Free
<1>6. ASSUME NEW g \in Hosts, NEW i \in Jobs, LoopStep(g, i) PROVE g = h /\ i = j
  <2>1. i \notin inflight[g]
    BY <1>3, <1>6 DEF LoopStep
  <2>2. inflight' = [inflight EXCEPT ![g] = @ \cup {i}]
    BY <1>6, <2>1 DEF LoopStep, Fire
  <2> QED
    BY <1>1, <1>2, <2>2
<1>7. ASSUME NEW t \in turns, TurnEnds(t) \/ DropConversation(t) PROVE FALSE
  <2>1. t.host \in Hosts
    BY DEF Ready, Before, TInv, TypeOK
  <2> QED
    BY <1>1, <1>2, <1>7, <2>1 DEF TurnEnds, DropConversation, Free
<1> QED
  BY <1>3, <1>4, <1>5, <1>6, <1>7 DEF Next, Advance

(* With one host the clock starts no slot of a job twice: when a run ends,  *)
(* finishRun puts the next slot after the present, a reload changes only a  *)
(* slot that is null, and while the run lasts the status keeps the job out  *)
(* of the loop (dueJobs).                                                   *)
THEOREM SlotsFireAtMostOnce ==
  ASSUME \A g, h \in Hosts : g = h
  PROVE  Spec => SlotsFireOnce
<1> DEFINE Later == \A h \in Hosts, j \in Jobs :
                      j \in loop[h].todo /\ j \in inflight'[h] \ inflight[h] /\ count'.failures = 0
                        => mem[h].jobs[j].next > slot[j]
<1>1. TInv /\ IInv /\ BInv /\ SInv /\ [Next]_vars => BInv' /\ SInv'
  BY BooksInductive, SlotsInductive DEF Ready, Before, Solo
<1>2. ASSUME TInv, IInv, BInv, SInv, [Next]_vars PROVE [Later]_vars
  <2> SUFFICES ASSUME Next, NEW h \in Hosts, NEW j \in Jobs, j \in loop[h].todo, j \in inflight'[h] \ inflight[h],
                      count'.failures = 0
               PROVE  mem[h].jobs[j].next > slot[j]
    BY <1>2
  <2>1. Ready
    BY <1>2 DEF Ready, Before, Solo
  <2>2. LoopStep(h, j)
    BY <2>1, OnlyTheLoopFires
  <2>3. j \notin inflight[h] /\ Fire(h, j, loop[h].at, 0)
    BY <2>2 DEF LoopStep
  <2>4. count.failures = 0
    <3>1. PICK fails \in BOOLEAN : Spend(0, fails)
      BY <2>3 DEF Fire
    <3> QED
      BY <2>1, <3>1, SpendIs DEF Ready, Before
  <2>5. Past(mem[h].jobs[j], slot[j]) /\ Timely(mem[h].jobs[j], loop[h].at)
    BY <2>1, <2>4 DEF Ready, SInv, Fired, Slots, Todo
  <2>6. mem[h].jobs[j] \in JobType /\ mem[h].jobs[j] # NoJob
    BY <2>1, StoreFields DEF Ready, Before, TInv, TypeOK
  <2>7. mem[h].jobs[j].next \in Nat
    BY <2>5, <2>6, JobFields, TimersAssumption DEF Times, Timely
  <2> QED
    BY <2>5, <2>7 DEF Past, Timely, None
<1>3. Spec => []TInv /\ []IInv
  BY InitTypes, TypesInductive, Initially, Inductive, PTL DEF Spec
<1>4. Init => BInv /\ SInv
  BY InitBooks, InitSlots
<1> QED
  BY <1>1, <1>2, <1>3, <1>4, PTL DEF Spec, SlotsFireOnce
=============================================================================
