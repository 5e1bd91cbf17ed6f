------------------------------- MODULE Timers -------------------------------
(***************************************************************************)
(* Scheduled prompts: TimerStore.ts keeps the jobs and their runs in two   *)
(* files that desktop and vav-server share, TimerScheduler.ts starts a     *)
(* turn for each job that is due and records how it ended.                 *)
(*                                                                         *)
(* A host reads both files at every tick and writes a whole file after     *)
(* every change.  The desktop asks, across an await, whether a vav-server  *)
(* is alive before it fires.  Times are instants of a small clock.  Every  *)
(* job here has a prompt (one without is skipped by fire), and the two     *)
(* files of one operation are written in one step.                         *)
(***************************************************************************)
EXTENDS Integers, FiniteSets

CONSTANTS
  Hosts,       \* processes that share the files
  Server,      \* the vav-server the desktop defers to; a host or not
  Jobs,        \* the job ids followed here
  OtherJob,    \* any other job: what matters of it are its runs
  RunsKept,    \* runs kept in runs.json (200)
  Period,      \* between the matches of a cron job, and an interval
  MaxTime,     \* bound: of the clock
  MaxInputs,   \* bound: what users do, and restarts
  MaxFailures  \* bound: writes that throw

ASSUME TimersAssumption ==
  /\ OtherJob \notin Jobs
  /\ {MaxTime, MaxInputs, MaxFailures} \subseteq Nat
  /\ {RunsKept, Period} \subseteq Nat \ {0}

VARIABLES
  now,         \* the clock
  disk,        \* jobs.json and runs.json
  mem,         \* mem[h]: TimerStore.jobs and .runs of host h
  up,          \* up[h]: h runs
  inflight,    \* inflight[h]: TimerScheduler.inflight, its keys
  asking,      \* asking[h]: ticks that await shouldDefer
  loop,        \* loop[h]: the tick that is firing, which holds h's thread
  turns,       \* the turns that run, one conversation each
  runsMade,    \* runs begun so far
  count,       \* inputs and failed writes so far
  slot,        \* history: the slot of each job that a tick fired last
  stranded,    \* history: jobs whose turn ended without the store knowing
  removed      \* history: jobs a user removed

vars == <<now, disk, mem, up, inflight, asking, loop, turns, runsMade, count, slot, stranded, removed>>

None == -1     \* null, of a time
Times == 0 .. MaxTime + 2 * Period
Kinds == {"once", "interval", "cron"}
NoJob == [kind |-> "none", at |-> 0, created |-> 0, enabled |-> FALSE, last |-> None, next |-> None, status |-> "none"]
NoLoop == [at |-> None, todo |-> {}]

Input == count.inputs < MaxInputs /\ count' = [count EXCEPT !.inputs = @ + 1]

-----------------------------------------------------------------------------
(* Schedules *)

Match(t) == t % Period = 0

(* nextTimerRunAt: the next slot at or after t. *)
NextRunAt(kind, at, t) ==
  CASE kind = "once" -> IF at >= t THEN at ELSE None
    [] kind = "interval" -> t + Period
    [] kind = "cron" -> CHOOSE s \in t .. t + Period - 1 : Match(s)

Slot(job, t) == IF job.enabled THEN NextRunAt(job.kind, job.at, t) ELSE None

\* Mutant of Due: only at the instant itself.
DueNow(h, t) ==
  {j \in Jobs : LET job == mem[h].jobs[j] IN
     job.enabled /\ job.next # None /\ job.status # "running" /\ job.next = t}
(* dueJobs. *)
Due(h, t) ==
  {j \in Jobs : LET job == mem[h].jobs[j] IN
     job.enabled /\ job.next # None /\ job.status # "running" /\ job.next <= t}

-----------------------------------------------------------------------------
(* The store of host h *)

(* runs.slice(0, 200), newest first. *)
Kept(runs) == {r \in runs : Cardinality({s \in runs : s.id > r.id}) < RunsKept}

(* persistJobs and persistRuns: an error is logged and forgotten. *)
Persist(store, fails) ==
  disk' = IF fails THEN disk ELSE [jobs |-> store.jobs, runs |-> Kept(store.runs)]
PersistJobs(store, fails) == disk' = IF fails THEN disk ELSE [disk EXCEPT !.jobs = store.jobs]

(* load: a slot that was written as null is computed again (coerceJob).    *)
Load(store) ==
  LET From(job) == IF job.last = None THEN job.created ELSE job.last
      Coerced(job) == IF job = NoJob \/ job.next # None THEN job
                      ELSE [job EXCEPT !.next = NextRunAt(job.kind, job.at, From(job))]
  IN [store EXCEPT !.jobs = [j \in Jobs |-> Coerced(store.jobs[j])]]

(* What a write that may fail costs of the bounds, with or without input. *)
Spend(inputs, fails) ==
  /\ count.inputs + inputs <= MaxInputs
  /\ fails => count.failures < MaxFailures
  /\ count' = [inputs |-> count.inputs + inputs, failures |-> count.failures + IF fails THEN 1 ELSE 0]

(* JavaScript runs one thing at a time. *)
Free(h) == up[h] /\ loop[h] = NoLoop

(* The jobs a user may create at time t. *)
NewJobs(t) ==
  {[kind |-> kind, at |-> IF kind = "once" THEN at ELSE 0, created |-> t, enabled |-> TRUE, last |-> None,
    next |-> NextRunAt(kind, at, t), status |-> "none"] : kind \in Kinds, at \in t .. MaxTime}

CreateJob(h, j) ==
  /\ Free(h) /\ mem[h].jobs[j] = NoJob /\ j \notin removed
  /\ \E job \in NewJobs(now), fails \in BOOLEAN :
       LET store == [mem[h] EXCEPT !.jobs[j] = job] IN
       /\ Spend(1, fails)
       /\ mem' = [mem EXCEPT ![h] = store]
       /\ PersistJobs(store, fails)
  /\ UNCHANGED <<now, up, inflight, asking, loop, turns, runsMade, slot, stranded, removed>>

(* updateJob: the slot is computed anew from the last run, or from now. *)
UpdateJob(h, j) ==
  /\ Free(h) /\ mem[h].jobs[j] # NoJob
  /\ \E enabled \in BOOLEAN, fails \in BOOLEAN :
       LET job == [mem[h].jobs[j] EXCEPT !.enabled = enabled]
           from == IF job.last = None THEN now ELSE job.last
           store == [mem[h] EXCEPT !.jobs[j] = [job EXCEPT !.next = Slot(job, from)]]
       IN
       /\ Spend(1, fails)
       /\ mem' = [mem EXCEPT ![h] = store]
       /\ PersistJobs(store, fails)
  /\ slot' = [slot EXCEPT ![j] = None]
  /\ UNCHANGED <<now, up, inflight, asking, loop, turns, runsMade, stranded, removed>>

(* removeJob drops the runs too, also that of a turn under way. *)
RemoveJob(h, j) ==
  /\ Free(h) /\ mem[h].jobs[j] # NoJob
  /\ \E fails \in BOOLEAN :
       LET store == [jobs |-> [mem[h].jobs EXCEPT ![j] = NoJob],
                     runs |-> {r \in mem[h].runs : r.job # j}]
       IN
       /\ Spend(1, fails)
       /\ mem' = [mem EXCEPT ![h] = store]
       /\ Persist(store, fails)
       /\ removed' = IF fails THEN removed ELSE removed \cup {j}
  /\ UNCHANGED <<now, up, inflight, asking, loop, turns, runsMade, slot, stranded>>

-----------------------------------------------------------------------------
(* Firing *)

(* fire: beginRun, the turn's conversation, the turn. *)
Fire(h, j, at, inputs) ==
  LET run == [id |-> runsMade + 1, job |-> j, running |-> TRUE]
      store == [jobs |-> [mem[h].jobs EXCEPT ![j].last = at, ![j].status = "running"],
                runs |-> mem[h].runs \cup {run}]
  IN \E fails \in BOOLEAN :
  /\ Spend(inputs, fails)
  /\ mem' = [mem EXCEPT ![h] = store]
  /\ Persist(store, fails)
  /\ runsMade' = runsMade + 1
  /\ inflight' = [inflight EXCEPT ![h] = @ \cup {j}]
  /\ turns' = turns \cup {[host |-> h, job |-> j, id |-> runsMade + 1]}

(* tick up to its await: the files are read, the server is asked for.  The *)
(* interval may come round again before the answer.                        *)
Tick(h) ==
  /\ Free(h) /\ \A a \in asking[h] : a.at < now
  /\ mem' = [mem EXCEPT ![h] = Load(disk)]
  /\ asking' = [asking EXCEPT ![h] =
       @ \cup {[at |-> now, defer |-> h # Server /\ Server \in Hosts /\ up[Server]]}]
  /\ UNCHANGED <<now, disk, up, inflight, loop, turns, runsMade, count, slot, stranded, removed>>

(* The answer: the jobs that were due when the tick began are gone through *)
(* in one go.                                                              *)
Answer(h) ==
  /\ Free(h)
  /\ \E a \in asking[h] :
       /\ asking' = [asking EXCEPT ![h] = @ \ {a}]
       /\ loop' = [loop EXCEPT ![h] =
            IF a.defer \/ Due(h, a.at) = {} THEN NoLoop ELSE [at |-> a.at, todo |-> Due(h, a.at)]]
  /\ UNCHANGED <<now, disk, mem, up, inflight, turns, runsMade, count, slot, stranded, removed>>

(* One job of the loop. *)
LoopStep(h, j) ==
  LET l == loop[h] IN
  /\ up[h] /\ j \in l.todo
  /\ loop' = [loop EXCEPT ![h] = IF l.todo = {j} THEN NoLoop ELSE [l EXCEPT !.todo = @ \ {j}]]
  /\ IF j \in inflight[h]
     THEN UNCHANGED <<disk, mem, inflight, turns, runsMade, count, slot>>
     ELSE /\ Fire(h, j, l.at, 0)
          /\ slot' = [slot EXCEPT ![j] = mem[h].jobs[j].next]
  /\ UNCHANGED <<now, up, asking, stranded, removed>>

(* A run of another job begins and ends; its record stays in the list. *)
OtherRuns(h) ==
  LET store == [mem[h] EXCEPT !.runs = @ \cup {[id |-> runsMade + 1, job |-> OtherJob, running |-> FALSE]}] IN
  /\ Free(h)
  /\ \E fails \in BOOLEAN : Spend(1, fails) /\ Persist(store, fails)
  /\ mem' = [mem EXCEPT ![h] = store]
  /\ runsMade' = runsMade + 1
  /\ UNCHANGED <<now, up, inflight, asking, loop, turns, slot, stranded, removed>>

\* Mutant of Busy: only the stored runs are asked.
BusyByRecord(h, j) == \E r \in mem[h].runs : r.job = j /\ r.running
Busy(h, j) == j \in inflight[h] \/ \E r \in mem[h].runs : r.job = j /\ r.running

RunNow(h, j) ==
  /\ Free(h) /\ mem[h].jobs[j] # NoJob
  /\ ~Busy(h, j)
  /\ Fire(h, j, now, 1)
  /\ UNCHANGED <<now, up, asking, loop, slot, stranded, removed>>

-----------------------------------------------------------------------------
(* The end of a turn *)

\* Mutant of Finished: the next slot is counted from the start of the run.
FinishedFromStart(job, ok) ==
  [job EXCEPT !.status = IF ok THEN "ok" ELSE "failed",
              !.next = IF job.enabled /\ job.kind # "once" THEN NextRunAt(job.kind, job.at, job.last) ELSE None,
              !.enabled = IF job.kind = "once" THEN FALSE ELSE @]
(* finishRun, for the job. *)
Finished(job, ok) ==
  [job EXCEPT !.status = IF ok THEN "ok" ELSE "failed",
              !.next = IF job.enabled /\ job.kind # "once" THEN NextRunAt(job.kind, job.at, now + 1) ELSE None,
              !.enabled = IF job.kind = "once" THEN FALSE ELSE @]

\* Mutant of Released: a turn that failed keeps its job in flight.
ReleasedIfOk(h, j, ok) == IF ok THEN inflight[h] \ {j} ELSE inflight[h]
Released(h, j, ok) == inflight[h] \ {j}

(* Newer runs have pushed this one out of the list. *)
Crowded(t) == runsMade - t.id >= RunsKept

(* onTurnEnd: nothing is done for a run the store does not know. *)
TurnEnds(t) ==
  LET h == t.host
      known == {r \in mem[h].runs : r.id = t.id /\ r.running}
  IN
  /\ Free(h)
  /\ turns' = turns \ {t}
  /\ IF known = {}
     THEN /\ stranded' = IF Crowded(t) \/ count.failures > 0 \/ t.job \in removed
                         THEN stranded \cup {t.job} ELSE stranded
          /\ UNCHANGED <<disk, mem, inflight, count>>
     ELSE \E ok \in BOOLEAN, fails \in BOOLEAN :
          LET j == t.job
              store == [jobs |-> IF mem[h].jobs[j] = NoJob THEN mem[h].jobs
                                 ELSE [mem[h].jobs EXCEPT ![j] = Finished(@, ok)],
                        runs |-> (mem[h].runs \ known) \cup {[r EXCEPT !.running = FALSE] : r \in known}]
          IN
          /\ Spend(0, fails)
          /\ mem' = [mem EXCEPT ![h] = store]
          /\ Persist(store, fails)
          /\ inflight' = [inflight EXCEPT ![h] = Released(h, j, ok)]
          /\ stranded' = IF fails THEN stranded \cup {j} ELSE stranded
  /\ UNCHANGED <<now, up, asking, loop, runsMade, slot, removed>>

(* The user deletes the conversation of a running turn: its end finds none. *)
DropConversation(t) ==
  /\ Free(t.host) /\ Input
  /\ turns' = turns \ {t}
  /\ stranded' = stranded \cup {t.job}
  /\ UNCHANGED <<now, disk, mem, up, inflight, asking, loop, runsMade, slot, removed>>

-----------------------------------------------------------------------------
(* The process *)

Start(h) ==
  /\ ~up[h] /\ Input
  /\ up' = [up EXCEPT ![h] = TRUE]
  /\ mem' = [mem EXCEPT ![h] = Load(disk)]
  /\ UNCHANGED <<now, disk, inflight, asking, loop, turns, runsMade, slot, stranded, removed>>

(* A host quits or crashes: its turns end without anybody being told. *)
Crash(h) ==
  /\ up[h] /\ Input
  /\ up' = [up EXCEPT ![h] = FALSE]
  /\ inflight' = [inflight EXCEPT ![h] = {}]
  /\ asking' = [asking EXCEPT ![h] = {}]
  /\ loop' = [loop EXCEPT ![h] = NoLoop]
  /\ turns' = {t \in turns : t.host # h}
  /\ stranded' = stranded \cup {t.job : t \in {u \in turns : u.host = h}}
  /\ UNCHANGED <<now, disk, mem, runsMade, slot, removed>>

Advance ==
  /\ now < MaxTime /\ now' = now + 1
  /\ UNCHANGED <<disk, mem, up, inflight, asking, loop, turns, runsMade, count, slot, stranded, removed>>

Init ==
  /\ now = 0
  /\ disk = [jobs |-> [j \in Jobs |-> NoJob], runs |-> {}]
  /\ mem = [h \in Hosts |-> disk]
  /\ up = [h \in Hosts |-> TRUE]
  /\ inflight = [h \in Hosts |-> {}] /\ asking = [h \in Hosts |-> {}]
  /\ loop = [h \in Hosts |-> NoLoop]
  /\ turns = {} /\ runsMade = 0
  /\ count = [inputs |-> 0, failures |-> 0]
  /\ slot = [j \in Jobs |-> None] /\ stranded = {} /\ removed = {}

Next ==
  \/ Advance
  \/ \E h \in Hosts : Tick(h) \/ Answer(h) \/ Start(h) \/ Crash(h) \/ OtherRuns(h)
  \/ \E h \in Hosts, j \in Jobs :
       CreateJob(h, j) \/ UpdateJob(h, j) \/ RemoveJob(h, j) \/ RunNow(h, j) \/ LoopStep(h, j)
  \/ \E t \in turns : TurnEnds(t) \/ DropConversation(t)

Spec == Init /\ [][Next]_vars

(* The interval fires, the probe answers and a loop goes on; turns need    *)
(* not end, and users need not do anything.                                *)
Fairness ==
  \A h \in Hosts : WF_vars(Tick(h)) /\ WF_vars(Answer(h)) /\ WF_vars(\E j \in Jobs : LoopStep(h, j))

FairSpec == Spec /\ Fairness

-----------------------------------------------------------------------------
(* Properties *)

JobType ==
  {NoJob} \cup
  [kind : Kinds, at : 0 .. MaxTime, created : 0 .. MaxTime, enabled : BOOLEAN, last : 0 .. MaxTime \cup {None},
   next : Times \cup {None}, status : {"none", "ok", "failed", "running"}]
RunType == [id : Nat \ {0}, job : Jobs \cup {OtherJob}, running : BOOLEAN]
StoreType == [jobs : [Jobs -> JobType], runs : SUBSET RunType]

(* Types; a loop goes through jobs that exist. *)
TypeOK ==
  /\ now \in 0 .. MaxTime
  /\ disk \in StoreType /\ mem \in [Hosts -> StoreType]
  /\ up \in [Hosts -> BOOLEAN]
  /\ inflight \in [Hosts -> SUBSET Jobs]
  /\ asking \in [Hosts -> SUBSET [at : 0 .. MaxTime, defer : BOOLEAN]]
  /\ loop \in [Hosts -> [at : 0 .. MaxTime \cup {None}, todo : SUBSET Jobs]]
  /\ \A h \in Hosts, j \in Jobs : j \in loop[h].todo => loop[h].at # None /\ mem[h].jobs[j] # NoJob
  /\ turns \subseteq [host : Hosts, job : Jobs, id : Nat]
  /\ runsMade \in Nat
  /\ slot \in [Jobs -> Times \cup {None}] /\ stranded \subseteq Jobs /\ removed \subseteq Jobs

(* A job never has two turns at a time: neither ticks that overlap while   *)
(* the server is asked for, nor a reload of files that could not be        *)
(* written, nor a Run from the user beside the clock, starts a second one. *)
OneTurnPerJob == \A t, u \in turns : t.job = u.job => t = u

(* A job that the scheduler holds for running has a turn: else neither the *)
(* clock nor Run would ever start it again.  The jobs whose turn the code  *)
(* is known to lose are excepted: the process ended, the conversation or   *)
(* the job was deleted meanwhile, a write failed, or the run fell off the  *)
(* end of the list.                                                        *)
BusyHasATurn ==
  \A h \in Hosts, j \in Jobs :
    /\ up[h] /\ j \notin stranded
    /\ mem[h].jobs[j].status = "running" \/ Busy(h, j)
    => \E t \in turns : t.job = j

(* The clock fires each slot of a job once, however late the tick, however *)
(* short the run and across restarts and reloads: what a tick starts is    *)
(* later than the slot it started before, as long as nobody edits the job  *)
(* and every write succeeds.                                               *)
SlotsFireOnce ==
  [][\A h \in Hosts, j \in Jobs :
       j \in loop[h].todo /\ j \in inflight'[h] \ inflight[h] /\ count'.failures = 0
         => mem[h].jobs[j].next > slot[j]]_vars

(* A job that is due is started in the end, or is edited or removed: a     *)
(* tick that comes late or a deferral that ends does not skip it.          *)
DueJobsStart ==
  \A h \in Hosts, j \in Jobs :
    LET job == mem[h].jobs[j]
        overdue == job.enabled /\ job.next # None /\ job.next <= now /\ job.status # "running"
    IN up[h] /\ overdue ~> ~up[h] \/ ~overdue \/ j \in stranded \/ count.failures > 0

=============================================================================
