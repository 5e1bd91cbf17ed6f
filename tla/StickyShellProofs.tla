------------------------- MODULE StickyShellProofs -------------------------
(***************************************************************************)
(* What StickyShell promises, for any number of commands, directories and  *)
(* changes of the session.                                                 *)
(*                                                                         *)
(* NothingIsLeaked and OneCommandPerShell are not inductive: they need to  *)
(* know that the command under way is the pending head of the queue, which *)
(* of the three processes it runs in and that the others are free of it,   *)
(* and that a shell between two commands has nothing to do.  IInv adds     *)
(* this, and the meaning of stopReason that StopIsReported rests on.       *)
(***************************************************************************)
EXTENDS StickyShell, TLAPS

Hows == {"idle", "sticky", "oneShot", "background"}
Tasks == [kind : {"silent", "run", "background"}, cmd : 0 .. MaxCommands, env : -1 .. MaxInputs]
Jobs == [how : Hows, cmd : 0 .. MaxCommands, proc : Nat, timedOut : BOOLEAN, cancelled : BOOLEAN]

(* The types of what refers to a process. *)
Refs ==
  /\ job \in Jobs
  /\ procs \in Seq(ProcType)
  /\ job.proc <= Len(procs)
  /\ child \in 0 .. Len(procs)
  /\ background \in 0 .. Len(procs)
  /\ oneShot \in 0 .. Len(procs)

(* The types of the rest. *)
Data ==
  /\ queue \in Seq(Tasks)
  /\ stopReason \in {"null", "cancel", "timeout"}
  /\ cwd \in Dirs /\ inputs \in 0 .. MaxInputs /\ secrets \in 0 .. inputs
  /\ aborted \subseteq Commands
  /\ result \in [Commands -> Outcomes]
  /\ given \in [Commands -> [dir : Dirs, env : 0 .. MaxInputs] \cup {Unused}]

Typed == Refs /\ Data

(* What is queued is pending, and queued once. *)
QueueOK ==
  /\ \A i \in DOMAIN queue :
       IF queue[i].kind = "silent" THEN queue[i].env >= 0
       ELSE queue[i].cmd \in Commands /\ result[queue[i].cmd] = "pending"
  /\ \A i, k \in DOMAIN queue :
       queue[i].kind # "silent" /\ queue[k].kind # "silent" /\ queue[i].cmd = queue[k].cmd => i = k

(* The command under way is the head of the queue. *)
JobOK ==
  /\ job.how = "idle" => job = Idle
  /\ job.how # "idle" =>
       /\ queue # << >> /\ queue[1].kind # "silent" /\ queue[1].cmd = job.cmd
       /\ job.proc # Nobody

(* What the fields hold of the command under way. *)
Fields ==
  /\ job.how = "sticky" => child \in {Nobody, job.proc}
  /\ job.how = "sticky" /\ procs[job.proc].state = "alive" => child = job.proc
  /\ oneShot # Nobody => job.how = "oneShot" /\ job.proc = oneShot
  /\ job.how = "oneShot" => child = Nobody
  /\ job.how = "background" => job.cmd \in procs[job.proc].cmds

(* The reason of a Stop is there exactly while it concerns the command.    *)
Reasons ==
  /\ stopReason # "timeout"
  /\ job.how = "sticky" => (stopReason = "cancel" <=> job.cmd \in stopped)
  /\ \A c \in stopped :
       /\ c \in Commands /\ result[c] # "none"
       /\ result[c] = "pending" => job.how # "idle" /\ job.cmd = c

(* Between the commands of the sticky shell it has nothing to do. *)
Quiet ==
  \A p \in Pids : procs[p].state = "alive" /\ p = child =>
    procs[p].cmds \subseteq (IF job.how = "sticky" THEN {job.cmd} ELSE {})

(* The sticky shell is where the session is. *)
SameDir == \A p \in Pids : p = child => procs[p].dir = cwd

(* A background command that runs is settling or detached. *)
BackgroundOK ==
  \A p \in Pids : procs[p].state = "alive" /\ p = background =>
    (\E c \in procs[p].cmds : result[c] = "detached") \/ (job.how = "background" /\ job.proc = p)

(* The three processes are different ones. *)
Apart == child # Nobody => child # background /\ child # oneShot

IInv ==
  /\ Typed /\ QueueOK /\ JobOK /\ Fields /\ BackgroundOK /\ Apart
  /\ Reasons /\ SameDir /\ NothingIsLeaked /\ Quiet

USE ShellAssumption DEF Commands, Pids, Nobody, Jobs

-----------------------------------------------------------------------------
(* What the operations on the processes and the queue return *)

LEMMA WriteType ==
  ASSUME procs \in Seq(ProcType), NEW p \in DOMAIN procs, NEW rec \in ProcType
  PROVE  /\ Write(p, rec) \in Seq(ProcType) /\ Len(Write(p, rec)) = Len(procs)
         /\ DOMAIN Write(p, rec) = DOMAIN procs
         /\ \A q \in DOMAIN procs : Write(p, rec)[q] = IF q = p THEN rec ELSE procs[q]
BY DEF Write

(* A spawned process comes last and changes no other. *)
LEMMA SpawnType ==
  ASSUME procs \in Seq(ProcType), cwd \in Dirs, secrets \in 0 .. MaxInputs, NEW cmds \in SUBSET Commands
  PROVE  LET n == Len(procs) + 1 IN
         /\ Spawned(cmds) \in Seq(ProcType) /\ Len(Spawned(cmds)) = n
         /\ DOMAIN Spawned(cmds) = 1 .. n /\ DOMAIN procs = 1 .. Len(procs) /\ Len(procs) \in Nat
         /\ \A q \in DOMAIN procs : Spawned(cmds)[q] = procs[q]
         /\ Spawned(cmds)[n] \in ProcType
         /\ Spawned(cmds)[n] = [state |-> "alive", dir |-> cwd, env |-> secrets, cmds |-> cmds]
<1> DEFINE rec == [state |-> "alive", dir |-> cwd, env |-> secrets, cmds |-> cmds]
<1>1. rec \in ProcType
  BY DEF ProcType
<1>2. Spawned(cmds) = Append(procs, rec)
  BY DEF Spawned
<1> HIDE DEF rec
<1>3. LET n == Len(procs) + 1 IN
      /\ Spawned(cmds) \in Seq(ProcType) /\ Len(Spawned(cmds)) = n
      /\ DOMAIN Spawned(cmds) = 1 .. n /\ DOMAIN procs = 1 .. Len(procs) /\ Len(procs) \in Nat
      /\ \A q \in DOMAIN procs : Spawned(cmds)[q] = procs[q]
      /\ Spawned(cmds)[n] = rec
  BY <1>1, <1>2
<1> QED
  BY <1>1, <1>3 DEF rec

(* killTree leaves the work, the directory and the secrets of every process *)
(* as they are, and a killed process no longer counts as running.           *)
LEMMA KillType ==
  ASSUME procs \in Seq(ProcType), NEW targets
  PROVE  /\ Kill(procs, targets) \in Seq(ProcType) /\ Len(Kill(procs, targets)) = Len(procs)
         /\ \A q \in DOMAIN procs :
              /\ Kill(procs, targets)[q].cmds = procs[q].cmds
              /\ Kill(procs, targets)[q].dir = procs[q].dir
              /\ Kill(procs, targets)[q].env = procs[q].env
              /\ Kill(procs, targets)[q].state = "alive" => procs[q].state = "alive" /\ q \notin targets
<1> DEFINE ps == Kill(procs, targets)
<1>1. DOMAIN ps = 1 .. Len(procs)
  BY DEF Kill
<1>2. ASSUME NEW q \in DOMAIN procs
      PROVE  /\ ps[q] \in ProcType
             /\ ps[q].cmds = procs[q].cmds /\ ps[q].dir = procs[q].dir /\ ps[q].env = procs[q].env
             /\ ps[q].state = "alive" => procs[q].state = "alive" /\ q \notin targets
  <2>1. procs[q] \in ProcType
    OBVIOUS
  <2>2. ps[q] = IF q \in targets /\ procs[q].state = "alive"
                THEN [procs[q] EXCEPT !.state = "dying"] ELSE procs[q]
    BY DEF Kill
  <2> HIDE DEF ps
  <2> QED
    BY <2>1, <2>2 DEF ProcType
<1>3. ps \in Seq(ProcType)
  <2>1. \A q \in 1 .. Len(procs) : ps[q] \in ProcType
    BY <1>2
  <2>2. Len(procs) \in Nat /\ ps = [q \in 1 .. Len(procs) |-> ps[q]]
    BY DEF Kill
  <2> HIDE DEF ps
  <2> QED
    BY <2>1, <2>2
<1> QED
  BY <1>1, <1>2, <1>3

(* A task is handed in. *)
LEMMA Pushed ==
  ASSUME Typed, QueueOK, NEW task \in Tasks, queue' = Append(queue, task),
         IF task.kind = "silent" THEN task.env >= 0 /\ result' = result
         ELSE /\ task.cmd \in Commands /\ result[task.cmd] = "none"
              /\ result' = [result EXCEPT ![task.cmd] = "pending"]
  PROVE  /\ queue' \in Seq(Tasks) /\ result' \in [Commands -> Outcomes] /\ QueueOK'
         /\ queue' # << >> /\ (queue # << >> => queue'[1] = queue[1])
<1>1. queue' \in Seq(Tasks)
  BY DEF Typed, Refs, Data
<1>2. /\ Len(queue') = Len(queue) + 1 /\ DOMAIN queue' = 1 .. Len(queue) + 1 /\ DOMAIN queue = 1 .. Len(queue)
      /\ queue'[Len(queue) + 1] = task /\ \A i \in 1 .. Len(queue) : queue'[i] = queue[i]
  BY DEF Typed, Refs, Data
<1>3. result' \in [Commands -> Outcomes]
  BY DEF Typed, Refs, Data, Outcomes
<1>4. Len(queue) \in Nat
  BY DEF Typed, Refs, Data
<1>5. ASSUME NEW i \in DOMAIN queue'
      PROVE  IF queue'[i].kind = "silent" THEN queue'[i].env >= 0
             ELSE queue'[i].cmd \in Commands /\ result'[queue'[i].cmd] = "pending"
  <2>1. CASE i = Len(queue) + 1
    BY <1>2, <2>1 DEF Typed, Refs, Data
  <2>2. CASE i \in DOMAIN queue
    BY <1>2, <2>2 DEF Typed, Data, QueueOK
  <2> QED
    BY <1>2, <1>4, <2>1, <2>2
<1>6. ASSUME NEW i \in DOMAIN queue', NEW k \in DOMAIN queue',
             queue'[i].kind # "silent", queue'[k].kind # "silent", queue'[i].cmd = queue'[k].cmd
      PROVE  i = k
  <2>1. CASE i \in DOMAIN queue /\ k \in DOMAIN queue
    BY <1>2, <1>6, <2>1 DEF QueueOK
  <2>2. CASE i \in DOMAIN queue /\ k = Len(queue) + 1
    BY <1>2, <1>6, <2>2 DEF QueueOK
  <2>3. CASE i = Len(queue) + 1 /\ k \in DOMAIN queue
    BY <1>2, <1>6, <2>3 DEF QueueOK
  <2> QED
    BY <1>2, <1>4, <2>1, <2>2, <2>3
<1> QED
  BY <1>1, <1>2, <1>3, <1>4, <1>5, <1>6 DEF QueueOK

(* The head of the queue is done. *)
LEMMA Popped ==
  ASSUME Typed, QueueOK, queue # << >>, queue' = Tail(queue),
         \/ result' = result
         \/ queue[1].kind # "silent" /\ \E o \in Outcomes : result' = [result EXCEPT ![queue[1].cmd] = o]
  PROVE  queue' \in Seq(Tasks) /\ result' \in [Commands -> Outcomes] /\ QueueOK'
<1>1. queue' \in Seq(Tasks)
  BY DEF Typed, Refs, Data
<1>2. /\ Len(queue) \in Nat \ {0} /\ DOMAIN queue' = 1 .. Len(queue) - 1 /\ DOMAIN queue = 1 .. Len(queue)
      /\ \A i \in 1 .. Len(queue) - 1 : queue'[i] = queue[i + 1]
  BY DEF Typed, Refs, Data
<1>3. result' \in [Commands -> Outcomes]
  BY DEF Typed, Refs, Data
<1>4. ASSUME NEW i \in DOMAIN queue'
      PROVE  IF queue'[i].kind = "silent" THEN queue'[i].env >= 0
             ELSE queue'[i].cmd \in Commands /\ result'[queue'[i].cmd] = "pending"
  <2>1. i + 1 \in DOMAIN queue /\ 1 \in DOMAIN queue /\ i + 1 # 1 /\ queue'[i] = queue[i + 1]
    BY <1>2
  <2>2. CASE queue[i + 1].kind = "silent"
    BY <2>1, <2>2 DEF QueueOK
  <2>3. CASE queue[i + 1].kind # "silent"
    <3>1. queue[i + 1].cmd \in Commands /\ result[queue[i + 1].cmd] = "pending"
      BY <2>1, <2>3 DEF QueueOK
    <3>2. queue[1].kind # "silent" => queue[1].cmd # queue[i + 1].cmd
      BY <2>1, <2>3 DEF QueueOK
    <3>3. result'[queue[i + 1].cmd] = result[queue[i + 1].cmd]
      BY <3>1, <3>2 DEF Typed, Data
    <3> QED
      BY <2>1, <2>3, <3>1, <3>3
  <2> QED
    BY <2>2, <2>3
<1>5. ASSUME NEW i \in DOMAIN queue', NEW k \in DOMAIN queue',
             queue'[i].kind # "silent", queue'[k].kind # "silent", queue'[i].cmd = queue'[k].cmd
      PROVE  i = k
  <2>1. /\ i + 1 \in DOMAIN queue /\ queue'[i] = queue[i + 1]
        /\ k + 1 \in DOMAIN queue /\ queue'[k] = queue[k + 1] /\ i \in Nat /\ k \in Nat
    BY <1>2
  <2>2. i + 1 = k + 1
    BY <1>5, <2>1 DEF QueueOK
  <2> QED
    BY <2>1, <2>2
<1> QED
  BY <1>1, <1>3, <1>4, <1>5 DEF QueueOK

(* Steps that leave the queue alone. *)
LEMMA QueueStays ==
  ASSUME QueueOK, UNCHANGED <<queue, result>>
  PROVE  QueueOK'
BY DEF QueueOK

(* The command under way is pending, at the head of the queue. *)
LEMMA UnderWay ==
  ASSUME Typed, QueueOK, JobOK, job.how # "idle"
  PROVE  /\ queue # << >> /\ queue[1].kind # "silent" /\ queue[1].cmd = job.cmd
         /\ job.cmd \in Commands /\ result[job.cmd] = "pending" /\ job.proc \in DOMAIN procs
<1>1. queue # << >> /\ queue[1].kind # "silent" /\ queue[1].cmd = job.cmd /\ job.proc # Nobody
  BY DEF JobOK
<1>2. 1 \in DOMAIN queue
  BY <1>1 DEF Typed, Refs, Data
<1>3. job.proc \in 0 .. Len(procs) /\ DOMAIN procs = 1 .. Len(procs)
  BY DEF Typed, Refs, Data
<1> QED
  BY <1>1, <1>2, <1>3 DEF QueueOK

(* The same, for a step that need not have a command under way. *)
LEMMA AtWork ==
  ASSUME Typed, QueueOK, JobOK
  PROVE  job.how # "idle" => job.proc \in DOMAIN procs /\ job.cmd \in Commands /\ result[job.cmd] = "pending"
BY UnderWay

(* The command under way ends. *)
LEMMA EndOK ==
  ASSUME IInv, job.how # "idle", NEW outcome \in Outcomes, End(outcome)
  PROVE  /\ job' = Idle /\ queue' \in Seq(Tasks) /\ QueueOK' /\ result' \in [Commands -> Outcomes]
         /\ \A c \in Commands : result[c] = "detached" => result'[c] = "detached"
         /\ \A c \in Commands : c # job.cmd => result'[c] = result[c]
         /\ result'[job.cmd] = outcome /\ job.cmd \in Commands /\ job.proc \in DOMAIN procs
         /\ result[job.cmd] = "pending"
<1>1. Typed /\ QueueOK /\ JobOK
  BY DEF IInv
<1>2. /\ queue # << >> /\ queue[1].kind # "silent" /\ queue[1].cmd = job.cmd
      /\ job.cmd \in Commands /\ result[job.cmd] = "pending" /\ job.proc \in DOMAIN procs
  BY <1>1, UnderWay
<1>3. job' = Idle /\ queue' = Tail(queue) /\ result' = [result EXCEPT ![job.cmd] = outcome]
  BY DEF End
<1>4. queue' \in Seq(Tasks) /\ result' \in [Commands -> Outcomes] /\ QueueOK'
  BY <1>1, <1>2, <1>3, Popped
<1>5. /\ \A c \in Commands : result[c] = "detached" => result'[c] = "detached"
      /\ \A c \in Commands : c # job.cmd => result'[c] = result[c]
      /\ result'[job.cmd] = outcome
  BY <1>1, <1>2, <1>3 DEF Typed, Refs, Data
<1> QED
  BY <1>2, <1>3, <1>4, <1>5

(* A command that ends takes the reason of its Stop with it. *)
LEMMA EndReasons ==
  ASSUME IInv, job.how # "idle", NEW outcome \in Outcomes, outcome # "none", outcome # "pending", End(outcome),
         UNCHANGED stopped, stopReason' # "timeout"
  PROVE  Reasons'
<1>1. /\ job' = Idle /\ \A c \in Commands : c # job.cmd => result'[c] = result[c]
      /\ result'[job.cmd] = outcome
  BY EndOK
<1>2. \A c \in stopped : /\ c \in Commands /\ result[c] # "none"
                         /\ result[c] = "pending" => job.cmd = c
  BY DEF IInv, Reasons
<1>3. ASSUME NEW c \in stopped
      PROVE  c \in Commands /\ result'[c] # "none" /\ result'[c] # "pending"
  <2>1. CASE c = job.cmd
    BY <1>1, <1>2, <2>1
  <2>2. CASE c # job.cmd
    BY <1>1, <1>2, <2>2
  <2> QED
    BY <2>1, <2>2
<1> QED
  BY <1>1, <1>3 DEF Reasons, Idle

(* The head of a queue that may be gone on with. *)
LEMMA ReadyOK ==
  ASSUME IInv, Ready
  PROVE  job = Idle /\ queue # << >> /\ Task = queue[1] /\ 1 \in DOMAIN queue /\ queue[1] \in Tasks
BY DEF IInv, Typed, Data, Ready, Task

-----------------------------------------------------------------------------
(* A change of the secrets is told behind everything queued. *)
LEMMA SetSecretKeeps ==
  ASSUME IInv, SetSecret
  PROVE  IInv'
<1>0. Typed /\ QueueOK /\ JobOK /\ Fields /\ BackgroundOK /\ Apart /\ NothingIsLeaked /\ Quiet /\ Reasons /\ SameDir
  BY DEF IInv
<1>q. queue' \in Seq(Tasks) /\ QueueOK' /\ queue' # << >> /\ (queue # << >> => queue'[1] = queue[1])
  <2> DEFINE task == [kind |-> "silent", cmd |-> 0, env |-> secrets + 1]
  <2>1. task \in Tasks /\ task.env >= 0 /\ task.kind = "silent"
    BY <1>0 DEF Typed, Data, SetSecret, Input, Tasks
  <2>2. queue' = Append(queue, task) /\ result' = result
    BY DEF SetSecret
  <2> HIDE DEF task
  <2> QED
    BY <1>0, <2>1, <2>2, Pushed
<1>1. Refs'
  BY <1>0 DEF Typed, Refs, SetSecret
<1>2. Data'
  BY <1>0, <1>q DEF Typed, Data, SetSecret, Input
<1>3. QueueOK'
  BY <1>q
<1>4. JobOK'
  BY <1>0 DEF JobOK, SetSecret
<1>5. Fields'
  <2>1. (job.how = "sticky" => child \in {Nobody, job.proc})'
    BY <1>0 DEF Fields, SetSecret
  <2>2. (job.how = "sticky" /\ procs[job.proc].state = "alive" => child = job.proc)'
    BY <1>0 DEF Fields, SetSecret
  <2>3. (oneShot # Nobody => job.how = "oneShot" /\ job.proc = oneShot)'
    BY <1>0 DEF Fields, SetSecret
  <2>4. (job.how = "oneShot" => child = Nobody)'
    BY <1>0 DEF Fields, SetSecret
  <2>5. (job.how = "background" => job.cmd \in procs[job.proc].cmds)'
    BY <1>0 DEF Fields, SetSecret
  <2> QED
    BY <2>1, <2>2, <2>3, <2>4, <2>5 DEF Fields
<1>6. BackgroundOK'
  BY <1>0 DEF BackgroundOK, SetSecret
<1>7. Apart'
  BY <1>0 DEF Apart, SetSecret
<1>8. NothingIsLeaked'
  BY <1>0 DEF NothingIsLeaked, SetSecret
<1>9. Quiet'
  BY <1>0 DEF Quiet, SetSecret
<1>10. Reasons'
  BY <1>0 DEF Reasons, SetSecret
<1>11. SameDir'
  BY <1>0 DEF SameDir, SetSecret
<1> QED
  BY <1>1, <1>2, <1>3, <1>4, <1>5, <1>6, <1>7, <1>8, <1>9, <1>10, <1>11 DEF IInv, Typed

(* A change of shell kills all three processes and leaves the command under *)
(* way to its end.                                                          *)
LEMMA SetShellKeeps ==
  ASSUME IInv, SetShell
  PROVE  IInv'
<1>0. Typed /\ QueueOK /\ JobOK /\ Fields /\ BackgroundOK /\ Apart /\ NothingIsLeaked /\ Quiet /\ Reasons /\ SameDir
  BY DEF IInv
<1>j. job.how # "idle" => job.proc \in DOMAIN procs /\ job.cmd \in Commands /\ result[job.cmd] = "pending"
  BY <1>0, AtWork
<1>k. /\ procs' \in Seq(ProcType) /\ Len(procs') = Len(procs) /\ DOMAIN procs' = 1 .. Len(procs)
      /\ DOMAIN procs = 1 .. Len(procs)
      /\ \A q \in DOMAIN procs :
           /\ procs'[q].cmds = procs[q].cmds /\ procs'[q].dir = procs[q].dir
           /\ procs'[q].state = "alive" => procs[q].state = "alive" /\ q \notin {child, background, oneShot}
  BY <1>0, KillType DEF Typed, Refs, SetShell, Dispose, Doomed
<1>l. \A p \in DOMAIN procs : procs[p].state = "alive" /\ p \notin {child, background, oneShot} =>
        \E c \in procs[p].cmds : result[c] = "detached"
  BY <1>0 DEF NothingIsLeaked
<1>1. Refs'
  BY <1>0, <1>k DEF Typed, Refs, SetShell, Dispose
<1>2. Data'
  BY <1>0 DEF Typed, Data, SetShell, Input
<1>3. QueueOK'
  BY <1>0, QueueStays DEF SetShell
<1>4. JobOK'
  BY <1>0 DEF JobOK, SetShell
<1>5. Fields'
  <2>1. (job.how = "sticky" => child \in {Nobody, job.proc})'
    BY <1>l DEF SetShell, Dispose
  <2>2. (job.how = "sticky" /\ procs[job.proc].state = "alive" => child = job.proc)'
    BY <1>0, <1>j, <1>k DEF Fields, SetShell
  <2>3. (oneShot # Nobody => job.how = "oneShot" /\ job.proc = oneShot)'
    BY <1>l DEF SetShell, Dispose
  <2>4. (job.how = "oneShot" => child = Nobody)'
    BY <1>l DEF SetShell, Dispose
  <2>5. (job.how = "background" => job.cmd \in procs[job.proc].cmds)'
    BY <1>0, <1>j, <1>k DEF Fields, SetShell
  <2> QED
    BY <2>1, <2>2, <2>3, <2>4, <2>5 DEF Fields
<1>6. BackgroundOK'
  BY <1>k DEF BackgroundOK, SetShell, Dispose
<1>7. Apart'
  BY <1>l DEF Apart, SetShell, Dispose
<1>8. NothingIsLeaked'
  <2> SUFFICES ASSUME NEW p \in DOMAIN procs, procs'[p].state = "alive"
               PROVE  \E c \in procs'[p].cmds : result'[c] = "detached"
    BY <1>k DEF NothingIsLeaked
  <2>1. PICK c \in procs[p].cmds : result[c] = "detached"
    BY <1>k, <1>l
  <2>2. result' = result /\ procs'[p].cmds = procs[p].cmds
    BY <1>k DEF SetShell
  <2> QED
    BY <2>1, <2>2
<1>9. Quiet'
  BY <1>k DEF Quiet, SetShell, Dispose
<1>10. Reasons'
  BY <1>0 DEF Reasons, SetShell
<1>11. SameDir'
  BY <1>k DEF SameDir, SetShell, Dispose
<1> QED
  BY <1>1, <1>2, <1>3, <1>4, <1>5, <1>6, <1>7, <1>8, <1>9, <1>10, <1>11 DEF IInv, Typed

(* A change of the directory is written to the shell at once. *)
LEMMA SetDirKeeps ==
  ASSUME IInv, NEW d \in Dirs, SetDir(d)
  PROVE  IInv'
<1>0. Typed /\ QueueOK /\ JobOK /\ Fields /\ BackgroundOK /\ Apart /\ NothingIsLeaked /\ Quiet /\ Reasons /\ SameDir
  BY DEF IInv
<1>c. \A p \in DOMAIN procs : procs[p] \in ProcType /\ procs[p].cmds \subseteq Commands
  <2>1. procs \in Seq(ProcType)
    BY <1>0 DEF Typed, Refs
  <2>2. \A p \in DOMAIN procs : procs[p] \in ProcType
    BY <2>1
  <2> QED
    BY <2>2 DEF ProcType
<1>u. /\ cwd' = d /\ inputs' \in 0 .. MaxInputs /\ secrets \in 0 .. inputs'
      /\ UNCHANGED <<queue, job, child, background, oneShot, stopReason, secrets, aborted, result, given, stopped>>
  BY <1>0 DEF Typed, Data, SetDir, Input
<1>w. /\ procs' \in Seq(ProcType) /\ Len(procs') = Len(procs) /\ DOMAIN procs' = DOMAIN procs
      /\ \A q \in DOMAIN procs : procs'[q].state = procs[q].state /\ procs'[q].cmds = procs[q].cmds
      /\ (child # Nobody => procs'[child].dir = d)
  <2>1. CASE child = Nobody
    BY <1>0, <2>1 DEF Typed, Refs, SetDir
  <2>2. CASE child # Nobody
    <3> DEFINE rec == [procs[child] EXCEPT !.dir = d]
    <3>1. child \in DOMAIN procs /\ procs[child] \in ProcType
      BY <1>0, <1>c, <2>2 DEF Typed, Refs
    <3>2. rec \in ProcType /\ rec.state = procs[child].state /\ rec.cmds = procs[child].cmds /\ rec.dir = d
      BY <3>1 DEF ProcType
    <3>3. procs' = Write(child, rec)
      BY <2>2 DEF SetDir
    <3> HIDE DEF rec
    <3>4. procs \in Seq(ProcType)
      BY <1>0 DEF Typed, Refs
    <3>5. /\ procs' \in Seq(ProcType) /\ Len(procs') = Len(procs) /\ DOMAIN procs' = DOMAIN procs
          /\ \A q \in DOMAIN procs : procs'[q] = IF q = child THEN rec ELSE procs[q]
      BY <3>1, <3>2, <3>3, <3>4, WriteType
    <3> QED
      BY <3>1, <3>2, <3>5
  <2> QED
    BY <2>1, <2>2
<1>1. Refs'
  BY <1>0, <1>u, <1>w DEF Typed, Refs
<1>2. Data'
  BY <1>0, <1>u DEF Typed, Data
<1>3. QueueOK'
  BY <1>0, QueueStays DEF SetDir
<1>4. JobOK'
  BY <1>0, <1>u DEF JobOK
<1>5. Fields'
  <2>1. (job.how = "sticky" => child \in {Nobody, job.proc})'
    BY <1>0, <1>u DEF Fields
  <2>2. (job.how = "sticky" /\ procs[job.proc].state = "alive" => child = job.proc)'
    BY <1>0, <1>u, <1>w DEF Typed, Refs, Fields
  <2>3. (oneShot # Nobody => job.how = "oneShot" /\ job.proc = oneShot)'
    BY <1>0, <1>u DEF Fields
  <2>4. (job.how = "oneShot" => child = Nobody)'
    BY <1>0, <1>u DEF Fields
  <2>5. (job.how = "background" => job.cmd \in procs[job.proc].cmds)'
    BY <1>0, <1>u, <1>w DEF Typed, Refs, JobOK, Fields
  <2> QED
    BY <2>1, <2>2, <2>3, <2>4, <2>5 DEF Fields
<1>6. BackgroundOK'
  BY <1>0, <1>u, <1>w DEF BackgroundOK
<1>7. Apart'
  BY <1>0, <1>u DEF Apart
<1>8. NothingIsLeaked'
  BY <1>0, <1>u, <1>w DEF NothingIsLeaked
<1>9. Quiet'
  BY <1>0, <1>u, <1>w DEF Quiet
<1>10. Reasons'
  BY <1>0, <1>u DEF Reasons
<1>11. SameDir'
  BY <1>u, <1>w DEF SameDir
<1> QED
  BY <1>1, <1>2, <1>3, <1>4, <1>5, <1>6, <1>7, <1>8, <1>9, <1>10, <1>11 DEF IInv, Typed

(* A Stop kills all three processes; the reason it leaves is the one of the *)
(* command under way.                                                       *)
LEMMA StopTurnKeeps ==
  ASSUME IInv, StopTurn
  PROVE  IInv'
<1>0. Typed /\ QueueOK /\ JobOK /\ Fields /\ BackgroundOK /\ Apart /\ NothingIsLeaked /\ Quiet /\ Reasons /\ SameDir
  BY DEF IInv
<1>j. job.how # "idle" => job.proc \in DOMAIN procs /\ job.cmd \in Commands /\ result[job.cmd] = "pending"
  BY <1>0, AtWork
<1>c. \A p \in DOMAIN procs : procs[p] \in ProcType /\ procs[p].cmds \subseteq Commands
  <2>1. procs \in Seq(ProcType)
    BY <1>0 DEF Typed, Refs
  <2>2. \A p \in DOMAIN procs : procs[p] \in ProcType
    BY <2>1
  <2> QED
    BY <2>2 DEF ProcType
<1>k. /\ procs' \in Seq(ProcType) /\ Len(procs') = Len(procs) /\ DOMAIN procs' = 1 .. Len(procs)
      /\ DOMAIN procs = 1 .. Len(procs)
      /\ \A q \in DOMAIN procs :
           /\ procs'[q].cmds = procs[q].cmds /\ procs'[q].dir = procs[q].dir
           /\ procs'[q].state = "alive" => procs[q].state = "alive" /\ q \notin {child, background, oneShot}
  BY <1>0, KillType DEF Typed, Refs, StopTurn, Dispose, Doomed
<1>l. \A p \in DOMAIN procs : procs[p].state = "alive" /\ p \notin {child, background, oneShot} =>
        \E c \in procs[p].cmds : result[c] = "detached"
  BY <1>0 DEF NothingIsLeaked
<1>e. /\ child' = Nobody /\ background' = Nobody /\ oneShot' = Nobody
      /\ (job.how = "background" => job' = Idle)
      /\ (job.how # "background" => /\ queue' = queue /\ result' = result
                                    /\ job'.how = job.how /\ job'.cmd = job.cmd /\ job'.proc = job.proc)
      /\ (job = Idle => job' = Idle)
  BY <1>0 DEF Typed, Refs, StopTurn, Dispose, Idle
<1>f. job' \in Jobs
  <2>1. Idle \in Jobs
    BY DEF Idle, Hows
  <2>2. [job EXCEPT !.cancelled = TRUE] \in Jobs
    BY <1>0 DEF Typed, Refs
  <2>3. job' = Idle \/ job' = [job EXCEPT !.cancelled = TRUE] \/ job' = job
    BY DEF StopTurn
  <2> QED
    BY <1>0, <2>1, <2>2, <2>3 DEF Typed, Refs
<1>g. /\ stopReason' \in {"null", "cancel", "timeout"} /\ inputs' \in 0 .. MaxInputs /\ secrets \in 0 .. inputs'
      /\ aborted' \subseteq Commands /\ cwd' = cwd /\ secrets' = secrets /\ given' = given
  BY <1>0 DEF Typed, Data, StopTurn, Input, Pending
<1>s. /\ stopped' = IF job.how = "idle" THEN stopped ELSE stopped \cup {job.cmd}
      /\ stopReason' # "cancel" => job.how = "idle" /\ stopReason' = stopReason
  BY <1>0 DEF JobOK, StopTurn, Idle
<1>q. /\ queue' \in Seq(Tasks) /\ QueueOK' /\ result' \in [Commands -> Outcomes]
      /\ \A c \in Commands : result[c] = "detached" => result'[c] = "detached"
      /\ \A c \in Commands : result'[c] = result[c] \/ (job.how = "background" /\ c = job.cmd)
      /\ (job.how = "background" => result'[job.cmd] = "cancelled")
  <2>1. CASE job.how = "background"
    <3>1. End("cancelled")
      BY <2>1 DEF StopTurn, End
    <3> QED
      BY <2>1, <3>1, EndOK DEF Outcomes
  <2>2. CASE job.how # "background"
    <3>1. UNCHANGED <<result, queue>>
      BY <2>2 DEF StopTurn
    <3>2. QueueOK'
      BY <1>0, <3>1, QueueStays
    <3> QED
      BY <1>0, <2>2, <3>1, <3>2 DEF Typed, Data
  <2> QED
    BY <2>1, <2>2
<1>1. Refs'
  BY <1>0, <1>e, <1>f, <1>k DEF Typed, Refs, Idle
<1>2. Data'
  BY <1>0, <1>g, <1>q DEF Typed, Data
<1>3. QueueOK'
  BY <1>q
<1>4. JobOK'
  BY <1>0, <1>e DEF JobOK, Idle
<1>5. Fields'
  <2>1. (job.how = "sticky" => child \in {Nobody, job.proc})'
    BY <1>e
  <2>2. (job.how = "sticky" /\ procs[job.proc].state = "alive" => child = job.proc)'
    BY <1>0, <1>e, <1>k DEF Typed, Refs, Fields, Idle
  <2>3. (oneShot # Nobody => job.how = "oneShot" /\ job.proc = oneShot)'
    BY <1>e
  <2>4. (job.how = "oneShot" => child = Nobody)'
    BY <1>e
  <2>5. (job.how = "background" => job.cmd \in procs[job.proc].cmds)'
    BY <1>e DEF Idle
  <2> QED
    BY <2>1, <2>2, <2>3, <2>4, <2>5 DEF Fields
<1>6. BackgroundOK'
  BY <1>e, <1>q, <1>s DEF BackgroundOK, Idle
<1>7. Apart'
  BY <1>e DEF Apart
<1>8. NothingIsLeaked'
  <2> SUFFICES ASSUME NEW p \in DOMAIN procs, procs'[p].state = "alive"
               PROVE  \E c \in procs'[p].cmds : result'[c] = "detached"
    BY <1>k DEF NothingIsLeaked
  <2>1. PICK c \in procs[p].cmds : result[c] = "detached"
    BY <1>k, <1>l
  <2> QED
    BY <1>c, <1>k, <1>q, <2>1
<1>9. Quiet'
  BY <1>e, <1>k DEF Quiet
<1>10. Reasons'
  BY <1>0, <1>j, <1>e, <1>g, <1>l, <1>q, <1>s DEF Reasons, Idle
<1>11. SameDir'
  BY <1>e, <1>k DEF SameDir
<1> QED
  BY <1>1, <1>2, <1>3, <1>4, <1>5, <1>6, <1>7, <1>8, <1>9, <1>10, <1>11 DEF IInv, Typed

(* A command is handed in behind everything queued. *)
LEMMA EnqueueKeeps ==
  ASSUME IInv, NEW c \in Commands, NEW kind \in {"run", "background"}, Enqueue(c, kind)
  PROVE  IInv'
<1>0. Typed /\ QueueOK /\ JobOK /\ Fields /\ BackgroundOK /\ Apart /\ NothingIsLeaked /\ Quiet /\ Reasons /\ SameDir
  BY DEF IInv
<1>c. \A p \in DOMAIN procs : procs[p] \in ProcType /\ procs[p].cmds \subseteq Commands
  <2>1. procs \in Seq(ProcType)
    BY <1>0 DEF Typed, Refs
  <2>2. \A p \in DOMAIN procs : procs[p] \in ProcType
    BY <2>1
  <2> QED
    BY <2>2 DEF ProcType
<1>u. UNCHANGED <<job, child, background, oneShot, stopReason, cwd, secrets, procs, aborted, inputs, given, stopped>>
  BY DEF Enqueue
<1>q. /\ queue' \in Seq(Tasks) /\ QueueOK' /\ queue' # << >> /\ (queue # << >> => queue'[1] = queue[1])
      /\ result[c] = "none" /\ result' = [result EXCEPT ![c] = "pending"]
      /\ result' \in [Commands -> Outcomes] /\ \A d \in Commands : result[d] = "detached" => result'[d] = "detached"
  <2> DEFINE task == [kind |-> kind, cmd |-> c, env |-> -1]
  <2>1. task \in Tasks /\ task.kind # "silent" /\ task.cmd = c
    BY DEF Tasks
  <2>2. queue' = Append(queue, task) /\ result[c] = "none" /\ result' = [result EXCEPT ![c] = "pending"]
    BY DEF Enqueue
  <2>3. \A d \in Commands : result[d] = "detached" => result'[d] = "detached"
    BY <1>0, <2>2 DEF Typed, Refs, Data
  <2> HIDE DEF task
  <2> QED
    BY <1>0, <2>1, <2>2, <2>3, Pushed
<1>1. Refs'
  BY <1>0, <1>u DEF Typed, Refs
<1>2. Data'
  BY <1>0, <1>q, <1>u DEF Typed, Data
<1>3. QueueOK'
  BY <1>q
<1>4. JobOK'
  BY <1>0, <1>q, <1>u DEF JobOK
<1>5. Fields'
  <2>1. (job.how = "sticky" => child \in {Nobody, job.proc})'
    BY <1>0, <1>u DEF Fields
  <2>2. (job.how = "sticky" /\ procs[job.proc].state = "alive" => child = job.proc)'
    BY <1>0, <1>u DEF Fields
  <2>3. (oneShot # Nobody => job.how = "oneShot" /\ job.proc = oneShot)'
    BY <1>0, <1>u DEF Fields
  <2>4. (job.how = "oneShot" => child = Nobody)'
    BY <1>0, <1>u DEF Fields
  <2>5. (job.how = "background" => job.cmd \in procs[job.proc].cmds)'
    BY <1>0, <1>u DEF Fields
  <2> QED
    BY <2>1, <2>2, <2>3, <2>4, <2>5 DEF Fields
<1>6. BackgroundOK'
  BY <1>0, <1>c, <1>q, <1>u DEF BackgroundOK
<1>7. Apart'
  BY <1>0, <1>u DEF Apart
<1>8. NothingIsLeaked'
  BY <1>0, <1>c, <1>q, <1>u DEF NothingIsLeaked
<1>9. Quiet'
  BY <1>0, <1>u DEF Quiet
<1>10. Reasons'
  <2>1. \A d \in stopped : d \in Commands /\ result'[d] = result[d]
    <3> SUFFICES ASSUME NEW d \in stopped PROVE d \in Commands /\ result'[d] = result[d]
      OBVIOUS
    <3>1. d \in Commands /\ result[d] # "none"
      BY <1>0 DEF Reasons
    <3> QED
      BY <1>0, <1>q, <3>1 DEF Typed, Data
  <2>2. stopReason' # "timeout" /\ (job'.how = "sticky" => (stopReason' = "cancel" <=> job'.cmd \in stopped'))
    BY <1>0, <1>u DEF Reasons
  <2>3. ASSUME NEW d \in stopped'
        PROVE  /\ d \in Commands /\ result'[d] # "none"
               /\ result'[d] = "pending" => job'.how # "idle" /\ job'.cmd = d
    BY <1>0, <1>u, <2>1 DEF Reasons
  <2> QED
    BY <2>2, <2>3 DEF Reasons
<1>11. SameDir'
  BY <1>0, <1>u DEF SameDir
<1> QED
  BY <1>1, <1>2, <1>3, <1>4, <1>5, <1>6, <1>7, <1>8, <1>9, <1>10, <1>11 DEF IInv, Typed

(* A command goes to a shell that had nothing to do, or to a new one. *)
LEMMA ExecuteStickyKeeps ==
  ASSUME IInv, NEW c \in Commands, ExecuteSticky(c)
  PROVE  IInv'
<1>0. Typed /\ QueueOK /\ JobOK /\ Fields /\ BackgroundOK /\ Apart /\ NothingIsLeaked /\ Quiet /\ Reasons /\ SameDir
  BY DEF IInv
<1>c. \A p \in DOMAIN procs : procs[p] \in ProcType /\ procs[p].cmds \subseteq Commands
  <2>1. procs \in Seq(ProcType)
    BY <1>0 DEF Typed, Refs
  <2>2. \A p \in DOMAIN procs : procs[p] \in ProcType
    BY <2>1
  <2> QED
    BY <2>2 DEF ProcType
<1>r. job = Idle /\ queue # << >> /\ queue[1].kind = "run" /\ queue[1].cmd = c /\ result[c] = "pending"
  <2>1. Ready /\ Task = [kind |-> "run", cmd |-> c, env |-> -1]
    BY DEF ExecuteSticky
  <2>2. job = Idle /\ queue # << >> /\ Task = queue[1] /\ 1 \in DOMAIN queue
    BY <2>1, ReadyOK
  <2> QED
    BY <1>0, <2>1, <2>2 DEF QueueOK
<1>i. secrets \in 0 .. MaxInputs /\ cwd \in Dirs /\ procs \in Seq(ProcType) /\ {c} \in SUBSET Commands
  BY <1>0 DEF Typed, Refs, Data
<1>a. c \in Commands /\ c # 0 /\ 0 \notin Commands
  OBVIOUS
<1>o. oneShot = Nobody /\ job.how = "idle" /\ job.cmd = 0
  BY <1>0, <1>r DEF Fields, Idle
<1>p. /\ procs' \in Seq(ProcType) /\ DOMAIN procs' = 1 .. Len(procs') /\ DOMAIN procs = 1 .. Len(procs)
      /\ Len(procs') \in Nat /\ Len(procs) \in Nat /\ Len(procs) <= Len(procs')
      /\ child' \in 1 .. Len(procs') /\ procs'[child'] \in ProcType
      /\ \A q \in DOMAIN procs \ {child'} : procs'[q] = procs[q]
      /\ \A q \in DOMAIN procs' : q \in DOMAIN procs \/ q = child'
      /\ (child # Nobody => /\ child' = child /\ child \in DOMAIN procs /\ procs'[child'].dir = procs[child].dir
                            /\ procs'[child'].state = procs[child].state
                            /\ procs'[child'].cmds = procs[child].cmds \cup {c})
      /\ (child = Nobody => /\ child' = Len(procs) + 1 /\ procs'[child'].dir = cwd
                            /\ procs'[child'].cmds = {c})
  <2>1. CASE child = Nobody
    <3>1. procs' = Spawned({c}) /\ child' = Len(procs) + 1
      BY <2>1 DEF ExecuteSticky, NewPid
    <3>2. /\ procs' \in Seq(ProcType) /\ Len(procs') = Len(procs) + 1 /\ DOMAIN procs' = 1 .. Len(procs) + 1
          /\ DOMAIN procs = 1 .. Len(procs) /\ Len(procs) \in Nat /\ procs'[Len(procs) + 1] \in ProcType
          /\ \A q \in DOMAIN procs : procs'[q] = procs[q]
          /\ procs'[Len(procs) + 1] = [state |-> "alive", dir |-> cwd, env |-> secrets, cmds |-> {c}]
      BY <1>i, <3>1, SpawnType
    <3>3. Len(procs') = child' /\ child' = Len(procs) + 1 /\ child' \in 1 .. Len(procs') /\ DOMAIN procs' = 1 .. Len(procs')
      BY <3>1, <3>2
    <3>4. procs'[child'] = procs'[Len(procs) + 1]
      BY <3>3
    <3>5. procs'[child'] \in ProcType /\ procs'[child'].dir = cwd /\ procs'[child'].cmds = {c}
      BY <3>2, <3>4
    <3>6. /\ \A q \in DOMAIN procs \ {child'} : procs'[q] = procs[q]
          /\ \A q \in DOMAIN procs' : q \in DOMAIN procs \/ q = child'
      <4>1. DOMAIN procs = 1 .. Len(procs) /\ DOMAIN procs' = 1 .. Len(procs) + 1 /\ Len(procs) \in Nat
        BY <3>2
      <4>2. \A q \in DOMAIN procs : procs'[q] = procs[q]
        BY <3>2
      <4> QED
        BY <3>3, <4>1, <4>2
    <3> QED
      BY <2>1, <3>2, <3>3, <3>5, <3>6
  <2>2. CASE child # Nobody
    <3> DEFINE rec == [procs[child] EXCEPT !.cmds = @ \cup {c}]
    <3>1. child \in DOMAIN procs /\ procs[child] \in ProcType /\ DOMAIN procs = 1 .. Len(procs)
      BY <1>0, <1>c, <2>2 DEF Typed, Refs
    <3>2. /\ rec \in ProcType /\ rec.state = procs[child].state /\ rec.dir = procs[child].dir
          /\ rec.cmds = procs[child].cmds \cup {c}
      BY <3>1 DEF ProcType
    <3>3. procs' = Write(child, rec) /\ child' = child
      BY <2>2 DEF ExecuteSticky
    <3> HIDE DEF rec
    <3>5. procs \in Seq(ProcType) /\ Len(procs) \in Nat
      BY <1>i
    <3>4. /\ procs' \in Seq(ProcType) /\ Len(procs') = Len(procs) /\ DOMAIN procs' = DOMAIN procs
          /\ \A q \in DOMAIN procs : procs'[q] = IF q = child THEN rec ELSE procs[q]
      <4>1. /\ Write(child, rec) \in Seq(ProcType) /\ Len(Write(child, rec)) = Len(procs)
            /\ DOMAIN Write(child, rec) = DOMAIN procs
            /\ \A q \in DOMAIN procs : Write(child, rec)[q] = IF q = child THEN rec ELSE procs[q]
        BY <3>1, <3>2, <3>5, WriteType
      <4> QED
        BY <3>3, <4>1
    <3> QED
      BY <2>2, <3>1, <3>2, <3>3, <3>4, <3>5
  <2> QED
    BY <2>1, <2>2
<1>b. /\ job' = [Idle EXCEPT !.how = "sticky", !.cmd = c, !.proc = child']
      /\ given' = [given EXCEPT ![c] = [dir |-> procs'[child'].dir, env |-> procs'[child'].env]]
      /\ UNCHANGED <<queue, cwd, secrets, aborted, result, inputs, stopped>>
  BY DEF ExecuteSticky, Begin, NewPid
<1>d. /\ job' \in Jobs
      /\ job'.how = "sticky" /\ job'.cmd = c /\ job'.proc = child'
  <2>1. job' = [how |-> "sticky", cmd |-> c, proc |-> child', timedOut |-> FALSE, cancelled |-> FALSE]
    BY <1>b DEF Idle
  <2>2. child' \in Nat /\ c \in 0 .. MaxCommands
    BY <1>p
  <2> QED
    BY <2>1, <2>2 DEF Hows
<1>g. given' \in [Commands -> [dir : Dirs, env : 0 .. MaxInputs] \cup {Unused}]
  <2>1. procs'[child'].dir \in Dirs /\ procs'[child'].env \in 0 .. MaxInputs
    BY <1>p DEF ProcType
  <2> QED
    BY <1>0, <1>b, <2>1 DEF Typed, Data
<1>u. stopReason' = "null" /\ UNCHANGED <<background, oneShot>>
  BY DEF ExecuteSticky, ReasonAtStart
<1>1. Refs'
  BY <1>0, <1>d, <1>p, <1>u DEF Typed, Refs
<1>2. Data'
  BY <1>0, <1>b, <1>g, <1>u DEF Typed, Data
<1>3. QueueOK'
  BY <1>0, <1>b, QueueStays
<1>4. JobOK'
  BY <1>b, <1>p, <1>r DEF JobOK
<1>5. Fields'
  <2>1. (job.how = "sticky" => child \in {Nobody, job.proc})'
    BY <1>d
  <2>2. (job.how = "sticky" /\ procs[job.proc].state = "alive" => child = job.proc)'
    BY <1>d
  <2>3. (oneShot # Nobody => job.how = "oneShot" /\ job.proc = oneShot)'
    BY <1>o, <1>u
  <2>4. (job.how = "oneShot" => child = Nobody)'
    BY <1>d
  <2>5. (job.how = "background" => job.cmd \in procs[job.proc].cmds)'
    BY <1>d
  <2> QED
    BY <2>1, <2>2, <2>3, <2>4, <2>5 DEF Fields
<1>6. BackgroundOK'
  BY <1>0, <1>b, <1>p, <1>r, <1>u DEF Typed, Refs, Apart, BackgroundOK, Idle
<1>7. Apart'
  BY <1>0, <1>p, <1>u DEF Typed, Refs, Apart
<1>8. NothingIsLeaked'
  <2> SUFFICES ASSUME NEW p \in DOMAIN procs', procs'[p].state = "alive", p \notin {child', background', oneShot'}
               PROVE  \E d \in procs'[p].cmds : result'[d] = "detached"
    BY DEF NothingIsLeaked
  <2>1. p \in DOMAIN procs /\ procs'[p] = procs[p]
    BY <1>p
  <2>2. p # child /\ p # background /\ p # oneShot
    BY <1>a, <1>p, <1>u, <2>1
  <2>3. \E d \in procs[p].cmds : result[d] = "detached"
    BY <1>0, <2>1, <2>2 DEF NothingIsLeaked
  <2> QED
    BY <1>b, <2>1, <2>3
<1>9. Quiet'
  <2> SUFFICES ASSUME procs'[child'].state = "alive" PROVE procs'[child'].cmds \subseteq {c}
    BY <1>d DEF Quiet
  <2>1. child # Nobody /\ procs[child].state = "alive" => procs[child].cmds = {}
    BY <1>0, <1>o, <1>p DEF Quiet
  <2> QED
    BY <1>a, <1>p, <2>1
<1>10. Reasons'
  BY <1>0, <1>b, <1>r, <1>u DEF Reasons, Idle
<1>11. SameDir'
  BY <1>0, <1>b, <1>p DEF SameDir
<1> QED
  BY <1>1, <1>2, <1>3, <1>4, <1>5, <1>6, <1>7, <1>8, <1>9, <1>10, <1>11 DEF IInv, Typed

(* A command goes to a process of its own when there is no shell. *)
LEMMA ExecuteOneShotKeeps ==
  ASSUME IInv, NEW c \in Commands, ExecuteOneShot(c)
  PROVE  IInv'
<1>0. Typed /\ QueueOK /\ JobOK /\ Fields /\ BackgroundOK /\ Apart /\ NothingIsLeaked /\ Quiet /\ Reasons /\ SameDir
  BY DEF IInv
<1>r. job = Idle /\ queue # << >> /\ queue[1].kind = "run" /\ queue[1].cmd = c /\ result[c] = "pending"
  <2>1. Ready /\ Task = [kind |-> "run", cmd |-> c, env |-> -1]
    BY DEF ExecuteOneShot
  <2>2. job = Idle /\ queue # << >> /\ Task = queue[1] /\ 1 \in DOMAIN queue
    BY <2>1, ReadyOK
  <2> QED
    BY <1>0, <2>1, <2>2 DEF QueueOK
<1>i. secrets \in 0 .. MaxInputs /\ cwd \in Dirs /\ procs \in Seq(ProcType) /\ {c} \in SUBSET Commands
  BY <1>0 DEF Typed, Refs, Data
<1>o. oneShot = Nobody /\ job.how = "idle" /\ job.cmd = 0
  BY <1>0, <1>r DEF Fields, Idle
<1>p. /\ procs' \in Seq(ProcType) /\ Len(procs') = Len(procs) + 1 /\ DOMAIN procs' = 1 .. Len(procs) + 1
      /\ DOMAIN procs = 1 .. Len(procs) /\ Len(procs) \in Nat /\ procs'[Len(procs) + 1] \in ProcType
      /\ \A q \in DOMAIN procs : procs'[q] = procs[q]
      /\ procs'[Len(procs) + 1] = [state |-> "alive", dir |-> cwd, env |-> secrets, cmds |-> {c}]
  <2>1. procs' = Spawned({c})
    BY DEF ExecuteOneShot
  <2> QED
    BY <1>i, <2>1, SpawnType
<1>b. /\ job' = [Idle EXCEPT !.how = "oneShot", !.cmd = c, !.proc = (Len(procs) + 1)]
      /\ given' = [given EXCEPT ![c] = [dir |-> procs'[(Len(procs) + 1)].dir, env |-> procs'[(Len(procs) + 1)].env]]
      /\ UNCHANGED <<queue, cwd, secrets, aborted, result, inputs, stopped>>
  BY DEF ExecuteOneShot, Begin, NewPid
<1>d. /\ job' \in Jobs
      /\ job'.how = "oneShot" /\ job'.cmd = c /\ job'.proc = (Len(procs) + 1)
  <2>1. job' = [how |-> "oneShot", cmd |-> c, proc |-> (Len(procs) + 1), timedOut |-> FALSE, cancelled |-> FALSE]
    BY <1>b DEF Idle
  <2>2. (Len(procs) + 1) \in Nat /\ c \in 0 .. MaxCommands
    BY <1>p
  <2> QED
    BY <2>1, <2>2 DEF Hows
<1>u. child = Nobody /\ oneShot' = Len(procs) + 1 /\ UNCHANGED <<child, background, stopReason>>
  BY DEF ExecuteOneShot, NewPid
<1>1. Refs'
  BY <1>0, <1>d, <1>p, <1>u DEF Typed, Refs
<1>2. Data'
  BY <1>0, <1>b, <1>p, <1>u DEF Typed, Data
<1>3. QueueOK'
  BY <1>0, <1>b, QueueStays
<1>4. JobOK'
  BY <1>b, <1>r DEF JobOK
<1>5. Fields'
  <2>1. (job.how = "sticky" => child \in {Nobody, job.proc})'
    BY <1>u
  <2>2. (job.how = "sticky" /\ procs[job.proc].state = "alive" => child = job.proc)'
    BY <1>d
  <2>3. (oneShot # Nobody => job.how = "oneShot" /\ job.proc = oneShot)'
    BY <1>d, <1>u
  <2>4. (job.how = "oneShot" => child = Nobody)'
    BY <1>u
  <2>5. (job.how = "background" => job.cmd \in procs[job.proc].cmds)'
    BY <1>d
  <2> QED
    BY <2>1, <2>2, <2>3, <2>4, <2>5 DEF Fields
<1>6. BackgroundOK'
  BY <1>0, <1>b, <1>p, <1>r, <1>u DEF Typed, Refs, BackgroundOK, Idle
<1>7. Apart'
  BY <1>u DEF Apart
<1>8. NothingIsLeaked'
  <2> SUFFICES ASSUME NEW p \in DOMAIN procs', procs'[p].state = "alive", p \notin {child', background', oneShot'}
               PROVE  \E d \in procs'[p].cmds : result'[d] = "detached"
    BY DEF NothingIsLeaked
  <2>1. p \in DOMAIN procs /\ procs'[p] = procs[p]
    BY <1>p, <1>u
  <2>2. p # child /\ p # background /\ p # oneShot
    BY <1>o, <1>p, <1>u, <2>1
  <2>3. \E d \in procs[p].cmds : result[d] = "detached"
    BY <1>0, <2>1, <2>2 DEF NothingIsLeaked
  <2> QED
    BY <1>b, <2>1, <2>3
<1>9. Quiet'
  BY <1>p, <1>u DEF Quiet
<1>10. Reasons'
  BY <1>0, <1>b, <1>r, <1>u DEF Reasons, Idle
<1>11. SameDir'
  BY <1>p, <1>u DEF SameDir
<1> QED
  BY <1>1, <1>2, <1>3, <1>4, <1>5, <1>6, <1>7, <1>8, <1>9, <1>10, <1>11 DEF IInv, Typed

(* A replaced background process works for a command that was detached. *)
LEMMA ExecuteBackgroundKeeps ==
  ASSUME IInv, NEW c \in Commands, ExecuteBackground(c)
  PROVE  IInv'
<1>0. Typed /\ QueueOK /\ JobOK /\ Fields /\ BackgroundOK /\ Apart /\ NothingIsLeaked /\ Quiet /\ Reasons /\ SameDir
  BY DEF IInv
<1>r. job = Idle /\ queue # << >> /\ queue[1].kind = "background" /\ queue[1].cmd = c /\ result[c] = "pending"
  <2>1. Ready /\ Task = [kind |-> "background", cmd |-> c, env |-> -1]
    BY DEF ExecuteBackground
  <2>2. job = Idle /\ queue # << >> /\ Task = queue[1] /\ 1 \in DOMAIN queue
    BY <2>1, ReadyOK
  <2> QED
    BY <1>0, <2>1, <2>2 DEF QueueOK
<1>i. secrets \in 0 .. MaxInputs /\ cwd \in Dirs /\ procs \in Seq(ProcType) /\ {c} \in SUBSET Commands
  BY <1>0 DEF Typed, Refs, Data
<1>o. oneShot = Nobody /\ job.how = "idle" /\ job.cmd = 0
  BY <1>0, <1>r DEF Fields, Idle
<1>p. /\ procs' \in Seq(ProcType) /\ Len(procs') = Len(procs) + 1 /\ DOMAIN procs' = 1 .. Len(procs) + 1
      /\ DOMAIN procs = 1 .. Len(procs) /\ Len(procs) \in Nat /\ procs'[Len(procs) + 1] \in ProcType
      /\ \A q \in DOMAIN procs : procs'[q] = procs[q]
      /\ procs'[Len(procs) + 1] = [state |-> "alive", dir |-> cwd, env |-> secrets, cmds |-> {c}]
  <2>1. procs' = Spawned({c})
    BY DEF ExecuteBackground
  <2> QED
    BY <1>i, <2>1, SpawnType
<1>b. /\ job' = [Idle EXCEPT !.how = "background", !.cmd = c, !.proc = (Len(procs) + 1)]
      /\ given' = [given EXCEPT ![c] = [dir |-> procs'[(Len(procs) + 1)].dir, env |-> procs'[(Len(procs) + 1)].env]]
      /\ UNCHANGED <<queue, cwd, secrets, aborted, result, inputs, stopped>>
  BY DEF ExecuteBackground, Begin, NewPid
<1>d. /\ job' \in Jobs
      /\ job'.how = "background" /\ job'.cmd = c /\ job'.proc = (Len(procs) + 1)
  <2>1. job' = [how |-> "background", cmd |-> c, proc |-> (Len(procs) + 1), timedOut |-> FALSE, cancelled |-> FALSE]
    BY <1>b DEF Idle
  <2>2. (Len(procs) + 1) \in Nat /\ c \in 0 .. MaxCommands
    BY <1>p
  <2> QED
    BY <2>1, <2>2 DEF Hows
<1>u. background' = Len(procs) + 1 /\ UNCHANGED <<child, oneShot, stopReason>>
  BY DEF ExecuteBackground, NewPid
<1>1. Refs'
  BY <1>0, <1>d, <1>p, <1>u DEF Typed, Refs
<1>2. Data'
  BY <1>0, <1>b, <1>p, <1>u DEF Typed, Data
<1>3. QueueOK'
  BY <1>0, <1>b, QueueStays
<1>4. JobOK'
  BY <1>b, <1>r DEF JobOK
<1>5. Fields'
  <2>1. (job.how = "sticky" => child \in {Nobody, job.proc})'
    BY <1>d
  <2>2. (job.how = "sticky" /\ procs[job.proc].state = "alive" => child = job.proc)'
    BY <1>d
  <2>3. (oneShot # Nobody => job.how = "oneShot" /\ job.proc = oneShot)'
    BY <1>o, <1>u
  <2>4. (job.how = "oneShot" => child = Nobody)'
    BY <1>d
  <2>5. (job.how = "background" => job.cmd \in procs[job.proc].cmds)'
    BY <1>d, <1>p
  <2> QED
    BY <2>1, <2>2, <2>3, <2>4, <2>5 DEF Fields
<1>6. BackgroundOK'
  BY <1>d, <1>u DEF BackgroundOK
<1>7. Apart'
  BY <1>0, <1>u DEF Typed, Refs, Apart
<1>8. NothingIsLeaked'
  <2> SUFFICES ASSUME NEW p \in DOMAIN procs', procs'[p].state = "alive", p \notin {child', background', oneShot'}
               PROVE  \E d \in procs'[p].cmds : result'[d] = "detached"
    BY DEF NothingIsLeaked
  <2>1. p \in DOMAIN procs /\ procs'[p] = procs[p]
    BY <1>p, <1>u
  <2>2. p # child /\ p # oneShot
    BY <1>u
  <2>3. \E d \in procs[p].cmds : result[d] = "detached"
    <3>1. CASE p = background
      BY <1>0, <1>o, <2>1, <3>1 DEF BackgroundOK
    <3>2. CASE p # background
      BY <1>0, <2>1, <2>2, <3>2 DEF NothingIsLeaked
    <3> QED
      BY <3>1, <3>2
  <2> QED
    BY <1>b, <2>1, <2>3
<1>9. Quiet'
  BY <1>0, <1>p, <1>r, <1>u DEF Typed, Refs, Quiet, Idle
<1>10. Reasons'
  BY <1>0, <1>b, <1>r, <1>u DEF Reasons, Idle
<1>11. SameDir'
  BY <1>0, <1>b, <1>p, <1>u DEF SameDir
<1> QED
  BY <1>1, <1>2, <1>3, <1>4, <1>5, <1>6, <1>7, <1>8, <1>9, <1>10, <1>11 DEF IInv, Typed

(* Secrets are written to the shell that runs. *)
LEMMA SilentKeeps ==
  ASSUME IInv, Silent
  PROVE  IInv'
<1>0. Typed /\ QueueOK /\ JobOK /\ Fields /\ BackgroundOK /\ Apart /\ NothingIsLeaked /\ Quiet /\ Reasons /\ SameDir
  BY DEF IInv
<1>c. \A p \in DOMAIN procs : procs[p] \in ProcType /\ procs[p].cmds \subseteq Commands
  <2>1. procs \in Seq(ProcType)
    BY <1>0 DEF Typed, Refs
  <2>2. \A p \in DOMAIN procs : procs[p] \in ProcType
    BY <2>1
  <2> QED
    BY <2>2 DEF ProcType
<1>i. procs \in Seq(ProcType) /\ Len(procs) \in Nat /\ DOMAIN procs = 1 .. Len(procs)
  BY <1>0 DEF Typed, Refs
<1>u. UNCHANGED <<job, child, background, oneShot, stopReason, cwd, secrets, aborted, result, inputs, given, stopped>>
  BY DEF Silent
<1>r. job = Idle /\ queue # << >> /\ queue[1].kind = "silent" /\ queue[1] \in Tasks /\ queue[1].env >= 0 /\ Task = queue[1]
  <2>1. job = Idle /\ queue # << >> /\ Task = queue[1] /\ 1 \in DOMAIN queue /\ queue[1] \in Tasks
    BY ReadyOK DEF Silent
  <2>2. queue[1].kind = "silent"
    BY <2>1 DEF Silent
  <2> QED
    BY <1>0, <2>1, <2>2 DEF QueueOK
<1>q. queue' \in Seq(Tasks) /\ QueueOK'
  <2>1. queue' = Tail(queue) /\ result' = result
    BY DEF Silent
  <2> QED
    BY <1>0, <1>r, <2>1, Popped
<1>w. /\ procs' \in Seq(ProcType) /\ Len(procs') = Len(procs) /\ DOMAIN procs' = DOMAIN procs
      /\ \A q \in DOMAIN procs : /\ procs'[q].state = procs[q].state /\ procs'[q].cmds = procs[q].cmds
                                 /\ procs'[q].dir = procs[q].dir
  <2>1. CASE child = Nobody
    BY <1>i, <2>1 DEF Silent
  <2>2. CASE child # Nobody
    <3> DEFINE rec == [procs[child] EXCEPT !.env = Task.env]
    <3>1. child \in DOMAIN procs /\ procs[child] \in ProcType
      BY <1>0, <1>c, <2>2 DEF Typed, Refs
    <3>2. Task.env \in 0 .. MaxInputs
      BY <1>r DEF Tasks
    <3>3. /\ rec \in ProcType /\ rec.state = procs[child].state /\ rec.cmds = procs[child].cmds
          /\ rec.dir = procs[child].dir
      BY <3>1, <3>2 DEF ProcType
    <3>4. procs' = Write(child, rec)
      BY <2>2 DEF Silent
    <3> HIDE DEF rec
    <3>5. /\ Write(child, rec) \in Seq(ProcType) /\ Len(Write(child, rec)) = Len(procs)
          /\ DOMAIN Write(child, rec) = DOMAIN procs
          /\ \A q \in DOMAIN procs : Write(child, rec)[q] = IF q = child THEN rec ELSE procs[q]
      BY <1>i, <3>1, <3>3, WriteType
    <3> QED
      BY <3>1, <3>3, <3>4, <3>5
  <2> QED
    BY <2>1, <2>2
<1>1. Refs'
  BY <1>0, <1>u, <1>w DEF Typed, Refs
<1>2. Data'
  BY <1>0, <1>q, <1>u DEF Typed, Data
<1>3. QueueOK'
  BY <1>q
<1>4. JobOK'
  BY <1>r, <1>u DEF JobOK, Idle
<1>5. Fields'
  <2>1. (job.how = "sticky" => child \in {Nobody, job.proc})'
    BY <1>r, <1>u DEF Idle
  <2>2. (job.how = "sticky" /\ procs[job.proc].state = "alive" => child = job.proc)'
    BY <1>r, <1>u DEF Idle
  <2>3. (oneShot # Nobody => job.how = "oneShot" /\ job.proc = oneShot)'
    BY <1>0, <1>u DEF Fields
  <2>4. (job.how = "oneShot" => child = Nobody)'
    BY <1>r, <1>u DEF Idle
  <2>5. (job.how = "background" => job.cmd \in procs[job.proc].cmds)'
    BY <1>r, <1>u DEF Idle
  <2> QED
    BY <2>1, <2>2, <2>3, <2>4, <2>5 DEF Fields
<1>6. BackgroundOK'
  BY <1>0, <1>u, <1>w DEF BackgroundOK
<1>7. Apart'
  BY <1>0, <1>u DEF Apart
<1>8. NothingIsLeaked'
  <2> SUFFICES ASSUME NEW p \in DOMAIN procs', procs'[p].state = "alive", p \notin {child', background', oneShot'}
               PROVE  \E d \in procs'[p].cmds : result'[d] = "detached"
    BY DEF NothingIsLeaked
  <2>1. p \in DOMAIN procs /\ procs[p].state = "alive" /\ p \notin {child, background, oneShot}
    BY <1>u, <1>w
  <2>2. \E d \in procs[p].cmds : result[d] = "detached"
    BY <1>0, <2>1 DEF NothingIsLeaked
  <2> QED
    BY <1>u, <1>w, <2>1, <2>2
<1>9. Quiet'
  BY <1>0, <1>u, <1>w DEF Quiet
<1>10. Reasons'
  BY <1>0, <1>u DEF Reasons
<1>11. SameDir'
  BY <1>0, <1>u, <1>w DEF SameDir
<1> QED
  BY <1>1, <1>2, <1>3, <1>4, <1>5, <1>6, <1>7, <1>8, <1>9, <1>10, <1>11 DEF IInv, Typed

(* A command of an aborted turn ends without having run. *)
LEMMA SkipKeeps ==
  ASSUME IInv, Skip
  PROVE  IInv'
<1>0. Typed /\ QueueOK /\ JobOK /\ Fields /\ BackgroundOK /\ Apart /\ NothingIsLeaked /\ Quiet /\ Reasons /\ SameDir
  BY DEF IInv
<1>c. \A p \in DOMAIN procs : procs[p] \in ProcType /\ procs[p].cmds \subseteq Commands
  <2>1. procs \in Seq(ProcType)
    BY <1>0 DEF Typed, Refs
  <2>2. \A p \in DOMAIN procs : procs[p] \in ProcType
    BY <2>1
  <2> QED
    BY <2>2 DEF ProcType
<1>u. /\ UNCHANGED <<job, child, background, oneShot, stopReason, cwd, secrets, procs, aborted, inputs, given, stopped>>
      /\ Ready /\ Task.kind # "silent" /\ queue' = Tail(queue) /\ result' = [result EXCEPT ![Task.cmd] = "cancelled"]
  BY DEF Skip
<1>r. /\ job = Idle /\ queue # << >> /\ Task = queue[1] /\ queue[1].kind # "silent"
      /\ queue[1].cmd \in Commands /\ result[queue[1].cmd] = "pending"
  <2>1. job = Idle /\ queue # << >> /\ Task = queue[1] /\ 1 \in DOMAIN queue
    BY <1>u, ReadyOK
  <2> QED
    BY <1>0, <1>u, <2>1 DEF QueueOK
<1>q. queue' \in Seq(Tasks) /\ QueueOK' /\ result' \in [Commands -> Outcomes]
  <2>1. queue' = Tail(queue) /\ result' = [result EXCEPT ![queue[1].cmd] = "cancelled"] /\ "cancelled" \in Outcomes
    BY <1>u, <1>r DEF Outcomes
  <2> QED
    BY <1>0, <1>r, <2>1, Popped
<1>d. /\ \A c \in Commands : result[c] = "detached" => result'[c] = "detached"
      /\ \A c \in Commands : result'[c] = result[c] \/ result'[c] = "cancelled"
  BY <1>0, <1>r, <1>u DEF Typed, Data
<1>1. Refs'
  BY <1>0, <1>u DEF Typed, Refs
<1>2. Data'
  BY <1>0, <1>q, <1>u DEF Typed, Data
<1>3. QueueOK'
  BY <1>q
<1>4. JobOK'
  BY <1>r, <1>u DEF JobOK, Idle
<1>5. Fields'
  <2>1. (job.how = "sticky" => child \in {Nobody, job.proc})'
    BY <1>r, <1>u DEF Idle
  <2>2. (job.how = "sticky" /\ procs[job.proc].state = "alive" => child = job.proc)'
    BY <1>r, <1>u DEF Idle
  <2>3. (oneShot # Nobody => job.how = "oneShot" /\ job.proc = oneShot)'
    BY <1>0, <1>u DEF Fields
  <2>4. (job.how = "oneShot" => child = Nobody)'
    BY <1>r, <1>u DEF Idle
  <2>5. (job.how = "background" => job.cmd \in procs[job.proc].cmds)'
    BY <1>r, <1>u DEF Idle
  <2> QED
    BY <2>1, <2>2, <2>3, <2>4, <2>5 DEF Fields
<1>6. BackgroundOK'
  <2> SUFFICES ASSUME NEW p \in DOMAIN procs, procs[p].state = "alive", p = background
               PROVE  \E d \in procs[p].cmds : result'[d] = "detached"
    BY <1>u DEF BackgroundOK
  <2>1. PICK d \in procs[p].cmds : result[d] = "detached"
    BY <1>0, <1>r DEF BackgroundOK, Idle
  <2> QED
    BY <1>c, <1>d, <2>1
<1>7. Apart'
  BY <1>0, <1>u DEF Apart
<1>8. NothingIsLeaked'
  <2> SUFFICES ASSUME NEW p \in DOMAIN procs', procs'[p].state = "alive", p \notin {child', background', oneShot'}
               PROVE  \E d \in procs'[p].cmds : result'[d] = "detached"
    BY DEF NothingIsLeaked
  <2>1. p \in DOMAIN procs /\ procs[p].state = "alive" /\ p \notin {child, background, oneShot}
    BY <1>u
  <2>2. PICK d \in procs[p].cmds : result[d] = "detached"
    BY <1>0, <2>1 DEF NothingIsLeaked
  <2> QED
    BY <1>c, <1>d, <1>u, <2>1, <2>2
<1>9. Quiet'
  BY <1>0, <1>u DEF Quiet
<1>10. Reasons'
  <2> SUFFICES ASSUME NEW d \in stopped
               PROVE  d \in Commands /\ result'[d] # "none" /\ result'[d] # "pending"
    BY <1>0, <1>r, <1>u DEF Reasons, Idle
  <2>1. d \in Commands /\ result[d] # "none" /\ result[d] # "pending"
    BY <1>0, <1>r DEF Reasons, Idle
  <2> QED
    BY <1>d, <2>1
<1>11. SameDir'
  BY <1>0, <1>u DEF SameDir
<1> QED
  BY <1>1, <1>2, <1>3, <1>4, <1>5, <1>6, <1>7, <1>8, <1>9, <1>10, <1>11 DEF IInv, Typed

(* The marker ends the command and the shell has nothing left to do. *)
LEMMA MarkerKeeps ==
  ASSUME IInv, Marker
  PROVE  IInv'
<1>0. Typed /\ QueueOK /\ JobOK /\ Fields /\ BackgroundOK /\ Apart /\ NothingIsLeaked /\ Quiet /\ Reasons /\ SameDir
  BY DEF IInv
<1>c. \A p \in DOMAIN procs : procs[p] \in ProcType /\ procs[p].cmds \subseteq Commands
  <2>1. procs \in Seq(ProcType)
    BY <1>0 DEF Typed, Refs
  <2>2. \A p \in DOMAIN procs : procs[p] \in ProcType
    BY <2>1
  <2> QED
    BY <2>2 DEF ProcType
<1>i. procs \in Seq(ProcType) /\ Len(procs) \in Nat /\ DOMAIN procs = 1 .. Len(procs)
  BY <1>0 DEF Typed, Refs
<1>n. job.how # "idle"
  BY DEF Marker
<1>z. End("done") /\ "done" \in Outcomes /\ "done" # "pending" /\ "done" # "none"
  BY DEF Marker, Outcomes
<1>e. /\ job' = Idle /\ queue' \in Seq(Tasks) /\ QueueOK' /\ result' \in [Commands -> Outcomes]
      /\ \A c \in Commands : result[c] = "detached" => result'[c] = "detached"
      /\ \A c \in Commands : c # job.cmd => result'[c] = result[c]
      /\ result'[job.cmd] = "done" /\ job.cmd \in Commands /\ job.proc \in DOMAIN procs
  BY <1>n, <1>z, EndOK
<1>x. job'.how = "idle" /\ job'.cmd = 0 /\ job'.proc = Nobody /\ JobOK'
      /\ job' \in Jobs
  BY <1>e DEF Idle, Hows, JobOK
<1>u. /\ job.how = "sticky" /\ stopReason' = "null"
      /\ UNCHANGED <<child, background, oneShot, cwd, secrets, aborted, inputs, given, stopped>>
  BY DEF Marker
<1>w. /\ procs' \in Seq(ProcType) /\ Len(procs') = Len(procs) /\ DOMAIN procs' = DOMAIN procs
      /\ \A q \in DOMAIN procs : /\ procs'[q].state = procs[q].state /\ procs'[q].dir = procs[q].dir
                                 /\ q # job.proc => procs'[q].cmds = procs[q].cmds
      /\ procs'[job.proc].cmds = procs[job.proc].cmds \ {job.cmd}
  <2> DEFINE rec == [procs[job.proc] EXCEPT !.cmds = @ \ {job.cmd}]
  <2>1. job.proc \in DOMAIN procs /\ procs[job.proc] \in ProcType
    BY <1>c, <1>e
  <2>2. /\ rec \in ProcType /\ rec.state = procs[job.proc].state /\ rec.dir = procs[job.proc].dir
        /\ rec.cmds = procs[job.proc].cmds \ {job.cmd}
    BY <2>1 DEF ProcType
  <2>3. procs' = Write(job.proc, rec)
    BY DEF Marker
  <2> HIDE DEF rec
  <2>4. /\ Write(job.proc, rec) \in Seq(ProcType) /\ Len(Write(job.proc, rec)) = Len(procs)
        /\ DOMAIN Write(job.proc, rec) = DOMAIN procs
        /\ \A q \in DOMAIN procs : Write(job.proc, rec)[q] = IF q = job.proc THEN rec ELSE procs[q]
    BY <1>i, <2>1, <2>2, WriteType
  <2> QED
    BY <2>1, <2>2, <2>3, <2>4
<1>h. /\ child \in {Nobody, job.proc} /\ oneShot = Nobody /\ job.proc # Nobody
      /\ (procs[job.proc].state = "alive" => child = job.proc /\ job.proc # background)
  BY <1>0, <1>e, <1>i, <1>u DEF Fields, Apart
<1>1. Refs'
  BY <1>0, <1>u, <1>w, <1>x DEF Typed, Refs
<1>2. Data'
  BY <1>0, <1>e, <1>u DEF Typed, Data
<1>3. QueueOK'
  BY <1>e
<1>4. JobOK'
  BY <1>x
<1>5. Fields'
  <2>1. (job.how = "sticky" => child \in {Nobody, job.proc})'
    BY <1>x
  <2>2. (job.how = "sticky" /\ procs[job.proc].state = "alive" => child = job.proc)'
    BY <1>x
  <2>3. (oneShot # Nobody => job.how = "oneShot" /\ job.proc = oneShot)'
    BY <1>h, <1>u
  <2>4. (job.how = "oneShot" => child = Nobody)'
    BY <1>x
  <2>5. (job.how = "background" => job.cmd \in procs[job.proc].cmds)'
    BY <1>x
  <2> QED
    BY <2>1, <2>2, <2>3, <2>4, <2>5 DEF Fields
<1>6. BackgroundOK'
  <2> SUFFICES ASSUME NEW p \in DOMAIN procs', procs'[p].state = "alive", p = background'
               PROVE  \E d \in procs'[p].cmds : result'[d] = "detached"
    BY DEF BackgroundOK
  <2>1. p \in DOMAIN procs /\ procs[p].state = "alive" /\ p = background /\ p # job.proc
    BY <1>h, <1>u, <1>w
  <2>2. PICK d \in procs[p].cmds : result[d] = "detached"
    BY <1>0, <1>u, <2>1 DEF BackgroundOK
  <2>3. procs'[p].cmds = procs[p].cmds
    BY <1>w, <2>1
  <2> QED
    BY <1>c, <1>e, <2>1, <2>2, <2>3
<1>7. Apart'
  BY <1>0, <1>u DEF Apart
<1>8. NothingIsLeaked'
  <2> SUFFICES ASSUME NEW p \in DOMAIN procs', procs'[p].state = "alive", p \notin {child', background', oneShot'}
               PROVE  \E d \in procs'[p].cmds : result'[d] = "detached"
    BY DEF NothingIsLeaked
  <2>1. p \in DOMAIN procs /\ procs[p].state = "alive" /\ p \notin {child, background, oneShot}
    BY <1>u, <1>w
  <2>2. p # job.proc
    BY <1>h, <2>1
  <2>3. PICK d \in procs[p].cmds : result[d] = "detached"
    BY <1>0, <2>1 DEF NothingIsLeaked
  <2>4. procs'[p].cmds = procs[p].cmds
    BY <1>w, <2>1, <2>2
  <2> QED
    BY <1>c, <1>e, <2>1, <2>3, <2>4
<1>9. Quiet'
  BY <1>0, <1>h, <1>i, <1>u, <1>w DEF Quiet
<1>10. Reasons'
  <2>1. UNCHANGED stopped /\ stopReason' # "timeout"
    BY <1>0, <1>u DEF Reasons
  <2> QED
    BY <1>n, <1>z, <2>1, EndReasons
<1>11. SameDir'
  BY <1>0, <1>u, <1>w DEF SameDir
<1> QED
  BY <1>1, <1>2, <1>3, <1>4, <1>5, <1>6, <1>7, <1>8, <1>9, <1>10, <1>11 DEF IInv, Typed

(* A timeout ends the command and kills all three processes. *)
LEMMA TimeoutStickyKeeps ==
  ASSUME IInv, TimeoutSticky
  PROVE  IInv'
<1>0. Typed /\ QueueOK /\ JobOK /\ Fields /\ BackgroundOK /\ Apart /\ NothingIsLeaked /\ Quiet /\ Reasons /\ SameDir
  BY DEF IInv
<1>c. \A p \in DOMAIN procs : procs[p] \in ProcType /\ procs[p].cmds \subseteq Commands
  <2>1. procs \in Seq(ProcType)
    BY <1>0 DEF Typed, Refs
  <2>2. \A p \in DOMAIN procs : procs[p] \in ProcType
    BY <2>1
  <2> QED
    BY <2>2 DEF ProcType
<1>n. job.how # "idle"
  BY DEF TimeoutSticky, TimeoutEnds
<1>z. End("timeout") /\ "timeout" \in Outcomes /\ "timeout" # "pending" /\ "timeout" # "none"
  BY DEF TimeoutSticky, TimeoutEnds, Outcomes
<1>e. /\ job' = Idle /\ queue' \in Seq(Tasks) /\ QueueOK' /\ result' \in [Commands -> Outcomes]
      /\ \A c \in Commands : result[c] = "detached" => result'[c] = "detached"
      /\ \A c \in Commands : c # job.cmd => result'[c] = result[c]
      /\ result'[job.cmd] = "timeout" /\ job.cmd \in Commands /\ job.proc \in DOMAIN procs
  BY <1>n, <1>z, EndOK
<1>x. job'.how = "idle" /\ job'.cmd = 0 /\ job'.proc = Nobody /\ JobOK'
      /\ job' \in Jobs
  BY <1>e DEF Idle, Hows, JobOK
<1>u. /\ job.how = "sticky" /\ stopReason' = "null"
      /\ child' = Nobody /\ background' = Nobody /\ oneShot' = Nobody
      /\ UNCHANGED <<cwd, secrets, aborted, inputs, given, stopped>>
  BY DEF TimeoutSticky, TimeoutEnds, Dispose
<1>k. /\ procs' \in Seq(ProcType) /\ Len(procs') = Len(procs) /\ DOMAIN procs' = 1 .. Len(procs)
      /\ DOMAIN procs = 1 .. Len(procs)
      /\ \A q \in DOMAIN procs :
           /\ procs'[q].cmds = procs[q].cmds /\ procs'[q].dir = procs[q].dir
           /\ procs'[q].state = "alive" => procs[q].state = "alive" /\ q \notin {child, background, oneShot}
  BY <1>0, KillType DEF Typed, Refs, TimeoutSticky, TimeoutEnds, Dispose, Doomed
<1>l. \A p \in DOMAIN procs : procs[p].state = "alive" /\ p \notin {child, background, oneShot} =>
        \E c \in procs[p].cmds : result[c] = "detached"
  BY <1>0 DEF NothingIsLeaked
<1>1. Refs'
  BY <1>k, <1>u, <1>x DEF Refs
<1>2. Data'
  BY <1>0, <1>e, <1>u DEF Typed, Data
<1>3. QueueOK'
  BY <1>e
<1>4. JobOK'
  BY <1>x
<1>5. Fields'
  <2>1. (job.how = "sticky" => child \in {Nobody, job.proc})'
    BY <1>x
  <2>2. (job.how = "sticky" /\ procs[job.proc].state = "alive" => child = job.proc)'
    BY <1>x
  <2>3. (oneShot # Nobody => job.how = "oneShot" /\ job.proc = oneShot)'
    BY <1>u
  <2>4. (job.how = "oneShot" => child = Nobody)'
    BY <1>x
  <2>5. (job.how = "background" => job.cmd \in procs[job.proc].cmds)'
    BY <1>x
  <2> QED
    BY <2>1, <2>2, <2>3, <2>4, <2>5 DEF Fields
<1>6. BackgroundOK'
  BY <1>k, <1>u DEF BackgroundOK
<1>7. Apart'
  BY <1>u DEF Apart
<1>8. NothingIsLeaked'
  <2> SUFFICES ASSUME NEW p \in DOMAIN procs', procs'[p].state = "alive"
               PROVE  \E d \in procs'[p].cmds : result'[d] = "detached"
    BY DEF NothingIsLeaked
  <2>1. PICK d \in procs[p].cmds : result[d] = "detached"
    BY <1>k, <1>l
  <2> QED
    BY <1>c, <1>e, <1>k, <2>1
<1>9. Quiet'
  BY <1>k, <1>u DEF Quiet
<1>10. Reasons'
  <2>1. UNCHANGED stopped /\ stopReason' # "timeout"
    BY <1>0, <1>u DEF Reasons
  <2> QED
    BY <1>n, <1>z, <2>1, EndReasons
<1>11. SameDir'
  BY <1>k, <1>u DEF SameDir
<1> QED
  BY <1>1, <1>2, <1>3, <1>4, <1>5, <1>6, <1>7, <1>8, <1>9, <1>10, <1>11 DEF IInv, Typed

(* A timeout of the fallback kills it; its exit ends the command. *)
LEMMA TimeoutOneShotKeeps ==
  ASSUME IInv, TimeoutOneShot
  PROVE  IInv'
<1>0. Typed /\ QueueOK /\ JobOK /\ Fields /\ BackgroundOK /\ Apart /\ NothingIsLeaked /\ Quiet /\ Reasons /\ SameDir
  BY DEF IInv
<1>u. /\ job.how = "oneShot" /\ job' = [job EXCEPT !.timedOut = TRUE]
      /\ UNCHANGED <<queue, child, background, oneShot, stopReason, cwd, secrets, aborted, result, inputs, given, stopped>>
  BY DEF TimeoutOneShot
<1>k. /\ procs' \in Seq(ProcType) /\ Len(procs') = Len(procs) /\ DOMAIN procs' = 1 .. Len(procs)
      /\ DOMAIN procs = 1 .. Len(procs)
      /\ \A q \in DOMAIN procs :
           /\ procs'[q].cmds = procs[q].cmds /\ procs'[q].dir = procs[q].dir
           /\ procs'[q].state = "alive" => procs[q].state = "alive" /\ q \notin {job.proc}
  BY <1>0, KillType DEF Typed, Refs, TimeoutOneShot
<1>b. UNCHANGED <<queue, result>>
  BY <1>u
<1>1. Refs'
  BY <1>0, <1>k, <1>u DEF Typed, Refs
<1>2. Data'
  BY <1>0, <1>u DEF Typed, Data
<1>3. QueueOK'
  BY <1>0, <1>b, QueueStays
<1>4. JobOK'
  BY <1>0, <1>u DEF JobOK
<1>5. Fields'
  <2>1. (job.how = "sticky" => child \in {Nobody, job.proc})'
    BY <1>u
  <2>2. (job.how = "sticky" /\ procs[job.proc].state = "alive" => child = job.proc)'
    BY <1>u
  <2>3. (oneShot # Nobody => job.how = "oneShot" /\ job.proc = oneShot)'
    BY <1>0, <1>u DEF Fields
  <2>4. (job.how = "oneShot" => child = Nobody)'
    BY <1>0, <1>u DEF Fields
  <2>5. (job.how = "background" => job.cmd \in procs[job.proc].cmds)'
    BY <1>u
  <2> QED
    BY <2>1, <2>2, <2>3, <2>4, <2>5 DEF Fields
<1>6. BackgroundOK'
  <2> SUFFICES ASSUME NEW p \in DOMAIN procs', procs'[p].state = "alive", p = background'
               PROVE  \E d \in procs'[p].cmds : result'[d] = "detached"
    BY DEF BackgroundOK
  <2>1. p \in DOMAIN procs /\ procs[p].state = "alive" /\ p = background
    BY <1>k, <1>u
  <2>2. \E d \in procs[p].cmds : result[d] = "detached"
    BY <1>0, <1>u, <2>1 DEF BackgroundOK
  <2> QED
    BY <1>k, <1>u, <2>1, <2>2
<1>7. Apart'
  BY <1>0, <1>u DEF Apart
<1>8. NothingIsLeaked'
  <2> SUFFICES ASSUME NEW p \in DOMAIN procs', procs'[p].state = "alive", p \notin {child', background', oneShot'}
               PROVE  \E d \in procs'[p].cmds : result'[d] = "detached"
    BY DEF NothingIsLeaked
  <2>1. p \in DOMAIN procs /\ procs[p].state = "alive" /\ p \notin {child, background, oneShot}
    BY <1>k, <1>u
  <2>2. \E d \in procs[p].cmds : result[d] = "detached"
    BY <1>0, <2>1 DEF NothingIsLeaked
  <2> QED
    BY <1>k, <1>u, <2>1, <2>2
<1>9. Quiet'
  BY <1>0, <1>k, <1>u DEF Quiet
<1>10. Reasons'
  BY <1>0, <1>u DEF Reasons
<1>11. SameDir'
  BY <1>0, <1>k, <1>u DEF SameDir
<1> QED
  BY <1>1, <1>2, <1>3, <1>4, <1>5, <1>6, <1>7, <1>8, <1>9, <1>10, <1>11 DEF IInv, Typed

(* A command that outlives its settle window is detached and its process *)
(* stays.                                                                *)
LEMMA SettleKeeps ==
  ASSUME IInv, Settle
  PROVE  IInv'
<1>0. Typed /\ QueueOK /\ JobOK /\ Fields /\ BackgroundOK /\ Apart /\ NothingIsLeaked /\ Quiet /\ Reasons /\ SameDir
  BY DEF IInv
<1>c. \A p \in DOMAIN procs : procs[p] \in ProcType /\ procs[p].cmds \subseteq Commands
  <2>1. procs \in Seq(ProcType)
    BY <1>0 DEF Typed, Refs
  <2>2. \A p \in DOMAIN procs : procs[p] \in ProcType
    BY <2>1
  <2> QED
    BY <2>2 DEF ProcType
<1>n. job.how # "idle"
  BY DEF Settle
<1>z. End("detached") /\ "detached" \in Outcomes /\ "detached" # "pending" /\ "detached" # "none"
  BY DEF Settle, Outcomes
<1>e. /\ job' = Idle /\ queue' \in Seq(Tasks) /\ QueueOK' /\ result' \in [Commands -> Outcomes]
      /\ \A c \in Commands : result[c] = "detached" => result'[c] = "detached"
      /\ \A c \in Commands : c # job.cmd => result'[c] = result[c]
      /\ result'[job.cmd] = "detached" /\ job.cmd \in Commands /\ job.proc \in DOMAIN procs
  BY <1>n, <1>z, EndOK
<1>x. job'.how = "idle" /\ job'.cmd = 0 /\ job'.proc = Nobody /\ JobOK'
      /\ job' \in Jobs
  BY <1>e DEF Idle, Hows, JobOK
<1>u. /\ job.how = "background"
      /\ UNCHANGED <<child, background, oneShot, stopReason, cwd, secrets, procs, aborted, inputs, given, stopped>>
  BY DEF Settle
<1>h. /\ oneShot = Nobody /\ job.cmd \in procs[job.proc].cmds
  BY <1>0, <1>u DEF Fields
<1>1. Refs'
  BY <1>0, <1>u, <1>x DEF Typed, Refs
<1>2. Data'
  BY <1>0, <1>e, <1>u DEF Typed, Data
<1>3. QueueOK'
  BY <1>e
<1>4. JobOK'
  BY <1>x
<1>5. Fields'
  <2>1. (job.how = "sticky" => child \in {Nobody, job.proc})'
    BY <1>x
  <2>2. (job.how = "sticky" /\ procs[job.proc].state = "alive" => child = job.proc)'
    BY <1>x
  <2>3. (oneShot # Nobody => job.how = "oneShot" /\ job.proc = oneShot)'
    BY <1>h, <1>u
  <2>4. (job.how = "oneShot" => child = Nobody)'
    BY <1>x
  <2>5. (job.how = "background" => job.cmd \in procs[job.proc].cmds)'
    BY <1>x
  <2> QED
    BY <2>1, <2>2, <2>3, <2>4, <2>5 DEF Fields
<1>6. BackgroundOK'
  <2> SUFFICES ASSUME NEW p \in DOMAIN procs, procs[p].state = "alive", p = background
               PROVE  \E d \in procs[p].cmds : result'[d] = "detached"
    BY <1>u DEF BackgroundOK
  <2>1. CASE p = job.proc
    BY <1>e, <1>h, <2>1
  <2>2. CASE p # job.proc
    <3>1. PICK d \in procs[p].cmds : result[d] = "detached"
      BY <1>0, <2>2 DEF BackgroundOK
    <3> QED
      BY <1>c, <1>e, <3>1
  <2> QED
    BY <2>1, <2>2
<1>7. Apart'
  BY <1>0, <1>u DEF Apart
<1>8. NothingIsLeaked'
  <2> SUFFICES ASSUME NEW p \in DOMAIN procs', procs'[p].state = "alive", p \notin {child', background', oneShot'}
               PROVE  \E d \in procs'[p].cmds : result'[d] = "detached"
    BY DEF NothingIsLeaked
  <2>1. p \in DOMAIN procs /\ procs[p].state = "alive" /\ p \notin {child, background, oneShot}
    BY <1>u
  <2>2. PICK d \in procs[p].cmds : result[d] = "detached"
    BY <1>0, <2>1 DEF NothingIsLeaked
  <2> QED
    BY <1>c, <1>e, <1>u, <2>1, <2>2
<1>9. Quiet'
  BY <1>0, <1>u DEF Quiet
<1>10. Reasons'
  <2>1. UNCHANGED stopped /\ stopReason' # "timeout"
    BY <1>0, <1>u DEF Reasons
  <2> QED
    BY <1>n, <1>z, <2>1, EndReasons
<1>11. SameDir'
  BY <1>0, <1>u DEF SameDir
<1> QED
  BY <1>1, <1>2, <1>3, <1>4, <1>5, <1>6, <1>7, <1>8, <1>9, <1>10, <1>11 DEF IInv, Typed

(* A process that does not run the command under way exits. *)
LEMMA UnheardKeeps ==
  ASSUME IInv, NEW p \in Pids, Exit(p), job.proc # p
  PROVE  IInv'
<1>0. Typed /\ QueueOK /\ JobOK /\ Fields /\ BackgroundOK /\ Apart /\ NothingIsLeaked /\ Quiet /\ Reasons /\ SameDir
  BY DEF IInv
<1>j. job.how # "idle" => job.proc \in DOMAIN procs /\ job.cmd \in Commands /\ result[job.cmd] = "pending"
  BY <1>0, AtWork
<1>c. \A q \in DOMAIN procs : procs[q] \in ProcType /\ procs[q].cmds \subseteq Commands
  <2>1. procs \in Seq(ProcType)
    BY <1>0 DEF Typed, Refs
  <2>2. \A q \in DOMAIN procs : procs[q] \in ProcType
    BY <2>1
  <2> QED
    BY <2>2 DEF ProcType
<1>i. procs \in Seq(ProcType) /\ Len(procs) \in Nat /\ DOMAIN procs = 1 .. Len(procs)
  BY <1>0 DEF Typed, Refs
<1>w. /\ procs' \in Seq(ProcType) /\ Len(procs') = Len(procs) /\ DOMAIN procs' = DOMAIN procs
      /\ \A q \in DOMAIN procs : /\ procs'[q].cmds = procs[q].cmds /\ procs'[q].dir = procs[q].dir
                                 /\ procs'[q].state = "alive" => procs[q].state = "alive" /\ q # p
  <2> DEFINE rec == [procs[p] EXCEPT !.state = "gone"]
  <2>1. p \in DOMAIN procs /\ procs[p] \in ProcType
    BY <1>c
  <2>2. rec \in ProcType /\ rec.state = "gone" /\ rec.dir = procs[p].dir /\ rec.cmds = procs[p].cmds
    BY <2>1 DEF ProcType
  <2>3. procs' = Write(p, rec)
    BY DEF Exit
  <2> HIDE DEF rec
  <2>4. /\ Write(p, rec) \in Seq(ProcType) /\ Len(Write(p, rec)) = Len(procs)
        /\ DOMAIN Write(p, rec) = DOMAIN procs
        /\ \A q \in DOMAIN procs : Write(p, rec)[q] = IF q = p THEN rec ELSE procs[q]
    BY <1>i, <2>1, <2>2, WriteType
  <2> QED
    BY <2>2, <2>3, <2>4
<1>v. /\ background' = IF background = p THEN Nobody ELSE background
      /\ oneShot' = IF oneShot = p THEN Nobody ELSE oneShot
      /\ UNCHANGED <<cwd, secrets, aborted, inputs, given, stopped>>
  BY DEF Exit
<1>u. UNCHANGED <<child, result, job, queue, stopReason>>
  BY DEF Exit
<1>b. UNCHANGED <<queue, result>>
  BY <1>u
<1>1. Refs'
  BY <1>0, <1>u, <1>v, <1>w DEF Typed, Refs
<1>2. Data'
  BY <1>0, <1>u, <1>v DEF Typed, Data
<1>3. QueueOK'
  BY <1>0, <1>b, QueueStays
<1>4. JobOK'
  BY <1>0, <1>u DEF JobOK
<1>5. Fields'
  <2>1. job' = job /\ child' = child
    BY <1>u
  <2>2. job.how = "sticky" => child \in {Nobody, job.proc}
    BY <1>0 DEF Fields
  <2>3. job.how = "sticky" /\ procs'[job.proc].state = "alive" => child = job.proc
    BY <1>0, <1>j, <1>w DEF Fields
  <2>4. oneShot' # Nobody => job.how = "oneShot" /\ job.proc = oneShot'
    BY <1>0, <1>v DEF Fields
  <2>5. (job.how = "oneShot" => child = Nobody) /\ (job.how = "background" => job.cmd \in procs'[job.proc].cmds)
    BY <1>0, <1>j, <1>w DEF Fields
  <2> QED
    BY <2>1, <2>2, <2>3, <2>4, <2>5 DEF Fields
<1>6. BackgroundOK'
  <2> SUFFICES ASSUME NEW q \in DOMAIN procs', procs'[q].state = "alive", q = background'
               PROVE  (\E d \in procs'[q].cmds : result'[d] = "detached") \/ (job'.how = "background" /\ job'.proc = q)
    BY DEF BackgroundOK
  <2>1. q \in DOMAIN procs /\ procs[q].state = "alive" /\ q = background
    BY <1>v, <1>w
  <2>2. (\E d \in procs[q].cmds : result[d] = "detached") \/ (job.how = "background" /\ job.proc = q)
    BY <1>0, <2>1 DEF BackgroundOK
  <2> QED
    BY <1>u, <1>w, <2>1, <2>2
<1>7. Apart'
  BY <1>0, <1>u, <1>v DEF Apart
<1>8. NothingIsLeaked'
  <2> SUFFICES ASSUME NEW q \in DOMAIN procs', procs'[q].state = "alive", q \notin {child', background', oneShot'}
               PROVE  \E d \in procs'[q].cmds : result'[d] = "detached"
    BY DEF NothingIsLeaked
  <2>1. q \in DOMAIN procs /\ procs[q].state = "alive" /\ q # p
    BY <1>w
  <2>2. q \notin {child, background, oneShot}
    BY <1>u, <1>v, <2>1
  <2>3. PICK d \in procs[q].cmds : result[d] = "detached"
    BY <1>0, <2>1, <2>2 DEF NothingIsLeaked
  <2> QED
    BY <1>c, <1>w, <1>u, <2>1, <2>3
<1>9. Quiet'
  BY <1>0, <1>u, <1>w DEF Quiet
<1>10. Reasons'
  BY <1>0, <1>u, <1>v DEF Reasons
<1>11. SameDir'
  BY <1>0, <1>u, <1>v, <1>w DEF SameDir
<1> QED
  BY <1>1, <1>2, <1>3, <1>4, <1>5, <1>6, <1>7, <1>8, <1>9, <1>10, <1>11 DEF IInv, Typed

(* The process of the command under way exits. *)
LEMMA HeardKeeps ==
  ASSUME IInv, NEW p \in Pids, Exit(p), job.proc = p
  PROVE  IInv'
<1>0. Typed /\ QueueOK /\ JobOK /\ Fields /\ BackgroundOK /\ Apart /\ NothingIsLeaked /\ Quiet /\ Reasons /\ SameDir
  BY DEF IInv
<1>j. job.how # "idle" => job.proc \in DOMAIN procs /\ job.cmd \in Commands /\ result[job.cmd] = "pending"
  BY <1>0, AtWork
<1>c. \A q \in DOMAIN procs : procs[q] \in ProcType /\ procs[q].cmds \subseteq Commands
  <2>1. procs \in Seq(ProcType)
    BY <1>0 DEF Typed, Refs
  <2>2. \A q \in DOMAIN procs : procs[q] \in ProcType
    BY <2>1
  <2> QED
    BY <2>2 DEF ProcType
<1>i. procs \in Seq(ProcType) /\ Len(procs) \in Nat /\ DOMAIN procs = 1 .. Len(procs)
  BY <1>0 DEF Typed, Refs
<1>w. /\ procs' \in Seq(ProcType) /\ Len(procs') = Len(procs) /\ DOMAIN procs' = DOMAIN procs
      /\ \A q \in DOMAIN procs : /\ procs'[q].cmds = procs[q].cmds /\ procs'[q].dir = procs[q].dir
                                 /\ procs'[q].state = "alive" => procs[q].state = "alive" /\ q # p
  <2> DEFINE rec == [procs[p] EXCEPT !.state = "gone"]
  <2>1. p \in DOMAIN procs /\ procs[p] \in ProcType
    BY <1>c
  <2>2. rec \in ProcType /\ rec.state = "gone" /\ rec.dir = procs[p].dir /\ rec.cmds = procs[p].cmds
    BY <2>1 DEF ProcType
  <2>3. procs' = Write(p, rec)
    BY DEF Exit
  <2> HIDE DEF rec
  <2>4. /\ Write(p, rec) \in Seq(ProcType) /\ Len(Write(p, rec)) = Len(procs)
        /\ DOMAIN Write(p, rec) = DOMAIN procs
        /\ \A q \in DOMAIN procs : Write(p, rec)[q] = IF q = p THEN rec ELSE procs[q]
    BY <1>i, <2>1, <2>2, WriteType
  <2> QED
    BY <2>2, <2>3, <2>4
<1>v. /\ background' = IF background = p THEN Nobody ELSE background
      /\ oneShot' = IF oneShot = p THEN Nobody ELSE oneShot
      /\ UNCHANGED <<cwd, secrets, aborted, inputs, given, stopped>>
  BY DEF Exit
<1>n. job.how \in {"sticky", "oneShot", "background"} /\ job.how # "idle"
  BY DEF Exit
<1>u. /\ (job.how = "sticky" => child' = Nobody) /\ (job.how # "sticky" => child' = child)
      /\ stopReason' \in {"null", stopReason}
  BY DEF Exit
<1>z. PICK outcome \in Outcomes : End(outcome) /\ outcome # "none" /\ outcome # "pending"
  <2>1. CASE job.how = "sticky"
    <3>1. End(CASE stopReason = "cancel" -> "cancelled" [] stopReason = "timeout" -> "timeout" [] OTHER -> "lost")
      BY <2>1 DEF Exit
    <3>2. CASE stopReason = "cancel"
      BY <3>1, <3>2 DEF Outcomes
    <3>3. CASE stopReason # "cancel"
      <4>1. stopReason # "timeout"
        BY <1>0 DEF Reasons
      <4> QED
        BY <3>1, <3>3, <4>1 DEF Outcomes
    <3> QED
      BY <3>2, <3>3
  <2>2. CASE job.how = "oneShot"
    <3>1. End(IF job.timedOut THEN "timeout"
              ELSE IF job.cancelled \/ stopReason = "cancel" THEN "cancelled" ELSE "done")
      BY <2>2 DEF Exit
    <3>2. CASE job.timedOut
      BY <3>1, <3>2 DEF Outcomes
    <3>3. CASE ~job.timedOut /\ (job.cancelled \/ stopReason = "cancel")
      BY <3>1, <3>3 DEF Outcomes
    <3>4. CASE ~job.timedOut /\ ~(job.cancelled \/ stopReason = "cancel")
      BY <3>1, <3>4 DEF Outcomes
    <3> QED
      BY <3>2, <3>3, <3>4
  <2>3. CASE job.how = "background"
    <3>1. End(IF stopReason = "cancel" THEN "cancelled" ELSE "done")
      BY <2>3 DEF Exit
    <3> QED
      BY <3>1 DEF Outcomes
  <2> QED
    BY <1>n, <2>1, <2>2, <2>3
<1>e. /\ job' = Idle /\ queue' \in Seq(Tasks) /\ QueueOK' /\ result' \in [Commands -> Outcomes]
      /\ \A c \in Commands : result[c] = "detached" => result'[c] = "detached"
  BY <1>n, <1>z, EndOK
<1>x. job'.how = "idle" /\ job'.cmd = 0 /\ job'.proc = Nobody /\ JobOK'
      /\ job' \in Jobs
  BY <1>e DEF Idle, Hows, JobOK
<1>h. oneShot' = Nobody
  BY <1>0, <1>v DEF Fields
<1>1. Refs'
  BY <1>0, <1>u, <1>v, <1>w, <1>x DEF Typed, Refs
<1>2. Data'
  BY <1>0, <1>e, <1>u, <1>v DEF Typed, Data
<1>3. QueueOK'
  BY <1>e
<1>4. JobOK'
  BY <1>x
<1>5. Fields'
  <2>1. (job.how = "sticky" => child \in {Nobody, job.proc})'
    BY <1>x
  <2>2. (job.how = "sticky" /\ procs[job.proc].state = "alive" => child = job.proc)'
    BY <1>x
  <2>3. (oneShot # Nobody => job.how = "oneShot" /\ job.proc = oneShot)'
    BY <1>h
  <2>4. (job.how = "oneShot" => child = Nobody)'
    BY <1>x
  <2>5. (job.how = "background" => job.cmd \in procs[job.proc].cmds)'
    BY <1>x
  <2> QED
    BY <2>1, <2>2, <2>3, <2>4, <2>5 DEF Fields
<1>6. BackgroundOK'
  <2> SUFFICES ASSUME NEW q \in DOMAIN procs', procs'[q].state = "alive", q = background'
               PROVE  \E d \in procs'[q].cmds : result'[d] = "detached"
    BY DEF BackgroundOK
  <2>1. q \in DOMAIN procs /\ procs[q].state = "alive" /\ q = background /\ q # job.proc
    BY <1>v, <1>w
  <2>2. PICK d \in procs[q].cmds : result[d] = "detached"
    BY <1>0, <2>1 DEF BackgroundOK
  <2> QED
    BY <1>c, <1>e, <1>w, <2>1, <2>2
<1>7. Apart'
  BY <1>0, <1>u, <1>v DEF Apart
<1>8. NothingIsLeaked'
  <2> SUFFICES ASSUME NEW q \in DOMAIN procs', procs'[q].state = "alive", q \notin {child', background', oneShot'}
               PROVE  \E d \in procs'[q].cmds : result'[d] = "detached"
    BY DEF NothingIsLeaked
  <2>1. q \in DOMAIN procs /\ procs[q].state = "alive" /\ q # p
    BY <1>w
  <2>2. q \notin {child, background, oneShot}
    BY <1>0, <1>u, <1>v, <2>1 DEF Fields
  <2>3. PICK d \in procs[q].cmds : result[d] = "detached"
    BY <1>0, <2>1, <2>2 DEF NothingIsLeaked
  <2> QED
    BY <1>c, <1>w, <1>e, <2>1, <2>3
<1>9. Quiet'
  <2> SUFFICES ASSUME NEW q \in DOMAIN procs', procs'[q].state = "alive", q = child'
               PROVE  procs'[q].cmds = {}
    BY DEF Quiet
  <2>1. q \in DOMAIN procs /\ procs[q].state = "alive" /\ q = child /\ job.how # "sticky"
    BY <1>i, <1>u, <1>w
  <2>2. procs[q].cmds = {}
    BY <1>0, <2>1 DEF Quiet
  <2> QED
    BY <1>w, <2>1, <2>2
<1>10. Reasons'
  <2>1. UNCHANGED stopped /\ stopReason' # "timeout"
    BY <1>0, <1>u, <1>v DEF Reasons
  <2> QED
    BY <1>n, <1>z, <2>1, EndReasons
<1>11. SameDir'
  BY <1>0, <1>j, <1>u, <1>v, <1>w DEF SameDir
<1> QED
  BY <1>1, <1>2, <1>3, <1>4, <1>5, <1>6, <1>7, <1>8, <1>9, <1>10, <1>11 DEF IInv, Typed

-----------------------------------------------------------------------------
(* The strengthened invariant is inductive *)

(* A conversation starts without a shell and with nothing queued. *)
LEMMA InitHolds == Init => IInv
<1> SUFFICES ASSUME Init PROVE IInv
  OBVIOUS
<1> USE DEF Init
<1>1. Refs
  BY DEF Refs, Hows, Idle
<1>2. Data
  BY DEF Data, Outcomes
<1>3. QueueOK /\ JobOK /\ Fields
  BY DEF QueueOK, JobOK, Fields, Idle
<1>4. Reasons
  BY DEF Reasons, Idle
<1>5. BackgroundOK /\ Apart /\ SameDir /\ NothingIsLeaked /\ Quiet
  BY DEF BackgroundOK, Apart, SameDir, NothingIsLeaked, Quiet
<1> QED
  BY <1>1, <1>2, <1>3, <1>4, <1>5 DEF IInv, Typed

(* A step that changes nothing keeps every part of the invariant. *)
LEMMA StutterKeeps ==
  ASSUME IInv, UNCHANGED vars
  PROVE  IInv'
<1>1. Typed /\ QueueOK /\ JobOK /\ Fields /\ BackgroundOK /\ Apart /\ Reasons /\ SameDir /\ NothingIsLeaked /\ Quiet
  BY DEF IInv
<1>2. Typed'
  BY <1>1 DEF vars, Typed, Refs, Data
<1>3. QueueOK' /\ JobOK' /\ Fields'
  BY <1>1 DEF vars, QueueOK, JobOK, Fields
<1>4. BackgroundOK' /\ Apart'
  BY <1>1 DEF vars, BackgroundOK, Apart
<1>5. Reasons'
  BY <1>1 DEF vars, Reasons
<1>6. SameDir' /\ NothingIsLeaked' /\ Quiet'
  BY <1>1 DEF vars, SameDir, NothingIsLeaked, Quiet
<1> QED
  BY <1>2, <1>3, <1>4, <1>5, <1>6 DEF IInv

(* Every step of the shell keeps the invariant, one case per action. *)
LEMMA Inductive == IInv /\ [Next]_vars => IInv'
<1> SUFFICES ASSUME IInv, [Next]_vars PROVE IInv'
  OBVIOUS
<1>1. CASE SetSecret \/ SetShell \/ StopTurn
  BY <1>1, SetSecretKeeps, SetShellKeeps, StopTurnKeeps
<1>2. ASSUME NEW d \in Dirs, SetDir(d) PROVE IInv'
  BY <1>2, SetDirKeeps
<1>3. ASSUME NEW c \in Commands, NEW kind \in {"run", "background"}, Enqueue(c, kind) PROVE IInv'
  BY <1>3, EnqueueKeeps
<1>4. ASSUME NEW c \in Commands, ExecuteSticky(c) \/ ExecuteOneShot(c) \/ ExecuteBackground(c) PROVE IInv'
  BY <1>4, ExecuteStickyKeeps, ExecuteOneShotKeeps, ExecuteBackgroundKeeps
<1>5. CASE Silent \/ Skip \/ Marker
  BY <1>5, SilentKeeps, SkipKeeps, MarkerKeeps
<1>6. CASE TimeoutSticky \/ TimeoutOneShot \/ Settle
  BY <1>6, TimeoutStickyKeeps, TimeoutOneShotKeeps, SettleKeeps
<1>7. ASSUME NEW p \in Pids, Exit(p) PROVE IInv'
  <2>1. CASE job.proc = p
    BY <1>7, <2>1, HeardKeeps
  <2>2. CASE job.proc # p
    BY <1>7, <2>2, UnheardKeeps
  <2> QED
    BY <2>1, <2>2
<1>8. CASE UNCHANGED vars
  BY <1>8, StutterKeeps
<1> QED
  BY <1>1, <1>2, <1>3, <1>4, <1>5, <1>6, <1>7, <1>8 DEF Next

(* The strengthened invariant holds in every reachable state. *)
THEOREM Invariance == Spec => []IInv
<1> QED
  BY InitHolds, Inductive, PTL DEF Spec

-----------------------------------------------------------------------------
(* What it gives *)

(* The fields of StickyShell have their types, for any number of commands, *)
(* directories and changes of the session.                                 *)
THEOREM ShellTypeCorrect == Spec => []TypeOK
<1>1. IInv => TypeOK
  <2> SUFFICES ASSUME IInv PROVE TypeOK
    OBVIOUS
  <2>1. Refs /\ Data
    BY DEF IInv, Typed
  <2>2. /\ job.how \in {"idle", "sticky", "oneShot", "background"} /\ job.proc \in 0 .. Len(procs)
        /\ {child, background, oneShot} \subseteq 0 .. Len(procs) /\ procs \in Seq(ProcType)
    BY <2>1 DEF Refs, Hows
  <2>3. /\ stopReason \in {"null", "cancel", "timeout"} /\ cwd \in Dirs /\ secrets \in 0 .. MaxInputs
        /\ aborted \subseteq Commands /\ result \in [Commands -> Outcomes]
        /\ \A c \in Commands : given[c] = Unused \/ given[c] \in [dir : Dirs, env : 0 .. MaxInputs]
    BY <2>1 DEF Data
  <2> QED
    BY <2>2, <2>3 DEF TypeOK
<1> QED
  BY <1>1, Invariance, PTL

(* No Stop, timeout, change of shell or replaced background leaves a       *)
(* process behind that nothing would kill, but a detached command.         *)
THEOREM NoProcessIsLeaked == Spec => []NothingIsLeaked
<1>1. IInv => NothingIsLeaked
  BY DEF IInv
<1> QED
  BY <1>1, Invariance, PTL

(* A shell that runs never has the output of two commands to give: what a  *)
(* timeout or a Stop gave up went with its shell.                          *)
THEOREM OneCommandAtATime == Spec => []OneCommandPerShell
<1>1. IInv => OneCommandPerShell
  BY DEF IInv, Quiet, OneCommandPerShell
<1> QED
  BY <1>1, Invariance, PTL

(* The reason that ends a command of the sticky shell is its own: a Stop   *)
(* that met an earlier one never makes it cancelled, and one that met it   *)
(* never looks like a crash of the shell.                                  *)
THEOREM StopsAreReported == Spec => StopIsReported
<1> DEFINE Reported ==
      \A c \in Commands : result[c] = "pending" /\ job.cmd = c /\ job.how = "sticky" =>
        /\ result'[c] = "cancelled" => c \in stopped'
        /\ result'[c] = "lost" => c \notin stopped'
<1>1. IInv /\ [Next]_vars => [Reported]_vars
  <2> SUFFICES ASSUME IInv, Next, NEW c \in Commands,
                      result[c] = "pending", job.cmd = c, job.how = "sticky", result'[c] # result[c]
               PROVE  /\ result'[c] = "cancelled" => c \in stopped'
                      /\ result'[c] = "lost" => c \notin stopped'
    OBVIOUS
  <2>1. Reasons /\ job # Idle /\ result \in [Commands -> Outcomes]
    BY DEF IInv, Typed, Data, Idle
  <2>2. ASSUME NEW p \in Pids, Exit(p)
        PROVE  /\ result'[c] = "cancelled" => c \in stopped'
               /\ result'[c] = "lost" => c \notin stopped'
    <3>1. stopped' = stopped
      BY <2>2 DEF Exit
    <3>2. End(CASE stopReason = "cancel" -> "cancelled" [] stopReason = "timeout" -> "timeout" [] OTHER -> "lost")
      BY <2>2 DEF Exit
    <3>3. result'[c] = CASE stopReason = "cancel" -> "cancelled" [] stopReason = "timeout" -> "timeout" [] OTHER -> "lost"
      BY <2>1, <3>2 DEF End
    <3>4. stopReason = "cancel" <=> c \in stopped
      BY <2>1 DEF Reasons
    <3>5. CASE stopReason = "cancel"
      BY <3>1, <3>3, <3>4, <3>5
    <3>6. CASE stopReason # "cancel"
      BY <3>1, <3>3, <3>4
    <3> QED
      BY <3>5, <3>6
  <2>3. CASE Marker \/ TimeoutSticky
    BY <2>1, <2>3 DEF Marker, TimeoutSticky, TimeoutEnds, End
  <2>4. CASE SetSecret \/ SetShell \/ StopTurn \/ Silent \/ Skip \/ TimeoutOneShot \/ Settle
    BY <2>1, <2>4 DEF SetSecret, SetShell, StopTurn, Silent, Skip, Ready, TimeoutOneShot, Settle
  <2>5. ASSUME NEW d \in Dirs, SetDir(d) PROVE FALSE
    BY <2>5 DEF SetDir
  <2>6. ASSUME NEW e \in Commands, NEW kind \in {"run", "background"}, Enqueue(e, kind) PROVE FALSE
    BY <2>1, <2>6 DEF Enqueue
  <2>7. ASSUME NEW e \in Commands, ExecuteSticky(e) \/ ExecuteOneShot(e) \/ ExecuteBackground(e) PROVE FALSE
    BY <2>1, <2>7 DEF ExecuteSticky, ExecuteOneShot, ExecuteBackground, Ready
  <2> QED
    BY <2>2, <2>3, <2>4, <2>5, <2>6, <2>7 DEF Next
<1>2. Spec => [][Reported]_vars
  BY <1>1, Invariance, PTL DEF Spec
<1> QED
  BY <1>2 DEF StopIsReported

-----------------------------------------------------------------------------
(* What commands see of the session's secrets.  A change is told through   *)
(* the queue, so what a shell was started with may be newer than what the  *)
(* queue tells it next: what counts for a command is the last telling in   *)
(* front of it, or the shell itself when none is left.                     *)

ShellKnows(v) == child = Nobody \/ procs[child].env >= v

(* By the time the queue comes to i, its shell knows the secrets v. *)
Told(i, v) ==
  \/ ShellKnows(v) /\ \A k \in 1 .. i - 1 : queue[k].kind # "silent"
  \/ \E k \in 1 .. i - 1 :
       /\ queue[k].kind = "silent" /\ queue[k].env >= v
       /\ \A m \in k + 1 .. i - 1 : queue[m].kind # "silent"

Informed ==
  /\ asked \in [Commands -> Nat] /\ \A c \in Commands : asked[c] <= secrets
  /\ \A c \in Commands : given[c] # Unused => result[c] # "none" /\ given[c].env >= asked[c]
  /\ Told(Len(queue) + 1, secrets)
  /\ \A i \in DOMAIN queue : queue[i].kind # "silent" => Told(i, asked[queue[i].cmd])

(* The shell is gone, or knows what it knew, or was started just now. *)
ShellKeeps ==
  \/ child' = Nobody
  \/ child' = child /\ procs'[child].env = procs[child].env
  \/ procs'[child'].env = secrets

(* The types that the arithmetic needs. *)
LEMMA QueueShape ==
  ASSUME IInv
  PROVE  /\ queue \in Seq(Tasks) /\ Len(queue) \in Nat /\ DOMAIN queue = 1 .. Len(queue)
         /\ \A i \in DOMAIN queue : queue[i].env \in Int
         /\ secrets \in Nat
<1>1. queue \in Seq(Tasks) /\ secrets \in Nat
  BY DEF IInv, Typed, Data
<1>2. Len(queue) \in Nat /\ DOMAIN queue = 1 .. Len(queue) /\ \A i \in DOMAIN queue : queue[i] \in Tasks
  BY <1>1
<1> QED
  BY <1>1, <1>2 DEF Tasks

(* A shell that keeps what it knows tells no command less. *)
LEMMA StaysTold ==
  ASSUME NEW i \in Nat, NEW v \in Nat, v <= secrets, secrets \in Nat, Told(i, v), queue' = queue, ShellKeeps
  PROVE  Told(i, v)'
<1>1. ShellKnows(v) => ShellKnows(v)'
  BY DEF ShellKnows, ShellKeeps
<1> QED
  BY <1>1 DEF Told

(* When the head of the queue is done, those behind it are still told: if  *)
(* it was a telling, the shell has it now.                                 *)
LEMMA PopTold ==
  ASSUME queue \in Seq(Tasks), queue # << >>, queue' = Tail(queue),
         NEW i \in 2 .. Len(queue) + 1, NEW v \in Nat, v <= secrets, secrets \in Nat, Told(i, v),
         IF queue[1].kind = "silent" THEN child' = Nobody \/ procs'[child'].env = queue[1].env ELSE ShellKeeps
  PROVE  Told(i - 1, v)'
<1>1. /\ Len(queue) \in Nat
      /\ \A k \in 1 .. Len(queue) - 1 : queue'[k] = queue[k + 1]
  OBVIOUS
<1>2. CASE ShellKnows(v) /\ \A k \in 1 .. i - 1 : queue[k].kind # "silent"
  <2>1. queue[1].kind # "silent"
    BY <1>1, <1>2
  <2>2. ShellKnows(v)'
    BY <1>2, <2>1 DEF ShellKnows, ShellKeeps
  <2>3. \A k \in 1 .. i - 1 - 1 : queue'[k].kind # "silent"
    <3> TAKE k \in 1 .. i - 1 - 1
    <3>1. k \in 1 .. Len(queue) - 1 /\ k + 1 \in 1 .. i - 1
      BY <1>1
    <3> QED
      BY <1>1, <1>2, <3>1
  <2> QED
    BY <2>2, <2>3 DEF Told
<1>3. ASSUME NEW k \in 1 .. i - 1, queue[k].kind = "silent", queue[k].env >= v,
             \A m \in k + 1 .. i - 1 : queue[m].kind # "silent"
      PROVE  Told(i - 1, v)'
  <2>0. \A m \in 1 .. i - 1 - 1 : m \in 1 .. Len(queue) - 1 /\ m + 1 \in 1 .. i - 1 /\ (m + 1 \in k + 1 .. i - 1 <=> m >= k)
    BY <1>1
  <2>1. CASE k = 1
    <3>1. ShellKnows(v)'
      BY <1>3, <2>1 DEF ShellKnows
    <3>2. \A m \in 1 .. i - 1 - 1 : queue'[m].kind # "silent"
      BY <1>1, <1>3, <2>0, <2>1
    <3> QED
      BY <3>1, <3>2 DEF Told
  <2>2. CASE k # 1
    <3>1. k - 1 \in 1 .. i - 1 - 1 /\ k - 1 \in 1 .. Len(queue) - 1 /\ (k - 1) + 1 = k
      BY <1>1, <2>2
    <3>2. queue'[k - 1] = queue[k]
      BY <1>1, <3>1
    <3>3. \A m \in (k - 1) + 1 .. i - 1 - 1 : queue'[m].kind # "silent"
      <4> TAKE m \in (k - 1) + 1 .. i - 1 - 1
      <4>1. m \in 1 .. i - 1 - 1 /\ m >= k
        BY <3>1
      <4> QED
        BY <1>1, <1>3, <2>0, <4>1
    <3> QED
      BY <1>3, <3>1, <3>2, <3>3 DEF Told
  <2> QED
    BY <2>1, <2>2
<1> QED
  BY <1>2, <1>3 DEF Told

(* The steps that leave the queue and what was given alone. *)
LEMMA StaysInformed ==
  ASSUME IInv, Informed, ShellKeeps, UNCHANGED <<queue, asked, secrets, given>>,
         \A c \in Commands : result[c] # "none" => result'[c] # "none"
  PROVE  Informed'
<1>0. /\ Len(queue) \in Nat /\ DOMAIN queue = 1 .. Len(queue) /\ secrets \in Nat
  BY QueueShape
<1>1. Told(Len(queue) + 1, secrets)'
  <2>1. PICK n \in Nat : n = Len(queue) + 1
    BY <1>0
  <2>2. PICK v \in Nat : v = secrets
    BY <1>0
  <2>3. Told(n, v)
    BY <2>1, <2>2 DEF Informed
  <2>4. Told(n, v)'
    BY <1>0, <2>2, <2>3, StaysTold
  <2> QED
    BY <2>1, <2>2, <2>4
<1>2. ASSUME NEW i \in DOMAIN queue, queue[i].kind # "silent"
      PROVE  Told(i, asked[queue[i].cmd])'
  <2>1. queue[i].cmd \in Commands
    BY <1>2 DEF IInv, QueueOK
  <2>2. PICK v \in Nat : v = asked[queue[i].cmd]
    BY <2>1 DEF Informed
  <2>3. Told(i, v) /\ v <= secrets
    BY <1>2, <2>1, <2>2 DEF Informed
  <2>4. Told(i, v)'
    BY <1>0, <2>3, StaysTold
  <2> QED
    BY <2>2, <2>4
<1> QED
  BY <1>1, <1>2 DEF Informed

(* The head of the queue is done. *)
LEMMA PopInformed ==
  ASSUME IInv, Informed, queue # << >>, queue' = Tail(queue), UNCHANGED <<asked, secrets, given>>,
         \A c \in Commands : result[c] # "none" => result'[c] # "none",
         IF queue[1].kind = "silent" THEN child' = Nobody \/ procs'[child'].env = queue[1].env ELSE ShellKeeps
  PROVE  Informed'
<1>0. /\ queue \in Seq(Tasks) /\ Len(queue) \in Nat /\ DOMAIN queue = 1 .. Len(queue) /\ secrets \in Nat
  BY QueueShape
<1>1. /\ Len(queue) >= 1 /\ Len(queue') = Len(queue) - 1 /\ DOMAIN queue' = 1 .. Len(queue) - 1
      /\ \A k \in 1 .. Len(queue) - 1 : queue'[k] = queue[k + 1]
  BY <1>0
<1>2. Told(Len(queue) + 1, secrets)'
  <2>1. PICK n \in Nat : n = Len(queue) + 1
    BY <1>0
  <2>2. PICK v \in Nat : v = secrets
    BY <1>0
  <2>3. Told(n, v) /\ n \in 2 .. Len(queue) + 1 /\ v <= secrets
    BY <1>0, <1>1, <2>1, <2>2 DEF Informed
  <2>4. Told(n - 1, v)'
    BY <1>0, <2>3, PopTold
  <2>5. n - 1 = Len(queue') + 1
    BY <1>0, <1>1, <2>1
  <2> QED
    BY <2>2, <2>4, <2>5
<1>3. ASSUME NEW i \in DOMAIN queue', queue'[i].kind # "silent"
      PROVE  Told(i, asked[queue[i].cmd])'
  <2>1. i + 1 \in DOMAIN queue /\ queue'[i] = queue[i + 1] /\ i + 1 \in 2 .. Len(queue) + 1 /\ (i + 1) - 1 = i
    BY <1>0, <1>1
  <2>2. queue[i + 1].cmd \in Commands
    BY <1>3, <2>1 DEF IInv, QueueOK
  <2>3. PICK v \in Nat : v = asked[queue[i + 1].cmd]
    BY <2>2 DEF Informed
  <2>4. Told(i + 1, v) /\ v <= secrets
    BY <1>3, <2>1, <2>2, <2>3 DEF Informed
  <2>5. Told((i + 1) - 1, v)'
    BY <1>0, <2>1, <2>4, PopTold
  <2>6. Told(i, v)'
    BY <2>1, <2>5
  <2> QED
    BY <2>1, <2>3, <2>6
<1> QED
  BY <1>2, <1>3 DEF Informed

(* A task is handed in behind the others: those are told what they were    *)
(* told before.                                                            *)
LEMMA PushTold ==
  ASSUME queue \in Seq(Tasks), NEW task \in Tasks, queue' = Append(queue, task), UNCHANGED <<child, procs>>,
         NEW i \in 1 .. Len(queue) + 1, NEW v, Told(i, v)
  PROVE  Told(i, v)' /\ (task.kind # "silent" /\ i = Len(queue) + 1 => Told(i + 1, v)')
<1>1. /\ Len(queue) \in Nat /\ queue'[Len(queue) + 1] = task
      /\ \A k \in 1 .. Len(queue) : queue'[k] = queue[k]
  OBVIOUS
<1>2. \A k \in 1 .. i - 1 : k \in 1 .. Len(queue) /\ queue'[k] = queue[k]
  BY <1>1
<1>3. ShellKnows(v) => ShellKnows(v)'
  BY DEF ShellKnows
<1>4. Told(i, v)'
  <2>1. CASE ShellKnows(v) /\ \A k \in 1 .. i - 1 : queue[k].kind # "silent"
    BY <1>2, <1>3, <2>1 DEF Told
  <2>2. ASSUME NEW k \in 1 .. i - 1, queue[k].kind = "silent", queue[k].env >= v,
               \A m \in k + 1 .. i - 1 : queue[m].kind # "silent"
        PROVE  Told(i, v)'
    <3>1. \A m \in k + 1 .. i - 1 : queue'[m].kind # "silent"
      BY <1>2, <2>2
    <3> QED
      BY <1>2, <2>2, <3>1 DEF Told
  <2> QED
    BY <2>1, <2>2 DEF Told
<1>5. ASSUME task.kind # "silent", i = Len(queue) + 1
      PROVE  Told(i + 1, v)'
  <2>0. \A k \in 1 .. (i + 1) - 1 : k \in 1 .. i - 1 \/ queue'[k].kind # "silent"
    BY <1>1, <1>5
  <2>1. CASE ShellKnows(v)' /\ \A k \in 1 .. i - 1 : queue'[k].kind # "silent"
    BY <2>0, <2>1 DEF Told
  <2>2. ASSUME NEW k \in 1 .. i - 1, queue'[k].kind = "silent", queue'[k].env >= v,
               \A m \in k + 1 .. i - 1 : queue'[m].kind # "silent"
        PROVE  Told(i + 1, v)'
    <3>1. \A m \in k + 1 .. (i + 1) - 1 : queue'[m].kind # "silent"
      BY <2>0, <2>2
    <3>2. k \in 1 .. (i + 1) - 1
      OBVIOUS
    <3> QED
      BY <2>2, <3>1, <3>2 DEF Told
  <2> QED
    BY <1>4, <2>1, <2>2 DEF Told
<1> QED
  BY <1>4, <1>5

(* A change of the secrets is told behind everything queued so far. *)
LEMMA SetSecretInforms ==
  ASSUME IInv, Informed, SetSecret
  PROVE  Informed'
<1> DEFINE task == [kind |-> "silent", cmd |-> 0, env |-> secrets + 1]
<1>0. /\ queue \in Seq(Tasks) /\ Len(queue) \in Nat /\ DOMAIN queue = 1 .. Len(queue) /\ secrets \in Nat
  BY QueueShape
<1>1. /\ queue' = Append(queue, task) /\ secrets' = secrets + 1
      /\ UNCHANGED <<child, procs, asked, given, result>>
  BY DEF SetSecret
<1>2. task \in Tasks /\ task.kind = "silent" /\ task.env = secrets + 1
  <2>1. secrets + 1 \in 0 .. MaxInputs
    BY DEF SetSecret, Input, IInv, Typed, Data
  <2> QED
    BY <2>1 DEF Tasks
<1> HIDE DEF task
<1>3. /\ Len(queue') = Len(queue) + 1 /\ DOMAIN queue' = 1 .. Len(queue) + 1
      /\ queue'[Len(queue) + 1] = task /\ \A k \in 1 .. Len(queue) : queue'[k] = queue[k]
  BY <1>0, <1>1, <1>2
<1>4. Told(Len(queue) + 1, secrets)'
  <2>1. PICK n \in Nat : n = Len(queue) + 1
    BY <1>0
  <2>2. n \in 1 .. (n + 1) - 1 /\ \A m \in n + 1 .. (n + 1) - 1 : FALSE
    BY <2>1
  <2>3. queue'[n].kind = "silent" /\ queue'[n].env = secrets'
    BY <1>1, <1>2, <1>3, <2>1
  <2>4. queue'[n].env >= secrets' /\ Len(queue') + 1 = n + 1
    BY <1>0, <1>1, <1>3, <2>1, <2>3
  <2>5. Len(queue)' + 1 = n + 1
    BY <2>4
  <2> QED
    BY <2>2, <2>3, <2>4, <2>5 DEF Told
<1>5. ASSUME NEW i \in DOMAIN queue', queue'[i].kind # "silent"
      PROVE  Told(i, asked[queue[i].cmd])'
  <2>1. i \in DOMAIN queue /\ queue'[i] = queue[i] /\ i \in 1 .. Len(queue) + 1
    BY <1>0, <1>2, <1>3, <1>5
  <2>2. queue[i].cmd \in Commands
    BY <1>5, <2>1 DEF IInv, QueueOK
  <2>3. PICK v \in Nat : v = asked[queue[i].cmd]
    BY <2>2 DEF Informed
  <2>4. Told(i, v)
    BY <1>5, <2>1, <2>3 DEF Informed
  <2>5. Told(i, v)'
    BY <1>0, <1>1, <1>2, <2>1, <2>4, PushTold
  <2> QED
    BY <1>1, <2>1, <2>3, <2>5
<1>6. \A c \in Commands : asked[c] \in Nat /\ asked[c] <= secrets + 1
  BY <1>0 DEF Informed
<1> QED
  BY <1>1, <1>4, <1>5, <1>6 DEF Informed

(* A command is told what its session has when it is handed in. *)
LEMMA EnqueueInforms ==
  ASSUME IInv, Informed, NEW c \in Commands, NEW kind \in {"run", "background"}, Enqueue(c, kind)
  PROVE  Informed'
<1> DEFINE task == [kind |-> kind, cmd |-> c, env |-> -1]
<1>0. /\ queue \in Seq(Tasks) /\ Len(queue) \in Nat /\ DOMAIN queue = 1 .. Len(queue) /\ secrets \in Nat
      /\ \A i \in DOMAIN queue : queue[i].env \in Int
  BY QueueShape
<1>1. /\ queue' = Append(queue, task) /\ secrets' = secrets /\ asked' = [asked EXCEPT ![c] = secrets]
      /\ UNCHANGED <<child, procs, given>> /\ result' = [result EXCEPT ![c] = "pending"] /\ result[c] = "none"
  BY DEF Enqueue
<1>2. task \in Tasks /\ task.kind # "silent" /\ task.cmd = c
  BY DEF Tasks
<1> HIDE DEF task
<1>3. /\ Len(queue') = Len(queue) + 1 /\ DOMAIN queue' = 1 .. Len(queue) + 1
      /\ queue'[Len(queue) + 1] = task /\ \A k \in 1 .. Len(queue) : queue'[k] = queue[k]
  BY <1>0, <1>1, <1>2
<1>4. PICK n \in 1 .. Len(queue) + 1 : n = Len(queue) + 1
  BY <1>0
<1>5. PICK v \in Nat : v = secrets
  BY <1>0
<1>6. Told(n, v)
  BY <1>4, <1>5 DEF Informed
<1>7. Told(n, v)' /\ Told(n + 1, v)'
  BY <1>0, <1>1, <1>2, <1>4, <1>6, PushTold
<1>8. Told(Len(queue) + 1, secrets)'
  <2>1. Len(queue') + 1 = n + 1
    BY <1>3, <1>4
  <2> QED
    BY <1>1, <1>5, <1>7, <2>1
<1>9. ASSUME NEW i \in DOMAIN queue', queue'[i].kind # "silent"
      PROVE  Told(i, asked[queue[i].cmd])'
  <2>1. CASE i = n
    <3>1. queue'[i].cmd = c
      BY <1>2, <1>3, <1>4, <2>1
    <3>2. asked'[c] = v
      BY <1>1, <1>5 DEF Informed
    <3> QED
      BY <1>7, <2>1, <3>1, <3>2
  <2>2. CASE i # n
    <3>1. i \in DOMAIN queue /\ queue'[i] = queue[i] /\ i \in 1 .. Len(queue) + 1
      BY <1>0, <1>3, <1>4, <2>2
    <3>2. queue[i].cmd \in Commands /\ result[queue[i].cmd] = "pending"
      BY <1>9, <3>1 DEF IInv, QueueOK
    <3>3. asked'[queue[i].cmd] = asked[queue[i].cmd]
      BY <1>1, <3>2 DEF Informed
    <3>4. PICK w \in Nat : w = asked[queue[i].cmd]
      BY <3>2 DEF Informed
    <3>5. Told(i, w)
      BY <1>9, <3>1, <3>4 DEF Informed
    <3>6. Told(i, w)'
      BY <1>0, <1>1, <1>2, <3>1, <3>5, PushTold
    <3> QED
      BY <3>1, <3>3, <3>4, <3>6
  <2> QED
    BY <2>1, <2>2
<1>10. asked' \in [Commands -> Nat] /\ \A d \in Commands : asked'[d] <= secrets'
  BY <1>0, <1>1 DEF Informed
<1>11. \A d \in Commands : given'[d] # Unused => result'[d] # "none" /\ given'[d].env >= asked'[d]
  <2> TAKE d \in Commands
  <2>1. given'[d] = given[d] /\ (d # c => result'[d] = result[d] /\ asked'[d] = asked[d]) /\ given[c] = Unused
    BY <1>1 DEF Informed, IInv, Typed, Data
  <2> QED
    BY <2>1 DEF Informed
<1> QED
  BY <1>8, <1>9, <1>10, <1>11 DEF Informed

(* A command begins: its process is the shell, or is started with what the *)
(* session has now.                                                        *)
LEMMA BeginInforms ==
  ASSUME IInv, Informed, NEW c \in Commands, NEW how, NEW p, Begin(c, how, p), ShellKeeps, Ready,
         Task.kind # "silent", Task.cmd = c,
         procs'[p].env = secrets \/ (p = child /\ child # Nobody /\ procs'[p].env = procs[p].env)
  PROVE  Informed'
<1>0. /\ Len(queue) \in Nat /\ DOMAIN queue = 1 .. Len(queue) /\ secrets \in Nat
  BY QueueShape
<1>1. /\ UNCHANGED <<queue, asked, secrets, result>>
      /\ given' = [given EXCEPT ![c] = [dir |-> procs'[p].dir, env |-> procs'[p].env]]
  BY DEF Begin
<1>2. queue[1].kind # "silent" /\ queue[1].cmd = c /\ 1 \in DOMAIN queue
  BY ReadyOK
<1>3. result[c] = "pending"
  BY <1>2 DEF IInv, QueueOK
<1>4. asked[c] \in Nat /\ asked[c] <= secrets
  BY DEF Informed
<1>5. Told(1, asked[c])
  BY <1>2 DEF Informed
<1>6. ShellKnows(asked[c])
  BY <1>5 DEF Told
<1>7. procs'[p].env >= asked[c]
  BY <1>0, <1>4, <1>6 DEF ShellKnows
<1>8. \A d \in Commands : given'[d] # Unused => result[d] # "none" /\ given'[d].env >= asked[d]
  <2> TAKE d \in Commands
  <2>1. given \in [Commands -> [dir : Dirs, env : 0 .. MaxInputs] \cup {Unused}]
    BY DEF IInv, Typed, Data
  <2>2. CASE d = c
    BY <1>1, <1>3, <1>7, <2>1, <2>2
  <2>3. CASE d # c
    BY <1>1, <2>1, <2>3 DEF Informed
  <2> QED
    BY <2>2, <2>3
<1>9. Told(Len(queue) + 1, secrets)'
  <2>1. PICK n \in Nat : n = Len(queue) + 1
    BY <1>0
  <2>2. PICK v \in Nat : v = secrets
    BY <1>0
  <2>3. Told(n, v)
    BY <2>1, <2>2 DEF Informed
  <2>4. Told(n, v)'
    <3>1. queue' = queue /\ v <= secrets
      BY <1>0, <1>1, <2>2
    <3> QED
      BY <1>0, <2>3, <3>1, StaysTold
  <2> QED
    BY <1>1, <2>1, <2>2, <2>4
<1>10. ASSUME NEW i \in DOMAIN queue, queue[i].kind # "silent"
       PROVE  Told(i, asked[queue[i].cmd])'
  <2>1. queue[i].cmd \in Commands
    BY <1>10 DEF IInv, QueueOK
  <2>2. PICK v \in Nat : v = asked[queue[i].cmd]
    BY <2>1 DEF Informed
  <2>3. Told(i, v) /\ v <= secrets
    BY <1>10, <2>1, <2>2 DEF Informed
  <2>4. Told(i, v)'
    BY <1>0, <1>1, <2>3, StaysTold
  <2> QED
    BY <1>1, <2>2, <2>4
<1> QED
  BY <1>1, <1>8, <1>9, <1>10 DEF Informed

(* The three ways to run a command. *)
LEMMA ExecuteInforms ==
  ASSUME IInv, Informed, NEW c \in Commands, ExecuteSticky(c) \/ ExecuteOneShot(c) \/ ExecuteBackground(c)
  PROVE  Informed'
<1>1. /\ procs \in Seq(ProcType) /\ Len(procs) \in Nat /\ DOMAIN procs = 1 .. Len(procs)
      /\ child \in 0 .. Len(procs) /\ cwd \in Dirs /\ secrets \in 0 .. MaxInputs
  BY DEF IInv, Typed, Refs, Data
<1>2. Ready /\ Task.kind # "silent" /\ Task.cmd = c
  BY DEF ExecuteSticky, ExecuteOneShot, ExecuteBackground
<1>3. ASSUME procs' = Spawned({c})
      PROVE  procs'[NewPid].env = secrets /\ \A q \in DOMAIN procs : procs'[q] = procs[q]
  <2>1. {c} \in SUBSET Commands
    OBVIOUS
  <2>2. /\ \A q \in DOMAIN procs : procs'[q] = procs[q]
        /\ procs'[Len(procs) + 1] = [state |-> "alive", dir |-> cwd, env |-> secrets, cmds |-> {c}]
    BY <1>1, <1>3, <2>1, SpawnType
  <2> QED
    BY <2>2 DEF NewPid
<1>4. CASE ExecuteSticky(c)
  <2>1. Begin(c, "sticky", child')
    BY <1>4 DEF ExecuteSticky
  <2>2. CASE child = Nobody
    <3>1. procs'[child'].env = secrets
      BY <1>3, <1>4, <2>2 DEF ExecuteSticky
    <3> QED
      BY <1>2, <2>1, <3>1, BeginInforms DEF ShellKeeps
  <2>3. CASE child # Nobody
    <3>1. child' = child /\ procs' = Write(child, [procs[child] EXCEPT !.cmds = @ \cup {c}])
      BY <1>4, <2>3 DEF ExecuteSticky
    <3>2. child \in DOMAIN procs /\ procs[child] \in ProcType
      BY <1>1, <2>3
    <3>3. procs'[child].env = procs[child].env
      BY <1>1, <3>1, <3>2 DEF Write, ProcType
    <3> QED
      BY <1>2, <2>1, <2>3, <3>1, <3>3, BeginInforms DEF ShellKeeps
  <2> QED
    BY <2>2, <2>3
<1>5. CASE ExecuteOneShot(c)
  <2>1. Begin(c, "oneShot", NewPid) /\ procs'[NewPid].env = secrets /\ child' = Nobody
    BY <1>3, <1>5 DEF ExecuteOneShot
  <2> QED
    BY <1>2, <2>1, BeginInforms DEF ShellKeeps
<1>6. CASE ExecuteBackground(c)
  <2>1. Begin(c, "background", NewPid) /\ procs'[NewPid].env = secrets /\ child' = child
    BY <1>3, <1>6 DEF ExecuteBackground
  <2>2. child' = Nobody \/ procs'[child].env = procs[child].env
    <3>1. child = Nobody \/ child \in DOMAIN procs
      BY <1>1
    <3> QED
      BY <1>3, <1>6, <2>1, <3>1 DEF ExecuteBackground
  <2> QED
    BY <1>2, <2>1, <2>2, BeginInforms DEF ShellKeeps
<1> QED
  BY <1>4, <1>5, <1>6

(* No other step gives a shell other secrets than the queue tells it. *)
LEMMA OthersInform ==
  ASSUME IInv, Informed, [Next]_vars, ~SetSecret,
         \A c \in Commands : ~(ExecuteSticky(c) \/ ExecuteOneShot(c) \/ ExecuteBackground(c)),
         \A c \in Commands, kind \in {"run", "background"} : ~Enqueue(c, kind)
  PROVE  Informed'
<1>1. /\ procs \in Seq(ProcType) /\ Len(procs) \in Nat /\ DOMAIN procs = 1 .. Len(procs)
      /\ child \in 0 .. Len(procs) /\ cwd \in Dirs /\ secrets \in 0 .. MaxInputs
      /\ result \in [Commands -> Outcomes]
      /\ \A q \in DOMAIN procs : procs[q] \in ProcType
  BY DEF IInv, Typed, Refs, Data
<1>2. ASSUME NEW p \in DOMAIN procs, NEW rec, rec.env = procs[p].env, procs' = Write(p, rec),
             child' = child \/ child' = Nobody
      PROVE  ShellKeeps
  BY <1>1, <1>2 DEF Write, ShellKeeps
<1>3. ASSUME NEW o, End(o), o # "none", job.how # "idle", UNCHANGED <<asked, secrets, given>>, ShellKeeps
      PROVE  Informed'
  <2>1. queue # << >> /\ queue[1].kind # "silent" /\ queue' = Tail(queue)
    BY <1>3, UnderWay DEF End, IInv
  <2>2. \A c \in Commands : result[c] # "none" => result'[c] # "none"
    BY <1>1, <1>3 DEF End
  <2> QED
    BY <1>3, <2>1, <2>2, PopInformed
<1>4. CASE SetShell
  BY <1>4, StaysInformed DEF SetShell, Dispose, ShellKeeps
<1>5. CASE StopTurn
  <2>1. ShellKeeps /\ UNCHANGED <<asked, secrets, given>>
    BY <1>5 DEF StopTurn, Dispose, ShellKeeps
  <2>2. CASE job.how = "background"
    <3>1. End("cancelled")
      BY <1>5, <2>2 DEF StopTurn, End
    <3> QED
      BY <1>3, <2>1, <2>2, <3>1
  <2>3. CASE job.how # "background"
    BY <1>5, <2>1, <2>3, StaysInformed DEF StopTurn
  <2> QED
    BY <2>2, <2>3
<1>6. ASSUME NEW d \in Dirs, SetDir(d) PROVE Informed'
  <2>1. ShellKeeps
    <3>1. CASE child = Nobody
      BY <1>6, <3>1 DEF SetDir, ShellKeeps
    <3>2. CASE child # Nobody
      <4>1. child \in DOMAIN procs /\ [procs[child] EXCEPT !.dir = d].env = procs[child].env
        BY <1>1, <3>2 DEF ProcType
      <4> QED
        BY <1>2, <1>6, <3>2, <4>1 DEF SetDir
    <3> QED
      BY <3>1, <3>2
  <2> QED
    BY <1>6, <2>1, StaysInformed DEF SetDir
<1>7. CASE Silent
  <2>1. queue # << >> /\ queue[1] = Task /\ queue' = Tail(queue) /\ queue[1].kind = "silent"
    BY <1>7, ReadyOK DEF Silent
  <2>2. child' = Nobody \/ procs'[child'].env = queue[1].env
    <3>1. CASE child = Nobody
      BY <1>7, <3>1 DEF Silent
    <3>2. CASE child # Nobody
      <4>1. child \in DOMAIN procs /\ procs' = Write(child, [procs[child] EXCEPT !.env = Task.env]) /\ child' = child
        BY <1>1, <1>7, <3>2 DEF Silent
      <4>2. [procs[child] EXCEPT !.env = Task.env].env = Task.env
        BY <1>1, <4>1 DEF ProcType
      <4> QED
        BY <1>1, <2>1, <4>1, <4>2 DEF Write
    <3> QED
      BY <3>1, <3>2
  <2> QED
    BY <1>7, <2>1, <2>2, PopInformed DEF Silent
<1>8. CASE Skip
  <2>1. queue # << >> /\ queue[1] = Task /\ queue' = Tail(queue) /\ queue[1].kind # "silent" /\ ShellKeeps
    BY <1>8, ReadyOK DEF Skip, ShellKeeps
  <2>2. \A c \in Commands : result[c] # "none" => result'[c] # "none"
    BY <1>1, <1>8 DEF Skip
  <2> QED
    BY <1>8, <2>1, <2>2, PopInformed DEF Skip
<1>9. CASE Marker
  <2>1. job.proc \in DOMAIN procs /\ job.how # "idle"
    BY <1>9, UnderWay DEF Marker, IInv
  <2>2. [procs[job.proc] EXCEPT !.cmds = @ \ {job.cmd}].env = procs[job.proc].env
    BY <1>1, <2>1 DEF ProcType
  <2>3. ShellKeeps
    BY <1>2, <1>9, <2>1, <2>2 DEF Marker
  <2> QED
    BY <1>3, <1>9, <2>1, <2>3 DEF Marker
<1>10. CASE TimeoutSticky
  <2>1. ShellKeeps
    BY <1>10 DEF TimeoutSticky, TimeoutEnds, Dispose, ShellKeeps
  <2> QED
    BY <1>3, <1>10, <2>1 DEF TimeoutSticky, TimeoutEnds
<1>11. CASE TimeoutOneShot
  <2>1. ShellKeeps
    BY <1>1, <1>11, KillType DEF TimeoutOneShot, ShellKeeps
  <2> QED
    BY <1>11, <2>1, StaysInformed DEF TimeoutOneShot
<1>12. CASE Settle
  BY <1>3, <1>12 DEF Settle, ShellKeeps
<1>13. ASSUME NEW p \in Pids, Exit(p) PROVE Informed'
  <2>1. [procs[p] EXCEPT !.state = "gone"].env = procs[p].env
    BY <1>1 DEF ProcType
  <2>2. ShellKeeps /\ UNCHANGED <<asked, secrets, given>>
    BY <1>2, <1>13, <2>1 DEF Exit
  <2>3. CASE job.proc # p
    BY <1>13, <2>2, <2>3, StaysInformed DEF Exit
  <2>4. CASE job.proc = p
    <3>1. job.how # "idle" /\ \E o : o # "none" /\ End(o)
      BY <1>13, <2>4 DEF Exit
    <3> QED
      BY <1>3, <2>2, <3>1
  <2> QED
    BY <2>3, <2>4
<1>14. CASE UNCHANGED vars
  BY <1>14, StaysInformed DEF vars, ShellKeeps
<1> QED
  BY <1>4, <1>5, <1>6, <1>7, <1>8, <1>9, <1>10, <1>11, <1>12, <1>13, <1>14 DEF Next

(* Every command runs with the secrets its session had when it was handed  *)
(* in, and its shell is where the session is: whether the shell ran all    *)
(* along, was killed meanwhile or was started just then.                   *)
THEOREM CommandsAreInformed == Spec => []CommandsSeeTheSession
<1>1. Init => Informed
  BY DEF Init, Informed, Told, ShellKnows
<1>2. IInv /\ Informed /\ [Next]_vars => Informed'
  BY SetSecretInforms, EnqueueInforms, ExecuteInforms, OthersInform
<1>3. IInv /\ Informed => CommandsSeeTheSession
  BY DEF IInv, SameDir, Informed, CommandsSeeTheSession
<1> QED
  BY <1>1, <1>2, <1>3, Invariance, PTL DEF Spec
=============================================================================
