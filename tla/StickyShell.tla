---------------------------- MODULE StickyShell ----------------------------
(***************************************************************************)
(* The shell of one conversation: StickyShell.ts keeps one process that    *)
(* runs the agent's commands one after the other, a one-shot process when  *)
(* that one cannot be started, and a detached process for commands that    *)
(* are to outlive the call.                                                *)
(*                                                                         *)
(* Of a command's output only its end marker matters here.  What is        *)
(* written to a shell's input is carried out in order, so a frame runs     *)
(* with the directory and the secrets written before it.  The session's    *)
(* secrets are a version number that every change raises.                  *)
(***************************************************************************)
EXTENDS Integers, Sequences

CONSTANTS
  MaxCommands, \* bound: what the agent runs
  Dirs,        \* working directories
  MaxInputs    \* bound: Stop, and changes of the session

ASSUME ShellAssumption == {MaxCommands, MaxInputs} \subseteq Nat /\ Dirs # {}

VARIABLES
  queue,       \* what this.queue still has to do; its head is under way if job is
  job,         \* the command under way, how and in which process it runs
  child,       \* the sticky process
  background,  \* the detached process
  oneShot,     \* the one-shot process
  stopReason,
  cwd,
  secrets,     \* the version of the session's secrets
  procs,       \* the processes spawned so far
  aborted,     \* the commands whose signal is aborted
  result,      \* result[c]: how c ended
  inputs,
  asked,       \* history: asked[c], the secrets when c was handed in
  given,       \* history: given[c], the directory and secrets it ran with
  stopped      \* history: the commands that Stop met while they ran

vars == <<queue, job, child, background, oneShot, stopReason, cwd, secrets, procs,
          aborted, result, inputs, asked, given, stopped>>

(* Commands, by their place in the order they were handed in. *)
Commands == 1 .. MaxCommands

Nobody == 0
Idle == [how |-> "idle", cmd |-> 0, proc |-> Nobody, timedOut |-> FALSE, cancelled |-> FALSE]
Pending == {c \in Commands : result[c] = "pending"}
Unused == [dir |-> "none", env |-> -1]
Pids == DOMAIN procs

-----------------------------------------------------------------------------
(* Processes *)

\* Mutant of Spawned: the secrets of the session are left to injectEnv.
SpawnedBare(cmds) == Append(procs, [state |-> "alive", dir |-> cwd, env |-> 0, cmds |-> cmds])
(* spawn, with the directory and the secrets of now.  cmds: the frames     *)
(* written to it whose marker it has not printed.  A command spawns at     *)
(* most one process.                                                       *)
Spawned(cmds) == Append(procs, [state |-> "alive", dir |-> cwd, env |-> secrets, cmds |-> cmds])
NewPid == Len(procs) + 1

(* killTree: the process is going to exit, and not at once. *)
Kill(ps, targets) ==
  [p \in DOMAIN ps |-> IF p \in targets /\ ps[p].state = "alive" THEN [ps[p] EXCEPT !.state = "dying"] ELSE ps[p]]

\* Mutant of Doomed: the fallback is forgotten.
DoomedChildren == {child, background}
Doomed == {child, background, oneShot}
Dispose ==
  /\ procs' = Kill(procs, Doomed)
  /\ child' = Nobody /\ background' = Nobody /\ oneShot' = Nobody

(* A frame or a script is written to the shell's input. *)
Write(p, rec) == [procs EXCEPT ![p] = rec]

-----------------------------------------------------------------------------
(* What the agent and the session ask for *)

Input == inputs < MaxInputs /\ inputs' = inputs + 1

(* run and runBackground: behind everything handed in so far. *)
Enqueue(c, kind) ==
  /\ result[c] = "none" /\ \A d \in 1 .. c - 1 : result[d] # "none"
  /\ queue' = Append(queue, [kind |-> kind, cmd |-> c, env |-> -1])
  /\ result' = [result EXCEPT ![c] = "pending"]
  /\ asked' = [asked EXCEPT ![c] = secrets]
  /\ UNCHANGED <<job, child, background, oneShot, stopReason, cwd, secrets, procs, aborted, inputs, given, stopped>>

(* upsertSessionSecrets and removeSessionSecret, then injectEnv or unsetEnv *)
SetSecret ==
  /\ Input
  /\ secrets' = secrets + 1
  /\ queue' = Append(queue, [kind |-> "silent", cmd |-> 0, env |-> secrets + 1])
  /\ UNCHANGED <<job, child, background, oneShot, stopReason, cwd, procs, aborted, result, asked, given, stopped>>

(* setWorkingDirectory: a running shell is told at once. *)
SetDir(d) ==
  /\ Input /\ d # cwd
  /\ cwd' = d
  /\ procs' = IF child = Nobody THEN procs ELSE Write(child, [procs[child] EXCEPT !.dir = d])
  /\ UNCHANGED <<queue, job, child, background, oneShot, stopReason, secrets, aborted, result, asked, given, stopped>>

(* setShell: the user chose another shell. *)
SetShell ==
  /\ Input
  /\ Dispose
  /\ UNCHANGED <<queue, job, stopReason, cwd, secrets, aborted, result, asked, given, stopped>>

(* Stop: interrupt, and the turn's signal is aborted, which every command  *)
(* handed in so far has.  A background command that is still settling ends *)
(* there; the others wait for their process.                               *)
StopTurn ==
  /\ Input
  /\ aborted' = aborted \cup Pending
  /\ Dispose
  /\ stopped' = IF job = Idle THEN stopped ELSE stopped \cup {job.cmd}
  /\ stopReason' = IF job = Idle /\ stopReason # "null" THEN stopReason ELSE "cancel"
  /\ IF job.how = "background"
     THEN /\ result' = [result EXCEPT ![job.cmd] = "cancelled"]
          /\ job' = Idle /\ queue' = Tail(queue)
     ELSE /\ job' = IF job.how = "oneShot" THEN [job EXCEPT !.cancelled = TRUE] ELSE job
          /\ UNCHANGED <<result, queue>>
  /\ UNCHANGED <<cwd, secrets, asked, given>>

-----------------------------------------------------------------------------
(* The queue *)

(* The command under way ends. *)
End(outcome) ==
  /\ result' = [result EXCEPT ![job.cmd] = outcome]
  /\ job' = Idle /\ queue' = Tail(queue)

Task == Head(queue)
Ready == job = Idle /\ queue # << >>

(* writeSilent: a shell that does not run gets the secrets when it starts. *)
Silent ==
  /\ Ready /\ Task.kind = "silent"
  /\ procs' = IF child = Nobody THEN procs ELSE Write(child, [procs[child] EXCEPT !.env = Task.env])
  /\ queue' = Tail(queue)
  /\ UNCHANGED <<job, child, background, oneShot, stopReason, cwd, secrets, aborted, result, inputs, asked, given, stopped>>

(* execute and executeBackground of an aborted signal. *)
IsAborted(c) == c \in aborted
Skip ==
  /\ Ready /\ Task.kind # "silent" /\ IsAborted(Task.cmd)
  /\ result' = [result EXCEPT ![Task.cmd] = "cancelled"]
  /\ queue' = Tail(queue)
  /\ UNCHANGED <<job, child, background, oneShot, stopReason, cwd, secrets, procs, aborted, inputs, asked, given, stopped>>

\* Mutant of ReasonAtStart: it is kept.
ReasonKept == stopReason

(* execute gives the reason of an earlier Stop up. *)
ReasonAtStart == "null"

Begin(c, how, p) ==
  /\ job' = [Idle EXCEPT !.how = how, !.cmd = c, !.proc = p]
  /\ given' = [given EXCEPT ![c] = [dir |-> procs'[p].dir, env |-> procs'[p].env]]
  /\ UNCHANGED <<queue, cwd, secrets, aborted, result, inputs, asked, stopped>>

(* execute: the frame goes to the shell, which may have exited unnoticed.  *)
ExecuteSticky(c) ==
  /\ Ready /\ Task = [kind |-> "run", cmd |-> c, env |-> -1] /\ ~IsAborted(c)
  /\ stopReason' = ReasonAtStart
  /\ IF child = Nobody
     THEN /\ procs' = Spawned({c}) /\ child' = NewPid
     ELSE /\ procs' = Write(child, [procs[child] EXCEPT !.cmds = @ \cup {c}]) /\ child' = child
  /\ Begin(c, "sticky", child')
  /\ UNCHANGED <<background, oneShot>>

(* spawnShell throws: oneShot. *)
ExecuteOneShot(c) ==
  /\ Ready /\ Task = [kind |-> "run", cmd |-> c, env |-> -1] /\ ~IsAborted(c)
  /\ child = Nobody
  /\ procs' = Spawned({c}) /\ oneShot' = NewPid
  /\ Begin(c, "oneShot", NewPid)
  /\ UNCHANGED <<child, background, stopReason>>

(* executeBackground: an earlier one is let go and stays. *)
ExecuteBackground(c) ==
  /\ Ready /\ Task = [kind |-> "background", cmd |-> c, env |-> -1] /\ ~IsAborted(c)
  /\ procs' = Spawned({c}) /\ background' = NewPid
  /\ Begin(c, "background", NewPid)
  /\ UNCHANGED <<child, oneShot, stopReason>>

-----------------------------------------------------------------------------
(* The ends of a command *)

(* onData: the marker.  A shell that is being killed may have printed it.  *)
Marker ==
  /\ job.how = "sticky" /\ procs[job.proc].state # "gone" /\ job.cmd \in procs[job.proc].cmds
  /\ End("done") /\ stopReason' = "null"
  /\ procs' = Write(job.proc, [procs[job.proc] EXCEPT !.cmds = @ \ {job.cmd}])
  /\ UNCHANGED <<child, background, oneShot, cwd, secrets, aborted, inputs, asked, given, stopped>>

\* Mutant of TimeoutEnds: the shell is left to the command.
TimeoutSparesShell ==
  /\ job.how = "sticky"
  /\ End("timeout") /\ stopReason' = "null"
  /\ UNCHANGED <<procs, child, background, oneShot>>
\* Mutant of TimeoutEnds: the result is left to the exit of the shell.
TimeoutWaits ==
  /\ job.how = "sticky"
  /\ Dispose /\ stopReason' = "timeout" /\ UNCHANGED <<result, job, queue>>
(* The timer of execute: the partial output, 124, and the tree goes. *)
TimeoutEnds ==
  /\ job.how = "sticky"
  /\ Dispose /\ End("timeout") /\ stopReason' = "null"
TimeoutSticky ==
  /\ TimeoutEnds
  /\ UNCHANGED <<cwd, secrets, aborted, inputs, asked, given, stopped>>

(* The timer of oneShot: its process is killed and its end awaited. *)
TimeoutOneShot ==
  /\ job.how = "oneShot" /\ ~job.timedOut
  /\ job' = [job EXCEPT !.timedOut = TRUE]
  /\ procs' = Kill(procs, {job.proc})
  /\ UNCHANGED <<queue, child, background, oneShot, stopReason, cwd, secrets, aborted, result, inputs, asked, given, stopped>>

(* The settle window of a background command is over. *)
Settle ==
  /\ job.how = "background" /\ procs[job.proc].state # "gone"
  /\ End("detached")
  /\ UNCHANGED <<child, background, oneShot, stopReason, cwd, secrets, procs, aborted, inputs, asked, given, stopped>>

(* A process exits, of itself or killed.  Only the command under way hears *)
(* of the sticky one: an idle shell that exits is still taken for running. *)
Exit(p) ==
  /\ procs[p].state # "gone"
  /\ procs' = Write(p, [procs[p] EXCEPT !.state = "gone"])
  /\ background' = IF background = p THEN Nobody ELSE background
  /\ oneShot' = IF oneShot = p THEN Nobody ELSE oneShot
  /\ IF job.proc # p
     THEN UNCHANGED <<child, result, job, queue, stopReason>>
     ELSE \/ /\ job.how = "sticky"
             /\ child' = Nobody
             /\ End(CASE stopReason = "cancel" -> "cancelled" [] stopReason = "timeout" -> "timeout" [] OTHER -> "lost")
             /\ stopReason' = "null"
          \/ /\ job.how = "oneShot"
             /\ End(IF job.timedOut THEN "timeout"
                    ELSE IF job.cancelled \/ stopReason = "cancel" THEN "cancelled" ELSE "done")
             /\ UNCHANGED <<child, stopReason>>
          \/ /\ job.how = "background"
             /\ End(IF stopReason = "cancel" THEN "cancelled" ELSE "done")
             /\ UNCHANGED <<child, stopReason>>
  /\ UNCHANGED <<cwd, secrets, aborted, inputs, asked, given, stopped>>

Init ==
  /\ queue = << >> /\ job = Idle
  /\ child = Nobody /\ background = Nobody /\ oneShot = Nobody
  /\ stopReason = "null"
  /\ cwd \in Dirs /\ secrets = 0
  /\ procs = << >> /\ aborted = {}
  /\ result = [c \in Commands |-> "none"]
  /\ inputs = 0
  /\ asked = [c \in Commands |-> 0] /\ given = [c \in Commands |-> Unused] /\ stopped = {}

Next ==
  \/ SetSecret \/ SetShell \/ StopTurn
  \/ \E d \in Dirs : SetDir(d)
  \/ \E c \in Commands :
       \/ \E kind \in {"run", "background"} : Enqueue(c, kind)
       \/ ExecuteSticky(c) \/ ExecuteOneShot(c) \/ ExecuteBackground(c)
  \/ Silent \/ Skip \/ Marker \/ TimeoutSticky \/ TimeoutOneShot \/ Settle
  \/ \E p \in Pids : Exit(p)

Spec == Init /\ [][Next]_vars

(* Promises go on, timers fire and a killed process exits; a command need  *)
(* not end of itself.                                                      *)
Fairness ==
  /\ WF_vars(Silent) /\ WF_vars(Skip)
  /\ WF_vars(\E c \in Commands : ExecuteSticky(c) \/ ExecuteOneShot(c) \/ ExecuteBackground(c))
  /\ WF_vars(TimeoutSticky) /\ WF_vars(TimeoutOneShot) /\ WF_vars(Settle)
  /\ \A p \in Commands : WF_vars(p \in Pids /\ procs[p].state = "dying" /\ Exit(p))

FairSpec == Spec /\ Fairness

-----------------------------------------------------------------------------
(* Properties *)

Outcomes == {"none", "pending", "done", "lost", "timeout", "cancelled", "detached"}
ProcType == [state : {"alive", "dying", "gone"}, dir : Dirs, env : 0 .. MaxInputs, cmds : SUBSET Commands]

TypeOK ==
  /\ job.how \in {"idle", "sticky", "oneShot", "background"} /\ job.proc \in 0 .. Len(procs)
  /\ {child, background, oneShot} \subseteq 0 .. Len(procs)
  /\ stopReason \in {"null", "cancel", "timeout"}
  /\ cwd \in Dirs /\ secrets \in 0 .. MaxInputs
  /\ procs \in Seq(ProcType) /\ aborted \subseteq Commands
  /\ result \in [Commands -> Outcomes]
  /\ \A c \in Commands : given[c] = Unused \/ given[c] \in [dir : Dirs, env : 0 .. MaxInputs]

(* Every process that runs and was not killed is one the next Stop or      *)
(* dispose would kill, unless it is a background command: timeouts, Stops  *)
(* and a change of shell leave no shell and no fallback behind.            *)
NothingIsLeaked ==
  \A p \in Pids : procs[p].state = "alive" =>
    \/ p \in {child, background, oneShot}
    \/ \E c \in procs[p].cmds : result[c] = "detached"

(* A shell works at one command at a time, the one under way: what a       *)
(* timeout gave up never delays, or feeds its output to, a later command.  *)
OneCommandPerShell ==
  \A p \in Pids : procs[p].state = "alive" /\ p = child => procs[p].cmds \subseteq {job.cmd}

(* A command of the sticky shell is reported as stopped only when a Stop   *)
(* met it or its turn, and one whose shell went because of a Stop is never *)
(* reported as a crash: the reason of an earlier Stop does not stick.      *)
StopIsReported ==
  [][\A c \in Commands : result[c] = "pending" /\ job.cmd = c /\ job.how = "sticky" =>
       /\ result'[c] = "cancelled" => c \in stopped'
       /\ result'[c] = "lost" => c \notin stopped']_vars

(* A command runs with every secret that was granted before it was handed  *)
(* in, and in the session's directory unless commands moved the shell: the *)
(* shell may have run all along, been killed meanwhile or start just then. *)
CommandsSeeTheSession ==
  /\ \A c \in Commands : given[c] # Unused => given[c].env >= asked[c]
  /\ \A p \in Pids : p = child => procs[p].dir = cwd

(* Every command that is handed in ends: also one whose shell had exited   *)
(* unnoticed, was killed under it, or is stopped while it waits.           *)
CommandsEnd == \A c \in Commands : result[c] = "pending" ~> result[c] # "pending"
=============================================================================
