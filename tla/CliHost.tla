------------------------------ MODULE CliHost ------------------------------
(***************************************************************************)
(* One conversation of CliAgentHost.ts: turns that an external agent       *)
(* process answers over stdio (drivers/claude.ts).  A turn is started over *)
(* several awaits, retried after failures in the same or in a fresh        *)
(* session, stopped at any of them, and held open while a card waits for   *)
(* the user although the agent's prompt has returned.                      *)
(*                                                                         *)
(* What the agent says carries no turn: its events go to whatever turn is  *)
(* in the map, also those of a process that was disposed and has not yet   *)
(* exited.  Contents of prompts and replies are left out.  The model of    *)
(* the session and its options never asks for a new process (applyOptions  *)
(* of claude.ts returns false only for an approval mode, which the host    *)
(* does not pass).                                                         *)
(***************************************************************************)
EXTENDS Integers, Sequences

CONSTANTS
  MaxTurns,    \* bound: prompts of the user
  RetryLimit,  \* NETWORK_RETRY_LIMIT
  MaxInputs,   \* bound: Stops, deletions, reaped processes
  MaxCards,    \* bound: questions of the agent
  MaxFailures  \* bound: errors, exits of the agent and changed logins

ASSUME CliAssumption == {MaxTurns, RetryLimit, MaxInputs, MaxCards, MaxFailures} \subseteq Nat

VARIABLES
  host,        \* the entries of the maps of CliAgentHost for the conversation
  turns,       \* the HostTurn of each prompt
  calls,       \* startTurn and settleFailedTurn where they are suspended
  procs,       \* the agent processes, from the beginning of their spawn
  count

vars == <<host, turns, calls, procs, count>>

Turns == 1 .. MaxTurns
None == 0                  \* no turn, no process
Pids == DOMAIN procs

Kinds == {"technical", "stale", "fatal", "cancelled"}     \* classifyCliError, as far as it steers

(* What handlers pass on from one step of theirs to the next.              *)
World == [host |-> host, turns |-> turns, calls |-> calls, procs |-> procs]
Become(w) == host' = w.host /\ turns' = w.turns /\ calls' = w.calls /\ procs' = w.procs

Live(w, t) == w.host.turn = t

-----------------------------------------------------------------------------
(* Processes *)

(* generation: of its spawn, until that has returned; active: turnActive.  *)
NewProc(generation) ==
  [state |-> "starting", generation |-> generation, login |-> 0, prompts |-> 0, active |-> FALSE]
Gone == [NewProc(0) EXCEPT !.state = "gone"]

(* driver.dispose: its stdin ends, its stdout is read until it exits. *)
Closed(proc) ==
  IF proc.state = "live" THEN [proc EXCEPT !.state = "closing", !.login = 0, !.active = FALSE] ELSE proc

DisposeRuntime(w) ==
  IF w.host.runtime = None THEN w
  ELSE [w EXCEPT !.procs[w.host.runtime] = Closed(@), !.host.runtime = None]

(* A line for the agent is lost unless the process runs. *)
Steer(w, p) == IF w.procs[p].state = "live" THEN [w EXCEPT !.procs[p].prompts = @ + 1] ELSE w

(* driver.prompt emits turn-started, whatever became of the process. *)
Prompt(w, p) ==
  LET s == [Steer(w, p) EXCEPT !.procs[p].active = w.procs[p].state = "live"] IN
  IF s.host.turn = None THEN s ELSE [s EXCEPT !.turns[s.host.turn].started = TRUE]

-----------------------------------------------------------------------------
(* Ending a turn *)

InvalidateInFlightSpawn(w) == [w EXCEPT !.host.generation = @ + 1, !.host.starting = None]

\* Mutant of FinishTurn: the turn stays in the map until it is stored.
FinishLate(w, t) ==
  IF w.host.turn = None THEN w
  ELSE [InvalidateInFlightSpawn(w) EXCEPT !.host.stop = FALSE, !.turns[t].end = "storing"]
(* finishTurn up to its first await: it ends t whatever turn is live. *)
FinishTurn(w, t) ==
  IF w.host.turn = None THEN w
  ELSE [InvalidateInFlightSpawn(w) EXCEPT !.host.stop = FALSE, !.host.turn = None, !.turns[t].end = "storing"]

(* A call waits. *)
SuspendOn(w, t, why, at, p, kind) ==
  [w EXCEPT !.calls = @ \cup {[turn |-> t, why |-> why, at |-> at, proc |-> p, nth |-> w.turns[t].retries, kind |-> kind]}]
Suspend(w, t, why, at, p) == SuspendOn(w, t, why, at, p, "none")

\* Mutant of MayRetry: one attempt too many.
RetryOnceMore(w, t, kind) == kind = "technical" /\ w.turns[t].retries <= RetryLimit
MayRetry(w, t, kind) == kind = "technical" /\ w.turns[t].retries < RetryLimit

(* settleFailedTurn up to its first await. *)
SettleFailedTurn(w, t, kind) ==
  CASE ~Live(w, t) \/ w.turns[t].settling -> w
    [] Live(w, t) /\ ~w.turns[t].settling /\ (w.turns[t].cancelled \/ kind = "cancelled") ->
         FinishTurn([w EXCEPT !.turns[t].cancelled = TRUE], t)
    [] OTHER ->
         LET s == [w EXCEPT !.turns[t].settling = TRUE] IN
         IF MayRetry(w, t, kind)
         THEN LET r == [s EXCEPT !.turns[t].retries = @ + 1] IN Suspend(r, t, "retry", "backoff", None)
         ELSE SuspendOn(s, t, "retry", "describe", None, kind)

-----------------------------------------------------------------------------
(* Getting a process *)

(* ensureRuntime from "const gen" on: a removed conversation has no host. *)
Spawn(w, t, why) ==
  IF w.host.starting # None THEN Suspend(w, t, why, "spawn", w.host.starting)
  ELSE IF w.host.gone THEN SuspendOn(w, t, why, "failed", None, "fatal")
  ELSE LET p == Len(w.procs) + 1
           s == [w EXCEPT !.procs = Append(@, NewProc(w.host.generation)), !.host.starting = p]
       IN Suspend(s, t, why, "spawn", p)

EnsureRuntime(w, t, why) ==
  IF w.host.runtime # None THEN Suspend(w, t, why, "identity", w.host.runtime) ELSE Spawn(w, t, why)

(* consumePendingCancel, and whether the turn was replaced. *)
Stopped(w, t) == w.host.stop \/ w.turns[t].cancelled \/ ~Live(w, t)

(* ensureRuntime has returned p. *)
GotRuntime(w, t, why, p) ==
  IF why # "start" THEN Prompt(w, p)
  ELSE IF ~Stopped(w, t) THEN Prompt(w, p)
  ELSE LET s == [w EXCEPT !.host.stop = FALSE, !.turns[t].cancelled = @ \/ w.host.stop] IN
       IF Live(s, t) THEN FinishTurn(s, t) ELSE s

-----------------------------------------------------------------------------
(* The user *)

(* Continuations of a settled promise run before anything else.            *)
Settled == \A c \in calls : c.at \notin {"known", "resume", "failed"}
Input == Settled /\ ~host.gone /\ count.inputs < MaxInputs /\ count' = [count EXCEPT !.inputs = @ + 1]
Fails == count.failures < MaxFailures /\ count' = [count EXCEPT !.failures = @ + 1]
FailsIf(b) == IF b THEN Fails ELSE UNCHANGED count

Fresh == [cancelled |-> FALSE, started |-> FALSE, settling |-> FALSE, fresh |-> FALSE, retries |-> 0, cards |-> 0,
          held |-> FALSE, followUp |-> FALSE, grace |-> FALSE, end |-> "none"]

(* startTurn up to its first await. *)
StartTurn(w, t) ==
  LET s == [w EXCEPT !.turns[t].end = "no", !.host.turn = t] IN
  IF w.host.stop THEN FinishTurn([s EXCEPT !.turns[t].cancelled = TRUE], t)
  ELSE EnsureRuntime(s, t, "start")

NextTurn == CHOOSE t \in Turns : turns[t].end = "none" /\ \A u \in 1 .. t - 1 : turns[u].end # "none"
MayStart == Settled /\ ~host.gone /\ host.turn = None /\ \E t \in Turns : turns[t].end = "none"

Run == MayStart /\ Become(StartTurn(World, NextTurn)) /\ UNCHANGED count

(* regenerate and editUserMessage: dropNativeSessionForRetry first. *)
Regenerate == MayStart /\ Become(StartTurn(DisposeRuntime(World), NextTurn)) /\ UNCHANGED count

\* Mutant of Cancelled: a Stop does not arm the timer where it drops the process.
CancelledBootstrap(w) ==
  LET s == InvalidateInFlightSpawn([w EXCEPT !.host.stop = @ \/ w.host.turn # None \/ w.host.starting # None])
      t == w.host.turn
      c == [s EXCEPT !.turns[t] =
              [@ EXCEPT !.cancelled = TRUE, !.followUp = FALSE, !.cards = 0, !.grace = w.turns[t].started]]
  IN IF t = None THEN s ELSE IF w.turns[t].started THEN c ELSE DisposeRuntime(c)
(* cancel: the interrupt leaves the agent to do what it may do anyway. *)
Cancelled(w) ==
  LET s == InvalidateInFlightSpawn([w EXCEPT !.host.stop = @ \/ w.host.turn # None \/ w.host.starting # None])
      t == w.host.turn
      c == [s EXCEPT !.turns[t] =
              [@ EXCEPT !.cancelled = TRUE, !.followUp = FALSE, !.cards = 0, !.grace = TRUE]]
  IN IF t = None THEN s ELSE IF w.turns[t].started THEN c ELSE DisposeRuntime(c)

Cancel == Input /\ Become(Cancelled(World))

(* invalidateResume, after a message was deleted. *)
InvalidateResume ==
  /\ Input
  /\ Become(DisposeRuntime(IF host.turn = None THEN World ELSE Cancelled(World)))

ReapIdle == Input /\ host.turn = None /\ host.runtime # None /\ Become(DisposeRuntime(World))

(* dispose, when the conversation is removed: nothing counts on its turn any more. *)
Dispose ==
  /\ Input
  /\ LET s == DisposeRuntime(Cancelled(World)) IN
     Become([s EXCEPT !.host = [@ EXCEPT !.turn = None, !.generation = 0, !.starting = None, !.gone = TRUE]])

(* shouldContinueHeldCliTurn; no card of this driver is synthetic. *)
ContinueHeld(w, t, allow) == w.turns[t].held /\ w.turns[t].cards = 0 /\ allow

(* answerOnTurn.  plan: the card was a plan. *)
Answer(allow, plan) ==
  /\ Settled /\ host.turn # None /\ turns[host.turn].cards > 0
  /\ LET t == host.turn
         w == [World EXCEPT !.turns[t].cards = @ - 1]
         continue == ContinueHeld(w, t, allow)
         seal == w.turns[t].held /\ w.turns[t].cards = 0 /\ ~allow
         open == [w EXCEPT !.turns[t].held = @ /\ ~continue /\ ~seal]
         steered == IF continue /\ host.runtime # None THEN Steer(open, host.runtime) ELSE open
         armed == [steered EXCEPT !.turns[t].followUp =
                     @ \/ (plan /\ allow /\ ~continue /\ ~open.turns[t].held /\ open.turns[t].cards = 0)]
     IN Become(IF seal THEN FinishTurn(armed, t) ELSE armed)
  /\ UNCHANGED count

-----------------------------------------------------------------------------
(* Continuations and timers of the host *)

Without(c) == [World EXCEPT !.calls = @ \ {c}]

(* readHostAuthIdentity: one read serves all that wait for it. *)
IdentityRead ==
  /\ Settled /\ \E c \in calls : c.at = "identity"
  /\ \E changed \in BOOLEAN :
       LET login == IF changed THEN host.login + 1 ELSE host.login
           Seen(c) == IF procs[c.proc].login = login THEN "same" ELSE "changed"
           Known(c) == IF c.at = "identity" THEN [c EXCEPT !.at = "known", !.kind = Seen(c)] ELSE c
       IN FailsIf(changed) /\ Become([World EXCEPT !.host.login = login, !.calls = {Known(c) : c \in calls}])

(* ensureRuntime knows the login.                                          *)
Identified(c) ==
  /\ c.at = "known"
  /\ Become(IF c.kind = "changed" THEN Spawn(DisposeRuntime(Without(c)), c.turn, c.why)
            ELSE GotRuntime(Without(c), c.turn, c.why, c.proc))
  /\ UNCHANGED count

(* The calls that wait for p go on, one after the other. *)
Woken(p, at, kind) ==
  {IF c.at = "spawn" /\ c.proc = p THEN [c EXCEPT !.at = at, !.kind = kind] ELSE c : c \in calls}

\* Mutant of Current: the generation is not looked at.
AlwaysCurrent(p) == TRUE
Current(p) == procs[p].generation = host.generation

Started(p) == [host EXCEPT !.starting = IF @ = p THEN None ELSE @]

(* spawnUntilCurrent returns: a process whose generation is over is closed. *)
(* The spawn needs the identity, too, and shares a read that is under way. *)
Spawned(p) ==
  /\ Settled /\ procs[p].state = "starting" /\ \A c \in calls : c.at # "identity"
  /\ IF Current(p)
     THEN Become([World EXCEPT
            !.host = [Started(p) EXCEPT !.runtime = p],
            !.procs[p] = [NewProc(0) EXCEPT !.state = "live", !.login = host.login],
            !.calls = Woken(p, "resume", "none")])
     ELSE Become([World EXCEPT
            !.host = Started(p),
            !.procs[p] = [NewProc(0) EXCEPT !.state = "closing"],
            !.calls = Woken(p, "failed", "cancelled")])
  /\ UNCHANGED count

(* No binary, or the spawn throws. *)
SpawnFails(p) ==
  /\ Settled /\ procs[p].state = "starting" /\ Fails
  /\ \E kind \in Kinds :
       Become([World EXCEPT !.host = Started(p), !.procs[p] = Gone, !.calls = Woken(p, "failed", kind)])

Resumed(c) ==
  /\ c.at = "resume"
  /\ Become(GotRuntime(Without(c), c.turn, c.why, c.proc))
  /\ UNCHANGED count

Failed(c) ==
  /\ c.at = "failed"
  /\ Become(IF c.why = "fresh" THEN Suspend(Without(c), c.turn, "fresh", "describe", None)
            ELSE SettleFailedTurn(Without(c), c.turn, c.kind))
  /\ UNCHANGED count

(* settleFailedTurn after its backoff. *)
BackoffOver(c) ==
  /\ Settled /\ c.at = "backoff"
  /\ LET s == [Without(c) EXCEPT !.turns[c.turn].settling = FALSE] IN
     Become(CASE ~Live(World, c.turn) -> Without(c)
              [] Live(World, c.turn) /\ turns[c.turn].cancelled -> FinishTurn(s, c.turn)
              [] OTHER -> EnsureRuntime(s, c.turn, "retry"))
  /\ UNCHANGED count

(* settleFailedTurn after describeTurnError. *)
Described(c) ==
  /\ Settled /\ c.at = "describe"
  /\ \E cursor \in BOOLEAN :
       LET t == c.turn
           s == [Without(c) EXCEPT !.turns[t].fresh = TRUE, !.turns[t].settling = FALSE]
       IN Become(CASE c.why = "fresh" -> FinishTurn(Without(c), t)
                   [] c.why # "fresh" /\ ~Live(World, t) -> Without(c)
                   [] c.why # "fresh" /\ Live(World, t) /\ ~turns[t].fresh /\ c.kind = "stale" /\ cursor ->
                        EnsureRuntime(DisposeRuntime(s), t, "fresh")
                   [] OTHER -> FinishTurn(Without(c), t))
  /\ UNCHANGED count

(* The timer that cancel armed. *)
GraceEnds(t) == IF Live(World, t) THEN FinishTurn(World, t) ELSE World
GraceOver(t) ==
  /\ Settled /\ turns[t].grace
  /\ Become([GraceEnds(t) EXCEPT !.turns[t].grace = FALSE])
  /\ UNCHANGED count

(* finishTurn from finalizeTurn on: the reply is stored and end emitted;   *)
(* nothing of the host is read between its awaits.                         *)
Ended(t) ==
  /\ Settled /\ turns[t].end = "storing"
  /\ turns' = [turns EXCEPT ![t].end = "ended"]
  /\ UNCHANGED <<host, calls, procs, count>>

-----------------------------------------------------------------------------
(* The agent *)

Speaks(p) == Settled /\ procs[p].state \in {"live", "closing"} /\ procs[p].prompts > 0

(* Text, reasoning or a tool: the agent goes on of itself. *)
Works(p) ==
  /\ Speaks(p) /\ host.turn # None /\ turns[host.turn].followUp
  /\ turns' = [turns EXCEPT ![host.turn].followUp = FALSE]
  /\ UNCHANGED <<host, calls, procs, count>>

(* permission and elicitation. *)
Asks(p) ==
  /\ Speaks(p) /\ count.cards < MaxCards /\ count' = [count EXCEPT !.cards = @ + 1]
  /\ turns' = IF host.turn = None THEN turns
              ELSE [turns EXCEPT ![host.turn].cards = @ + 1, ![host.turn].followUp = FALSE]
  /\ UNCHANGED <<host, calls, procs>>

(* shouldDeferCliTurnFinish. *)
Defers(w, t) == w.turns[t].cards > 0 /\ ~w.turns[t].cancelled

(* onDriverEvent of turn-finished; kind is "ok" or that of the error.      *)
TurnFinished(w, kind) ==
  LET t == w.host.turn
      s == [w EXCEPT !.turns[t].cancelled = @ \/ kind = "cancelled"]
      continued == [s EXCEPT !.turns[t].followUp = FALSE, !.turns[t].held = FALSE]
  IN CASE t = None -> w
       [] t # None /\ Defers(s, t) -> [s EXCEPT !.turns[t].held = TRUE]
       [] t # None /\ ~Defers(s, t) /\ kind = "ok" /\ ~s.turns[t].cancelled /\ s.turns[t].followUp
            /\ s.host.runtime # None -> Steer(continued, s.host.runtime)
       [] OTHER -> IF kind = "ok" \/ s.turns[t].cancelled THEN FinishTurn(s, t) ELSE SettleFailedTurn(s, t, kind)

(* A prompt returns: result. *)
Returns(p) ==
  /\ Speaks(p)
  /\ \E kind \in Kinds \cup {"ok"} :
       /\ FailsIf(kind # "ok")
       /\ Become(TurnFinished([World EXCEPT !.procs[p].prompts = @ - 1, !.procs[p].active = FALSE], kind))

\* Mutant of ProcessExited: an exit during a retry is none of its business.
ExitedUnheeded(w, kind) ==
  LET t == w.host.turn IN
  CASE t = None -> DisposeRuntime(w)
    [] t # None /\ w.turns[t].cancelled /\ ~w.turns[t].settling -> [FinishTurn(w, t) EXCEPT !.host.runtime = None]
    [] OTHER -> [w EXCEPT !.host.runtime = None]
(* onDriverEvent of process-exited: processExitDisposition. *)
ProcessExited(w, kind) ==
  LET t == w.host.turn IN
  CASE t = None -> DisposeRuntime(w)
    [] t # None /\ w.turns[t].settling -> [w EXCEPT !.host.runtime = None]
    [] t # None /\ ~w.turns[t].settling /\ w.turns[t].cancelled -> [FinishTurn(w, t) EXCEPT !.host.runtime = None]
    [] OTHER -> [SettleFailedTurn(w, t, kind) EXCEPT !.host.runtime = None]

(* A process that was not disposed exits: a prompt that was under way      *)
(* returns first, as a success if the exit code is 0.                      *)
Exits(p) ==
  /\ Settled /\ procs[p].state = "live" /\ Fails
  /\ LET w == [World EXCEPT !.procs[p] = Gone] IN
     \E zero \in BOOLEAN, kind \in Kinds :
       Become(ProcessExited(IF procs[p].active THEN TurnFinished(w, IF zero THEN "ok" ELSE kind) ELSE w, kind))

(* A disposed one exits unheard. *)
Ends(p) ==
  /\ Settled /\ procs[p].state = "closing"
  /\ procs' = [procs EXCEPT ![p] = Gone]
  /\ UNCHANGED <<host, turns, calls, count>>

Init ==
  /\ host = [turn |-> None, runtime |-> None, starting |-> None, generation |-> 0, login |-> 0,
              stop |-> FALSE, gone |-> FALSE]
  /\ turns = [t \in Turns |-> Fresh]
  /\ calls = {} /\ procs = << >>
  /\ count = [inputs |-> 0, cards |-> 0, failures |-> 0]

Next ==
  \/ Run \/ Regenerate \/ Cancel \/ InvalidateResume \/ ReapIdle \/ Dispose
  \/ \E allow, plan \in BOOLEAN : Answer(allow, plan)
  \/ IdentityRead
  \/ \E c \in calls : Identified(c) \/ Resumed(c) \/ Failed(c) \/ BackoffOver(c) \/ Described(c)
  \/ \E t \in Turns : GraceOver(t) \/ Ended(t)
  \/ \E p \in Pids : Spawned(p) \/ SpawnFails(p) \/ Works(p) \/ Asks(p) \/ Returns(p) \/ Exits(p) \/ Ends(p)

Spec == Init /\ [][Next]_vars

(* Continuations run and timers fire; the agent and the user owe nothing. *)
Fairness ==
  /\ WF_vars(\E c \in calls : Identified(c) \/ Resumed(c) \/ Failed(c))
  /\ \A t \in Turns : WF_vars(GraceOver(t)) /\ WF_vars(Ended(t))

FairSpec == Spec /\ Fairness

-----------------------------------------------------------------------------
(* Properties *)

TypeOK ==
  /\ host.turn \in 0 .. MaxTurns /\ {host.runtime, host.starting} \subseteq 0 .. Len(procs)
  /\ host.generation \in Nat /\ {host.stop, host.gone} \subseteq BOOLEAN
  /\ \A t \in Turns : turns[t].retries \in 0 .. RetryLimit /\ turns[t].cards \in 0 .. MaxCards
                      /\ turns[t].end \in {"none", "no", "storing", "ended"}
  /\ \A c \in calls : c.turn \in Turns /\ c.proc \in 0 .. Len(procs)
  /\ \A p \in Pids : procs[p].state \in {"starting", "live", "closing", "gone"} /\ procs[p].prompts \in Nat

(* A turn in the map is waited for: one of its calls goes on, a process    *)
(* the host listens to owes it an answer, its user owes one, or the timer  *)
(* of a Stop runs.  No order of failures, exits, Stops and held cards      *)
(* leaves the conversation busy for ever.                                  *)
LiveTurnsAreDriven ==
  host.turn # None =>
    LET t == host.turn IN
    \/ \E c \in calls : c.turn = t
    \/ turns[t].grace \/ turns[t].cards > 0
    \/ \E p \in Pids : procs[p].state = "live" /\ procs[p].prompts > 0

(* The host knows every process it has not closed: none works on unseen    *)
(* after Stops, failed spawns, changed logins and exits.                   *)
NoOrphans == \A p \in Pids : procs[p].state = "live" => p = host.runtime

(* finishTurn of a turn whose fresh session could not be started, when     *)
(* another turn is live.                                                   *)
LateFresh == \E c \in calls \ calls' : c.why = "fresh" /\ c.at = "describe" /\ c.turn # host.turn

(* A turn ends once and only a turn's own end takes it out of the map,     *)
(* although the agent's result, its exit, the timer of a Stop and every    *)
(* suspended retry may all end it; but for LateFresh.                      *)
EndSteps == {<<"none", "no">>, <<"none", "storing">>, <<"no", "storing">>, <<"storing", "ended">>}
TurnsEndOnce ==
  [][LateFresh \/ \A t \in Turns :
       /\ turns'[t].end = turns[t].end \/ <<turns[t].end, turns'[t].end>> \in EndSteps
       /\ host.turn = t /\ host'.turn # t => turns'[t].end = "storing" \/ host'.gone]_vars

(* "Prevent double-finish": a turn is stored and ends once. *)
PreventDoubleFinish ==
  [][\A t \in Turns : turns[t].end = "ended" => turns'[t].end # "storing"]_vars

(* A Stop ends its turn, whatever the agent does. *)
StoppedTurnsEnd == \A t \in Turns : host.turn = t /\ turns[t].cancelled ~> host.turn # t
=============================================================================
