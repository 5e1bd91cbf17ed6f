---------------------------- MODULE CliHostProofs ----------------------------
(***************************************************************************)
(* The safety properties of CliHost, for all bounds.  A handler is an      *)
(* operator from world to world, so the inductive invariant is one about   *)
(* worlds, and each operator has a lemma that says what it preserves.      *)
(***************************************************************************)
EXTENDS CliHost, WellFoundedInduction, TLAPS

HostType ==
  [turn : 0 .. MaxTurns, runtime : Nat, starting : Nat, generation : Nat, login : Nat,
   stop : BOOLEAN, gone : BOOLEAN]
TurnType ==
  [cancelled : BOOLEAN, started : BOOLEAN, settling : BOOLEAN, fresh : BOOLEAN,
   retries : 0 .. RetryLimit, cards : Nat, held : BOOLEAN, followUp : BOOLEAN, grace : BOOLEAN,
   end : {"none", "no", "storing", "ended"}]
ProcType ==
  [state : {"starting", "live", "closing", "gone"}, generation : Nat, login : Nat, prompts : Nat,
   active : BOOLEAN]
CallKinds == Kinds \cup {"none", "same", "changed"}
CallType ==
  [turn : Turns, why : {"start", "retry", "fresh"},
   at : {"identity", "known", "spawn", "resume", "failed", "backoff", "describe"},
   proc : Nat, nth : Nat, kind : CallKinds]

Typed(w) ==
  w \in [host : HostType, turns : [Turns -> TurnType], calls : SUBSET CallType, procs : Seq(ProcType)]

(* What is named is there; a live process is the host's, any other has no login. *)
Named(w) ==
  /\ w.host.runtime <= Len(w.procs) /\ w.host.starting <= Len(w.procs)
  /\ \A c \in w.calls : c.proc <= Len(w.procs)
  /\ \A p \in 1 .. Len(w.procs) :
       IF w.procs[p].state = "live" THEN p = w.host.runtime ELSE w.procs[p].login = 0

Starts(w, p) == p \in 1 .. Len(w.procs) /\ w.procs[p].state = "starting"

(* One spawn of a generation, and only while there is no process. *)
Spawning(w) ==
  /\ \A p \in 1 .. Len(w.procs) : Starts(w, p) /\ w.procs[p].generation = w.host.generation =>
       w.host.runtime = None /\ (w.host.gone \/ w.host.starting = p)
  /\ \A p \in 1 .. Len(w.procs) : Starts(w, p) /\ ~w.host.gone => w.procs[p].generation <= w.host.generation
  /\ \A p, q \in 1 .. Len(w.procs) :
       Starts(w, p) /\ Starts(w, q) /\ w.procs[p].generation = w.procs[q].generation => p = q
  /\ w.host.starting # None =>
       Starts(w, w.host.starting) /\ w.procs[w.host.starting].generation = w.host.generation
  /\ w.host.gone => w.host.turn = None /\ w.host.starting = None

(* What a suspended call waits for; logins are read for all that wait at once. *)
Waiting(w) ==
  \A c \in w.calls :
    /\ w.turns[c.turn].end # "none"
    /\ c.at \in {"identity", "known", "resume"} =>
         c.proc # None /\ (c.proc = w.host.runtime \/ (w.host.runtime = None /\ c.at # "resume"))
    /\ c.at = "spawn" => Starts(w, c.proc)
    /\ c.at \in {"known", "resume"} => \A d \in w.calls : d.at # "identity"
    /\ c.at = "known" => \A d \in w.calls : d.at # "resume" /\ (d.at = "known" => d.kind = c.kind)

(* The live turn has not ended. *)
Ending(w) ==
  /\ w.host.turn # None => w.turns[w.host.turn].end = "no"
  /\ \A t \in Turns : w.turns[t].end = "none" => ~w.turns[t].settling

Base(w) == Typed(w) /\ Named(w) /\ Spawning(w) /\ Waiting(w) /\ Ending(w)

(* While the live turn settles, a call of it goes on. *)
Settles(w) ==
  w.host.turn # None /\ w.turns[w.host.turn].settling =>
    \E c \in w.calls : c.turn = w.host.turn /\ c.at \in {"backoff", "describe"}

Disposes(c) == c.at = "identity" \/ (c.at = "known" /\ c.kind = "changed")

(* A call of a turn that was replaced may still dispose the process: then   *)
(* the live turn does not yet count on the process alone.                   *)
Displaced(w) ==
  w.host.turn # None /\ (\E c \in w.calls : Disposes(c) /\ c.turn # w.host.turn) =>
    \/ w.turns[w.host.turn].grace
    \/ \E d \in w.calls : d.turn = w.host.turn /\ d.at # "resume"

Alive(w) == w.host.runtime # None => w.procs[w.host.runtime].state = "live"

(* A call that goes on: what it needs of a process is there. *)
Good(w, c) ==
  c.turn = w.host.turn /\ (c.at = "identity" \/ (c.at = "known" /\ c.kind # "changed") => c.proc = w.host.runtime)

Driven(w) ==
  w.host.turn # None =>
    \/ w.turns[w.host.turn].grace
    \/ \E c \in w.calls : Good(w, c)
    \/ /\ w.host.runtime # None
       /\ \/ w.procs[w.host.runtime].prompts > 0
          \/ w.turns[w.host.turn].held /\ w.turns[w.host.turn].cards > 0

Duties(w) == Settles(w) /\ Displaced(w) /\ Driven(w)

Rest == count \in [inputs : 0 .. MaxInputs, cards : 0 .. MaxCards, failures : 0 .. MaxFailures]
CardsOK == \A t \in Turns : turns[t].cards <= count.cards

IInv == Base(World) /\ Alive(World) /\ Duties(World) /\ Rest /\ CardsOK

-----------------------------------------------------------------------------
(* The shared steps, field by field *)

LEMMA Bounds ==
  /\ MaxTurns \in Nat /\ RetryLimit \in Nat /\ MaxInputs \in Nat /\ MaxCards \in Nat /\ MaxFailures \in Nat
  /\ 0 \in 0 .. MaxTurns /\ 0 \in 0 .. RetryLimit /\ Turns \subseteq 0 .. MaxTurns
BY CliAssumption DEF Turns

LEMMA WorldFields ==
  ASSUME NEW w, Typed(w)
  PROVE  /\ w.host \in HostType /\ w.turns \in [Turns -> TurnType]
         /\ w.calls \in SUBSET CallType /\ w.procs \in Seq(ProcType)
         /\ w = [host |-> w.host, turns |-> w.turns, calls |-> w.calls, procs |-> w.procs]
         /\ Len(w.procs) \in Nat /\ DOMAIN w.procs = 1 .. Len(w.procs)
         /\ \A p \in 1 .. Len(w.procs) : w.procs[p] \in ProcType
         /\ w.host.turn # None => w.host.turn \in Turns
BY Bounds DEF Typed, HostType, Turns, None

LEMMA FinishTurnIs ==
  ASSUME NEW w, Typed(w), NEW t \in Turns
  PROVE  /\ w.host.turn = None => FinishTurn(w, t) = w
         /\ w.host.turn # None =>
              LET f == FinishTurn(w, t) IN
              /\ Typed(f)
              /\ f.host.turn = None /\ f.host.starting = None /\ ~f.host.stop
              /\ f.host.generation = w.host.generation + 1
              /\ f.host.runtime = w.host.runtime /\ f.host.login = w.host.login /\ f.host.gone = w.host.gone
              /\ f.turns = [w.turns EXCEPT ![t] = [w.turns[t] EXCEPT !.end = "storing"]]
              /\ f.calls = w.calls /\ f.procs = w.procs
<1>1. CASE w.host.turn = None
  BY <1>1 DEF FinishTurn
<1>2. CASE w.host.turn # None
  <2> DEFINE e == [w.turns[t] EXCEPT !.end = "storing"]
             f == FinishTurn(w, t)
  <2>0. w.host \in HostType /\ w.turns \in [Turns -> TurnType] /\ w.turns[t] \in TurnType
    BY WorldFields
  <2>1. e \in TurnType
    BY <2>0 DEF TurnType
  <2>2. /\ f.host.turn = None /\ f.host.starting = None /\ ~f.host.stop
        /\ f.host.generation = w.host.generation + 1
        /\ f.host.runtime = w.host.runtime /\ f.host.login = w.host.login /\ f.host.gone = w.host.gone
    BY <1>2, <2>0 DEF Typed, HostType, FinishTurn, InvalidateInFlightSpawn
  <2>3. /\ f.turns = [w.turns EXCEPT ![t] = e]
        /\ f.calls = w.calls /\ f.procs = w.procs
    BY <1>2 DEF Typed, FinishTurn, InvalidateInFlightSpawn
  <2>4. f.host \in HostType
    <3>1. None \in 0 .. MaxTurns /\ None \in Nat
      BY Bounds DEF None
    <3>2. f.host = [turn |-> f.host.turn, runtime |-> f.host.runtime, starting |-> f.host.starting,
                    generation |-> f.host.generation, login |-> f.host.login, stop |-> f.host.stop,
                    gone |-> f.host.gone]
      BY <1>2, <2>0 DEF Typed, HostType, FinishTurn, InvalidateInFlightSpawn
    <3>3. /\ w.host.runtime \in Nat /\ w.host.login \in Nat /\ w.host.gone \in BOOLEAN
          /\ w.host.generation + 1 \in Nat
      BY <2>0 DEF HostType
    <3>4. f.host.stop = FALSE
      BY <1>2, <2>0 DEF Typed, HostType, FinishTurn, InvalidateInFlightSpawn
    <3> QED
      BY <2>2, <3>1, <3>2, <3>3, <3>4 DEF HostType
  <2>5. f = [host |-> f.host, turns |-> f.turns, calls |-> f.calls, procs |-> f.procs]
    BY <1>2 DEF Typed, FinishTurn, InvalidateInFlightSpawn
  <2>6. f.turns \in [Turns -> TurnType]
    BY <2>0, <2>1, <2>3
  <2>7. Typed(f)
    BY <2>3, <2>4, <2>5, <2>6, WorldFields DEF Typed
  <2> QED
    BY <1>2, <2>2, <2>3, <2>7
<1> QED
  BY <1>1, <1>2

LEMMA ClosedIs ==
  ASSUME NEW proc \in ProcType
  PROVE  /\ Closed(proc) \in ProcType /\ Closed(proc).state # "live"
         /\ proc.state # "live" => Closed(proc) = proc
         /\ proc.state = "live" => Closed(proc).state = "closing" /\ Closed(proc).login = 0
BY DEF Closed, ProcType

LEMMA DisposeRuntimeIs ==
  ASSUME NEW w, Typed(w), Named(w)
  PROVE  LET d == DisposeRuntime(w) IN
         /\ Typed(d) /\ d.turns = w.turns /\ d.calls = w.calls
         /\ d.host.turn = w.host.turn /\ d.host.runtime = None /\ d.host.starting = w.host.starting
         /\ d.host.generation = w.host.generation /\ d.host.login = w.host.login
         /\ d.host.stop = w.host.stop /\ d.host.gone = w.host.gone
         /\ Len(d.procs) = Len(w.procs)
         /\ \A p \in 1 .. Len(w.procs) :
              d.procs[p] = IF p = w.host.runtime THEN Closed(w.procs[p]) ELSE w.procs[p]
<1> DEFINE d == DisposeRuntime(w)
<1>0. w.host \in HostType /\ w.procs \in Seq(ProcType)
  BY WorldFields
<1>1. CASE w.host.runtime = None
  BY <1>0, <1>1, WorldFields DEF DisposeRuntime, None
<1>2. CASE w.host.runtime # None
  <2> DEFINE r == w.host.runtime
             q == Closed(w.procs[r])
  <2>1. r \in 1 .. Len(w.procs)
    BY <1>0, <1>2 DEF Named, HostType, None
  <2>2. q \in ProcType
    BY <2>1, ClosedIs, WorldFields
  <2> HIDE DEF q
  <2>3. d = [w EXCEPT !.procs[r] = q, !.host.runtime = None]
    BY <1>2 DEF DisposeRuntime, q
  <2>4. /\ d.turns = w.turns /\ d.calls = w.calls
        /\ d.procs = [w.procs EXCEPT ![r] = q] /\ d.host = [w.host EXCEPT !.runtime = None]
        /\ d = [host |-> d.host, turns |-> d.turns, calls |-> d.calls, procs |-> d.procs]
    BY <2>3 DEF Typed
  <2>5. d.host \in HostType
    BY <1>0, <2>4 DEF HostType, None
  <2>6. d.procs \in Seq(ProcType) /\ Len(d.procs) = Len(w.procs)
    BY <1>0, <2>1, <2>2, <2>4
  <2>7. Typed(d)
    BY <2>4, <2>5, <2>6, WorldFields DEF Typed
  <2> QED
    BY <1>0, <2>1, <2>4, <2>6, <2>7 DEF HostType, q
<1> QED
  BY <1>1, <1>2

LEMMA DisposeRuntimeKeeps ==
  ASSUME NEW w, Base(w), \A c \in w.calls : c.at # "resume"
  PROVE  Base(DisposeRuntime(w)) /\ Alive(DisposeRuntime(w))
<1> DEFINE d == DisposeRuntime(w)
<1>1. /\ Typed(d) /\ d.turns = w.turns /\ d.calls = w.calls
      /\ d.host.turn = w.host.turn /\ d.host.runtime = None /\ d.host.starting = w.host.starting
      /\ d.host.generation = w.host.generation /\ d.host.gone = w.host.gone
      /\ Len(d.procs) = Len(w.procs)
      /\ \A p \in 1 .. Len(w.procs) :
           d.procs[p] = IF p = w.host.runtime THEN Closed(w.procs[p]) ELSE w.procs[p]
  BY DisposeRuntimeIs DEF Base
<1>2. \A p \in 1 .. Len(w.procs) : w.procs[p] \in ProcType /\ Len(w.procs) \in Nat
  BY WorldFields DEF Base
<1> HIDE DEF d
<1>3. \A p \in 1 .. Len(w.procs) :
        /\ d.procs[p].state # "live" /\ d.procs[p].login = 0
        /\ Starts(d, p) <=> Starts(w, p)
        /\ Starts(w, p) => d.procs[p] = w.procs[p]
  BY <1>1, <1>2, ClosedIs DEF Base, Named, Starts
<1>4. Named(d)
  BY <1>1, <1>2, <1>3 DEF Base, Named, None
<1>5. Spawning(d)
  BY <1>1, <1>3 DEF Base, Spawning, Named, Starts
<1>6. Waiting(d)
  <2>1. \A p : Starts(w, p) => Starts(d, p)
    BY <1>1, <1>3 DEF Starts
  <2> QED
    BY <1>1, <2>1 DEF Base, Waiting
<1>7. Ending(d)
  BY <1>1 DEF Base, Ending
<1> QED
  BY <1>1, <1>4, <1>5, <1>6, <1>7 DEF Base, Alive, d

LEMMA FinishTurnKeeps ==
  ASSUME NEW w, Base(w), NEW t \in Turns
  PROVE  /\ Base(FinishTurn(w, t)) /\ FinishTurn(w, t).host.turn = None
         /\ FinishTurn(w, t).host.runtime = w.host.runtime
         /\ FinishTurn(w, t).calls = w.calls /\ FinishTurn(w, t).procs = w.procs
<1>1. CASE w.host.turn = None
  BY <1>1, FinishTurnIs DEF Base
<1>2. CASE w.host.turn # None
  <2> DEFINE f == FinishTurn(w, t)
  <2>1. /\ Typed(f)
        /\ f.host.turn = None /\ f.host.starting = None
        /\ f.host.generation = w.host.generation + 1
        /\ f.host.runtime = w.host.runtime /\ f.host.gone = w.host.gone
        /\ f.turns = [w.turns EXCEPT ![t] = [w.turns[t] EXCEPT !.end = "storing"]]
        /\ f.calls = w.calls /\ f.procs = w.procs
    BY <1>2, FinishTurnIs DEF Base
  <2>2. /\ w.host \in HostType /\ w.turns \in [Turns -> TurnType] /\ w.calls \in SUBSET CallType
        /\ \A p \in 1 .. Len(w.procs) : w.procs[p] \in ProcType
    BY WorldFields DEF Base
  <2> HIDE DEF f
  <2>4. \A u \in Turns : /\ f.turns[u].settling = w.turns[u].settling
                         /\ f.turns[u].end = IF u = t THEN "storing" ELSE w.turns[u].end
    BY <2>1, <2>2 DEF TurnType
  <2>5. Named(f)
    BY <2>1 DEF Base, Named, None
  <2>6. Spawning(f)
    <3>1. ~w.host.gone /\ w.host.generation \in Nat
      BY <1>2, <2>2 DEF Base, Spawning, HostType
    <3>2. \A p \in 1 .. Len(f.procs) : Starts(f, p) =>
            Starts(w, p) /\ f.procs[p].generation < f.host.generation
      <4> SUFFICES ASSUME NEW p \in 1 .. Len(w.procs), Starts(w, p)
                   PROVE  w.procs[p].generation < w.host.generation + 1
        BY <2>1 DEF Starts
      <4>1. w.procs[p].generation <= w.host.generation /\ w.procs[p].generation \in Nat
        BY <2>2, <3>1 DEF Base, Spawning, ProcType
      <4> QED
        BY <3>1, <4>1
    <3>3. \A p, q \in 1 .. Len(f.procs) :
            Starts(f, p) /\ Starts(f, q) /\ f.procs[p].generation = f.procs[q].generation => p = q
      BY <2>1, <3>2 DEF Base, Spawning
    <3>4. \A p \in 1 .. Len(f.procs) : f.procs[p].generation \in Nat
      BY <2>1, <2>2 DEF ProcType
    <3>5. f.host.generation \in Nat
      BY <2>1, <3>1
    <3> QED
      BY <2>1, <3>1, <3>2, <3>3, <3>4, <3>5 DEF Spawning
  <2>7. Waiting(f)
    BY <2>1, <2>2, <2>4 DEF Base, Waiting, Starts, CallType
  <2>8. Ending(f)
    BY <2>1, <2>4 DEF Base, Ending
  <2> QED
    BY <2>1, <2>5, <2>6, <2>7, <2>8 DEF Base, f
<1> QED
  BY <1>1, <1>2

-----------------------------------------------------------------------------
(* One turn, one process, one call *)

LEMMA TurnSet ==
  ASSUME NEW w, Typed(w), NEW t \in Turns, NEW e \in TurnType
  PROVE  LET v == [w EXCEPT !.turns[t] = e] IN
         /\ Typed(v) /\ v.host = w.host /\ v.calls = w.calls /\ v.procs = w.procs
         /\ v.turns = [w.turns EXCEPT ![t] = e]
<1> DEFINE v == [w EXCEPT !.turns[t] = e]
<1>1. /\ v.host = w.host /\ v.calls = w.calls /\ v.procs = w.procs
      /\ v.turns = [w.turns EXCEPT ![t] = e]
      /\ v = [host |-> v.host, turns |-> v.turns, calls |-> v.calls, procs |-> v.procs]
  BY DEF Typed
<1>2. v.turns \in [Turns -> TurnType]
  BY <1>1, WorldFields
<1> QED
  BY <1>1, <1>2, WorldFields DEF Typed

LEMMA ProcSet ==
  ASSUME NEW w, Typed(w), NEW p \in 1 .. Len(w.procs), NEW e \in ProcType
  PROVE  LET v == [w EXCEPT !.procs[p] = e] IN
         /\ Typed(v) /\ v.host = w.host /\ v.calls = w.calls /\ v.turns = w.turns
         /\ v.procs = [w.procs EXCEPT ![p] = e] /\ Len(v.procs) = Len(w.procs)
         /\ \A q \in 1 .. Len(w.procs) : v.procs[q] = IF q = p THEN e ELSE w.procs[q]
<1> DEFINE v == [w EXCEPT !.procs[p] = e]
<1>1. /\ v.host = w.host /\ v.calls = w.calls /\ v.turns = w.turns
      /\ v.procs = [w.procs EXCEPT ![p] = e]
  BY WorldFields
<1>0. v = [host |-> v.host, turns |-> v.turns, calls |-> v.calls, procs |-> v.procs]
  BY WorldFields
<1>2. /\ v.procs \in Seq(ProcType) /\ Len(v.procs) = Len(w.procs)
      /\ \A q \in 1 .. Len(w.procs) : v.procs[q] = IF q = p THEN e ELSE w.procs[q]
  BY <1>1, WorldFields
<1> QED
  BY <1>0, <1>1, <1>2, WorldFields DEF Typed

(* Base looks at few fields. *)
Alike(v, w) ==
  /\ \A f \in {"turn", "runtime", "starting", "generation", "gone"} : v.host[f] = w.host[f]
  /\ v.calls = w.calls /\ Len(v.procs) = Len(w.procs)
  /\ \A p \in 1 .. Len(w.procs) : /\ v.procs[p].state = w.procs[p].state
                                  /\ v.procs[p].generation = w.procs[p].generation
                                  /\ v.procs[p].login = w.procs[p].login
  /\ \A t \in Turns : /\ v.turns[t].end = w.turns[t].end
                      /\ v.turns[t].settling => w.turns[t].settling \/ w.turns[t].end # "none"

LEMMA AlikeKeeps ==
  ASSUME NEW v, NEW w, Base(w), Typed(v), Alike(v, w)
  PROVE  Base(v) /\ (Alive(w) => Alive(v))
<1>1. /\ v.host.turn = w.host.turn /\ v.host.runtime = w.host.runtime /\ v.host.starting = w.host.starting
      /\ v.host.generation = w.host.generation /\ v.host.gone = w.host.gone
      /\ v.calls = w.calls /\ Len(v.procs) = Len(w.procs)
  BY DEF Alike
<1>2. \A p \in 1 .. Len(w.procs) : /\ v.procs[p].state = w.procs[p].state
                                   /\ v.procs[p].generation = w.procs[p].generation
                                   /\ v.procs[p].login = w.procs[p].login
  BY DEF Alike
<1>3. \A t \in Turns : /\ v.turns[t].end = w.turns[t].end
                       /\ v.turns[t].settling => w.turns[t].settling \/ w.turns[t].end # "none"
  BY DEF Alike
<1>4. w.calls \in SUBSET CallType /\ (w.host.turn # None => w.host.turn \in Turns) /\ w.host \in HostType
      /\ Len(w.procs) \in Nat
  BY WorldFields DEF Base
<1>5. Named(v)
  BY <1>1, <1>2 DEF Base, Named
<1>6. \A p : Starts(v, p) <=> Starts(w, p)
  BY <1>1, <1>2 DEF Starts
<1>7. Spawning(v)
  BY <1>1, <1>2, <1>6 DEF Base, Spawning, Starts
<1>8. Waiting(v)
  BY <1>1, <1>3, <1>4, <1>6 DEF Base, Waiting, CallType
<1>9. Ending(v)
  BY <1>1, <1>3, <1>4 DEF Base, Ending
<1>10. ASSUME Alive(w) PROVE Alive(v)
  BY <1>1, <1>2, <1>4, <1>10 DEF Alive, Base, Named, HostType, None
<1> QED
  BY <1>5, <1>7, <1>8, <1>9, <1>10 DEF Base

LEMMA SteerIs ==
  ASSUME NEW w, Typed(w), NEW p \in 1 .. Len(w.procs)
  PROVE  LET s == Steer(w, p) IN
         /\ Typed(s) /\ s.host = w.host /\ s.turns = w.turns /\ s.calls = w.calls
         /\ Len(s.procs) = Len(w.procs)
         /\ \A q \in 1 .. Len(w.procs) : \A f \in {"state", "generation", "login", "active"} :
              s.procs[q][f] = w.procs[q][f]
         /\ w.procs[p].state = "live" => s.procs[p].prompts > 0
         /\ \A q \in 1 .. Len(w.procs) : s.procs[q].prompts >= w.procs[q].prompts
<1>0. w.procs[p] \in ProcType /\ \A q \in 1 .. Len(w.procs) : w.procs[q] \in ProcType
  BY WorldFields
<1>1. CASE w.procs[p].state = "live"
  <2> DEFINE e == [w.procs[p] EXCEPT !.prompts = w.procs[p].prompts + 1]
  <2>1. e \in ProcType /\ e.prompts = w.procs[p].prompts + 1 /\ w.procs[p].prompts \in Nat
        /\ \A f \in {"state", "generation", "login", "active"} : e[f] = w.procs[p][f]
    BY <1>0 DEF ProcType
  <2> HIDE DEF e
  <2>2. Steer(w, p) = [w EXCEPT !.procs[p] = e]
    BY <1>1 DEF Steer, e
  <2>3. \A q \in 1 .. Len(w.procs) : w.procs[q].prompts \in Nat
    BY <1>0 DEF ProcType
  <2> QED
    BY <2>1, <2>2, <2>3, ProcSet
<1>2. CASE w.procs[p].state # "live"
  <2>1. \A q \in 1 .. Len(w.procs) : w.procs[q].prompts \in Nat
    BY <1>0 DEF ProcType
  <2> QED
    BY <1>2, <2>1 DEF Steer
<1> QED
  BY <1>1, <1>2

LEMMA SteerKeeps ==
  ASSUME NEW w, Base(w), NEW p \in 1 .. Len(w.procs)
  PROVE  Base(Steer(w, p)) /\ (Alive(w) => Alive(Steer(w, p)))
<1> DEFINE s == Steer(w, p)
<1>1. /\ Typed(s) /\ s.host = w.host /\ s.turns = w.turns /\ s.calls = w.calls
      /\ Len(s.procs) = Len(w.procs)
      /\ \A q \in 1 .. Len(w.procs) : \A f \in {"state", "generation", "login", "active"} :
           s.procs[q][f] = w.procs[q][f]
  BY SteerIs DEF Base
<1> HIDE DEF s
<1>2. Alike(s, w)
  BY <1>1 DEF Alike
<1> QED
  BY <1>1, <1>2, AlikeKeeps DEF s

LEMMA TurnStarted ==
  ASSUME NEW g \in TurnType
  PROVE  [g EXCEPT !.started = TRUE] \in TurnType
BY DEF TurnType

(* A turn written over twice holds what was written last. *)
LEMMA TurnOver ==
  ASSUME NEW w, Typed(w), NEW t \in Turns, NEW e, NEW x
  PROVE  [[w EXCEPT !.turns[t] = e] EXCEPT !.turns[t] = x] = [w EXCEPT !.turns[t] = x]
<1>1. w.turns \in [Turns -> TurnType]
  BY DEF Typed
<1>2. [[w.turns EXCEPT ![t] = e] EXCEPT ![t] = x] = [w.turns EXCEPT ![t] = x]
  BY <1>1
<1> DEFINE f == [w.turns EXCEPT ![t] = e]
           h == [w.turns EXCEPT ![t] = x]
<1>3. /\ [w EXCEPT !.turns = f].turns = f
      /\ [w EXCEPT !.turns[t] = x] = [w EXCEPT !.turns = h]
  BY DEF Typed
<1>4. [[w EXCEPT !.turns = f] EXCEPT !.turns = h] = [w EXCEPT !.turns = h]
  <2> HIDE DEF f, h
  <2> QED
    BY DEF Typed
<1> QED
  BY <1>2, <1>3, <1>4

LEMMA PromptIs ==
  ASSUME NEW w, Typed(w), NEW p \in 1 .. Len(w.procs)
  PROVE  LET s == Prompt(w, p) IN
         /\ Typed(s) /\ s.host = w.host /\ s.calls = w.calls /\ Len(s.procs) = Len(w.procs)
         /\ s.turns = IF w.host.turn = None THEN w.turns
                      ELSE [w.turns EXCEPT ![w.host.turn] = [w.turns[w.host.turn] EXCEPT !.started = TRUE]]
         /\ \A q \in 1 .. Len(w.procs) : \A f \in {"state", "generation", "login"} :
              s.procs[q][f] = w.procs[q][f]
         /\ w.procs[p].state = "live" => s.procs[p].prompts > 0
         /\ \A q \in 1 .. Len(w.procs) : s.procs[q].prompts >= w.procs[q].prompts
<1> DEFINE s1 == Steer(w, p)
           b == w.procs[p].state = "live"
           e == [s1.procs[p] EXCEPT !.active = b]
           s2 == [s1 EXCEPT !.procs[p] = e]
           t == w.host.turn
           g == [w.turns[t] EXCEPT !.started = TRUE]
<1>1. /\ Typed(s1) /\ s1.host = w.host /\ s1.turns = w.turns /\ s1.calls = w.calls
      /\ Len(s1.procs) = Len(w.procs)
      /\ \A q \in 1 .. Len(w.procs) : \A f \in {"state", "generation", "login"} :
           s1.procs[q][f] = w.procs[q][f]
      /\ w.procs[p].state = "live" => s1.procs[p].prompts > 0
      /\ \A q \in 1 .. Len(w.procs) : s1.procs[q].prompts >= w.procs[q].prompts
  BY SteerIs
<1> HIDE DEF s1
<1>2. /\ s1.procs[p] \in ProcType /\ (w.host.turn # None => w.host.turn \in Turns)
      /\ w.turns \in [Turns -> TurnType]
  BY <1>1, WorldFields
<1>3. /\ e \in ProcType /\ e.prompts = s1.procs[p].prompts
      /\ \A f \in {"state", "generation", "login"} : e[f] = s1.procs[p][f]
  BY <1>2 DEF ProcType
<1> HIDE DEF e
<1>4. /\ Typed(s2) /\ s2.host = s1.host /\ s2.calls = s1.calls /\ s2.turns = s1.turns
      /\ Len(s2.procs) = Len(s1.procs)
      /\ \A q \in 1 .. Len(s1.procs) : s2.procs[q] = IF q = p THEN e ELSE s1.procs[q]
  BY <1>1, <1>3, ProcSet
<1>5. Prompt(w, p) = IF s2.host.turn = None THEN s2 ELSE [s2 EXCEPT !.turns[s2.host.turn].started = TRUE]
  BY DEF Prompt, s1, e
<1> HIDE DEF s2
<1>6. CASE t = None
  BY <1>1, <1>3, <1>4, <1>5, <1>6
<1>7. CASE t # None
  <2>1. g \in TurnType
    <3>1. t \in Turns /\ w.turns[t] \in TurnType
      BY <1>2, <1>7
    <3> QED
      BY <3>1, TurnStarted
  <2>2. Prompt(w, p) = [s2 EXCEPT !.turns[t] = g]
    BY <1>1, <1>4, <1>5, <1>7
  <2> HIDE DEF g
  <2>3. LET v == [s2 EXCEPT !.turns[t] = g] IN
        /\ Typed(v) /\ v.host = s2.host /\ v.calls = s2.calls /\ v.procs = s2.procs
        /\ v.turns = [s2.turns EXCEPT ![t] = g]
    BY <1>2, <1>4, <1>7, <2>1, TurnSet
  <2> QED
    BY <1>1, <1>3, <1>4, <1>7, <2>2, <2>3 DEF g
<1> QED
  BY <1>6, <1>7

LEMMA PromptKeeps ==
  ASSUME NEW w, Base(w), NEW p \in 1 .. Len(w.procs)
  PROVE  Base(Prompt(w, p)) /\ (Alive(w) => Alive(Prompt(w, p)))
<1> DEFINE s == Prompt(w, p)
<1>1. /\ Typed(s) /\ s.host = w.host /\ s.calls = w.calls /\ Len(s.procs) = Len(w.procs)
      /\ s.turns = IF w.host.turn = None THEN w.turns
                   ELSE [w.turns EXCEPT ![w.host.turn] = [w.turns[w.host.turn] EXCEPT !.started = TRUE]]
      /\ \A q \in 1 .. Len(w.procs) : \A f \in {"state", "generation", "login"} :
           s.procs[q][f] = w.procs[q][f]
  BY PromptIs DEF Base
<1>2. w.turns \in [Turns -> TurnType] /\ (w.host.turn # None => w.host.turn \in Turns)
  BY WorldFields DEF Base
<1> HIDE DEF s
<1>3. \A t \in Turns : s.turns[t].end = w.turns[t].end /\ s.turns[t].settling = w.turns[t].settling
  BY <1>1, <1>2 DEF TurnType
<1>4. Alike(s, w)
  BY <1>1, <1>3 DEF Alike
<1> QED
  BY <1>1, <1>4, AlikeKeeps DEF s

-----------------------------------------------------------------------------
(* What every handler leaves behind *)

(* No card more, no turn but a live one ends, and the live one leaves the  *)
(* map by its end.                                                         *)
Onward(v, w) ==
  \A t \in Turns :
    /\ v.turns[t].cards <= w.turns[t].cards
    /\ v.turns[t].end = w.turns[t].end \/ (w.turns[t].end = "no" /\ v.turns[t].end = "storing")
    /\ w.host.turn = t /\ v.host.turn # t => v.turns[t].end = "storing"

LEMMA OnwardStays ==
  ASSUME NEW v, NEW w, Typed(w), v.host.turn = w.host.turn,
         \A t \in Turns : v.turns[t].end = w.turns[t].end /\ v.turns[t].cards = w.turns[t].cards
  PROVE  Onward(v, w)
<1>1. \A t \in Turns : w.turns[t].cards \in Nat
  BY WorldFields DEF TurnType
<1> QED
  BY <1>1 DEF Onward

LEMMA OnwardAgain ==
  ASSUME NEW u, NEW v, NEW w, Typed(u), Typed(v), Typed(w), Onward(v, w), Onward(u, v)
  PROVE  Onward(u, w)
<1>1. \A t \in Turns : u.turns[t].cards \in Nat /\ v.turns[t].cards \in Nat /\ w.turns[t].cards \in Nat
  BY WorldFields DEF TurnType
<1>2. \A t \in Turns : u.turns[t].cards <= w.turns[t].cards
  BY <1>1 DEF Onward
<1> QED
  BY <1>2 DEF Onward

LEMMA FinishTurnOnward ==
  ASSUME NEW w, Base(w), NEW t \in Turns, w.host.turn \in {None, t}
  PROVE  Onward(FinishTurn(w, t), w)
<1>1. CASE w.host.turn = None
  BY <1>1, FinishTurnIs, OnwardStays DEF Base
<1>2. CASE w.host.turn # None
  <2> DEFINE f == FinishTurn(w, t)
  <2>1. /\ f.host.turn = None
        /\ f.turns = [w.turns EXCEPT ![t] = [w.turns[t] EXCEPT !.end = "storing"]]
    BY <1>2, FinishTurnIs DEF Base
  <2>2. w.turns \in [Turns -> TurnType] /\ w.turns[t].end = "no" /\ w.host.turn = t
    BY <1>2, WorldFields DEF Base, Ending
  <2> HIDE DEF f
  <2>3. \A u \in Turns : /\ f.turns[u].cards = w.turns[u].cards /\ w.turns[u].cards \in Nat
                         /\ f.turns[u].end = IF u = t THEN "storing" ELSE w.turns[u].end
    BY <2>1, <2>2 DEF TurnType
  <2>4. Onward(f, w)
    BY <2>1, <2>2, <2>3 DEF Onward
  <2> QED
    BY <2>4 DEF f
<1> QED
  BY <1>1, <1>2

(* A flag of a turn, but not its end. *)
LEMMA TurnSetKeeps ==
  ASSUME NEW w, Base(w), NEW t \in Turns, NEW e \in TurnType,
         e.end = w.turns[t].end, e.settling => w.turns[t].settling \/ e.end # "none"
  PROVE  LET v == [w EXCEPT !.turns[t] = e] IN
         /\ Base(v) /\ v.host = w.host /\ v.calls = w.calls /\ v.procs = w.procs
         /\ v.turns = [w.turns EXCEPT ![t] = e] /\ (Alive(w) => Alive(v))
         /\ e.cards <= w.turns[t].cards => Onward(v, w)
<1> DEFINE v == [w EXCEPT !.turns[t] = e]
<1>1. /\ Typed(v) /\ v.host = w.host /\ v.calls = w.calls /\ v.procs = w.procs
      /\ v.turns = [w.turns EXCEPT ![t] = e]
  BY TurnSet DEF Base
<1> HIDE DEF v
<1>2. w.turns \in [Turns -> TurnType] /\ \A u \in Turns : w.turns[u].cards \in Nat
  BY WorldFields DEF Base, TurnType
<1>3. Alike(v, w)
  BY <1>1, <1>2 DEF Alike
<1>4. ASSUME e.cards <= w.turns[t].cards PROVE Onward(v, w)
  BY <1>1, <1>2, <1>4 DEF Onward
<1> QED
  BY <1>1, <1>3, <1>4, AlikeKeeps DEF v

Suspended(w, t, why, at, p, kind) ==
  [turn |-> t, why |-> why, at |-> at, proc |-> p, nth |-> w.turns[t].retries, kind |-> kind]

LEMMA CallsSet ==
  ASSUME NEW w, Typed(w), NEW cs \in SUBSET CallType
  PROVE  LET v == [w EXCEPT !.calls = cs] IN
         Typed(v) /\ v.host = w.host /\ v.turns = w.turns /\ v.procs = w.procs /\ v.calls = cs
<1> DEFINE v == [w EXCEPT !.calls = cs]
<1>1. /\ v.host = w.host /\ v.turns = w.turns /\ v.procs = w.procs /\ v.calls = cs
      /\ v = [host |-> v.host, turns |-> v.turns, calls |-> v.calls, procs |-> v.procs]
  BY DEF Typed
<1> HIDE DEF v
<1>2. Typed(v)
  BY <1>1, WorldFields DEF Typed
<1> QED
  BY <1>1, <1>2 DEF v

(* s is w with a call of t more. *)
Suspends(s, w, t, at, p) ==
  /\ Base(s) /\ (Alive(w) => Alive(s)) /\ Onward(s, w)
  /\ s.host = w.host /\ s.turns = w.turns /\ s.procs = w.procs
  /\ \E c \in s.calls : s.calls = w.calls \cup {c} /\ c.turn = t /\ c.at = at /\ c.proc = p

LEMMA SuspendOnKeeps ==
  ASSUME NEW w, Base(w), NEW t \in Turns, w.turns[t].end # "none",
         NEW why \in {"start", "retry", "fresh"}, NEW p \in 0 .. Len(w.procs),
         NEW at \in {"identity", "spawn", "failed", "backoff", "describe"},
         NEW kind \in CallKinds,
         at = "identity" => /\ p # None /\ p = w.host.runtime
                            /\ \A d \in w.calls : d.at \notin {"known", "resume"},
         at = "spawn" => Starts(w, p)
  PROVE  Suspends(SuspendOn(w, t, why, at, p, kind), w, t, at, p)
<1> DEFINE s == SuspendOn(w, t, why, at, p, kind)
<1>0. Len(w.procs) \in Nat /\ p \in Nat /\ w.calls \in SUBSET CallType
  BY WorldFields DEF Base
<1> DEFINE c == Suspended(w, t, why, at, p, kind)
           cs == w.calls \cup {c}
<1>1. c \in CallType /\ c.turn = t /\ c.at = at /\ c.proc = p
  <2>1. w.turns[t] \in TurnType /\ RetryLimit \in Nat
    BY Bounds, WorldFields DEF Base
  <2>2. w.turns[t].retries \in Nat
    BY <2>1 DEF TurnType
  <2> QED
    BY <1>0, <2>2 DEF CallType, Suspended
<1>2. /\ Typed(s) /\ s.host = w.host /\ s.turns = w.turns /\ s.procs = w.procs
      /\ s.calls = w.calls \cup {c} /\ c \in CallType /\ c.turn = t /\ c.at = at /\ c.proc = p
  <2>1. cs \in SUBSET CallType
    BY <1>0, <1>1
  <2>2. s = [w EXCEPT !.calls = cs]
    BY DEF SuspendOn, Suspended
  <2> HIDE DEF s, cs, c
  <2>3. Typed(s) /\ s.host = w.host /\ s.turns = w.turns /\ s.procs = w.procs /\ s.calls = cs
    BY <2>1, <2>2, CallsSet DEF Base
  <2> QED
    BY <1>1, <2>3 DEF cs
<1> HIDE DEF c
<1> HIDE DEF s
<1>3. Named(s)
  BY <1>0, <1>2 DEF Base, Named
<1>4. \A q : Starts(s, q) <=> Starts(w, q)
  BY <1>2 DEF Starts
<1>5. Spawning(s)
  BY <1>2, <1>4 DEF Base, Spawning
<1>6. Waiting(s)
  <2>1. \A d \in w.calls : d.turn \in Turns
    BY <1>0 DEF CallType
  <2>2. c.at \notin {"known", "resume"} /\ (c.at = "identity" => \A d \in w.calls : d.at \notin {"known", "resume"})
    BY <1>2
  <2>3. \A d \in s.calls : s.turns[d.turn].end # "none"
    BY <1>2, <2>1 DEF Base, Waiting
  <2>4. \A d \in s.calls : d.at \in {"identity", "known", "resume"} =>
          d.proc # None /\ (d.proc = s.host.runtime \/ (s.host.runtime = None /\ d.at # "resume"))
    BY <1>2 DEF Base, Waiting
  <2>5. \A d \in s.calls : d.at = "spawn" => Starts(s, d.proc)
    BY <1>2, <1>4 DEF Base, Waiting
  <2>6. \A d \in s.calls : d.at \in {"known", "resume"} => \A e \in s.calls : e.at # "identity"
    BY <1>2, <2>2 DEF Base, Waiting
  <2>7. \A d \in s.calls : d.at = "known" => \A e \in s.calls : e.at # "resume" /\ (e.at = "known" => e.kind = d.kind)
    BY <1>2, <2>2 DEF Base, Waiting
  <2> QED
    BY <2>3, <2>4, <2>5, <2>6, <2>7 DEF Waiting
<1>7. Ending(s)
  BY <1>2 DEF Base, Ending
<1>8. Onward(s, w)
  BY <1>2, OnwardStays DEF Base
<1> QED
  BY <1>2, <1>3, <1>5, <1>6, <1>7, <1>8 DEF Base, Alive, Suspends, s

-----------------------------------------------------------------------------
(* Getting a process *)

LEMMA SpawnBegins ==
  ASSUME NEW w, Base(w), w.host.starting = None, w.host.runtime = None, ~w.host.gone
  PROVE  LET p == Len(w.procs) + 1
             s == [w EXCEPT !.procs = Append(@, NewProc(w.host.generation)), !.host.starting = p]
         IN /\ Base(s) /\ Onward(s, w) /\ Starts(s, p) /\ p \in 1 .. Len(s.procs)
            /\ s.host.turn = w.host.turn /\ s.host.runtime = None /\ s.host.gone = w.host.gone
            /\ s.turns = w.turns /\ s.calls = w.calls
<1> DEFINE p == Len(w.procs) + 1
           n == NewProc(w.host.generation)
           ps == Append(w.procs, n)
           h == [w.host EXCEPT !.starting = p]
           s == [w EXCEPT !.procs = ps, !.host = h]
<1>0. Typed(w)
  BY DEF Base
<1>1. /\ w.host \in HostType /\ Len(w.procs) \in Nat /\ w.calls \in SUBSET CallType
      /\ w.procs \in Seq(ProcType) /\ \A q \in 1 .. Len(w.procs) : w.procs[q] \in ProcType
  BY WorldFields DEF Base
<1>2. n \in ProcType /\ n.state = "starting" /\ n.generation = w.host.generation /\ n.login = 0
      /\ w.host.generation \in Nat
  BY <1>1 DEF NewProc, ProcType, HostType
<1> HIDE DEF n
<1>3. ps \in Seq(ProcType) /\ Len(ps) = p /\ ps[p] = n /\ \A q \in 1 .. Len(w.procs) : ps[q] = w.procs[q]
  BY <1>1, <1>2
<1>4. /\ h \in HostType /\ h.starting = p /\ h.runtime = None /\ h.turn = w.host.turn
      /\ h.generation = w.host.generation /\ ~h.gone /\ h.gone = w.host.gone
  BY <1>1 DEF HostType
<1> HIDE DEF ps, h
<1>5. /\ s.host = h /\ s.turns = w.turns /\ s.calls = w.calls /\ s.procs = ps
      /\ s = [host |-> s.host, turns |-> s.turns, calls |-> s.calls, procs |-> s.procs]
  <2> DEFINE r == [w EXCEPT !.procs = ps]
  <2>1. /\ r.host = w.host /\ r.turns = w.turns /\ r.calls = w.calls /\ r.procs = ps
        /\ r = [host |-> r.host, turns |-> r.turns, calls |-> r.calls, procs |-> r.procs]
    BY <1>0 DEF Typed
  <2>2. s = [r EXCEPT !.host = h]
    OBVIOUS
  <2> HIDE DEF r
  <2> QED
    BY <2>1, <2>2
<1>6. s = [w EXCEPT !.procs = Append(@, NewProc(w.host.generation)), !.host.starting = p]
  BY DEF ps, h, n
<1> HIDE DEF s
<1>7. Typed(s)
  BY <1>3, <1>4, <1>5, WorldFields DEF Typed, Base
<1> HIDE DEF p
<1>8. p \in Nat /\ p # None /\ p \in 1 .. p /\ \A q \in 1 .. p : q = p \/ q \in 1 .. Len(w.procs)
  BY <1>1 DEF p, None
<1>9. \A q \in 1 .. Len(w.procs) : q \in 1 .. p /\ q # p
  BY <1>1 DEF p
<1>10. Named(s)
  <2>1. s.host.runtime <= p /\ s.host.starting <= p
    BY <1>4, <1>5, <1>8 DEF None
  <2>2. \A c \in w.calls : c.proc <= p
    BY <1>1 DEF Base, Named, CallType, p
  <2>3. \A q \in 1 .. p : IF ps[q].state = "live" THEN q = None ELSE ps[q].login = 0
    BY <1>2, <1>3, <1>8 DEF Base, Named
  <2> QED
    BY <1>3, <1>4, <1>5, <2>1, <2>2, <2>3 DEF Named
<1>11. Starts(s, p) /\ \A q : Starts(s, q) <=> (q = p \/ Starts(w, q))
  BY <1>2, <1>3, <1>5, <1>8, <1>9 DEF Starts
<1>12. \A q : Starts(w, q) => /\ q \in 1 .. Len(w.procs) /\ s.procs[q] = w.procs[q]
                             /\ w.procs[q].generation # w.host.generation
  BY <1>1, <1>3, <1>5 DEF Starts, Base, Spawning, None
<1>13. Spawning(s)
  <2>1. \A q \in 1 .. p : Starts(s, q) /\ s.procs[q].generation = s.host.generation => q = p
    BY <1>4, <1>5, <1>11, <1>12
  <2>2. \A q \in 1 .. p : Starts(s, q) => s.procs[q].generation <= s.host.generation
    BY <1>2, <1>3, <1>4, <1>5, <1>11, <1>12 DEF Base, Spawning
  <2>3. \A q, r \in 1 .. p :
          Starts(s, q) /\ Starts(s, r) /\ s.procs[q].generation = s.procs[r].generation => q = r
    BY <1>2, <1>3, <1>5, <1>11, <1>12 DEF Base, Spawning
  <2>4. Starts(s, s.host.starting) /\ s.procs[s.host.starting].generation = s.host.generation
    BY <1>2, <1>3, <1>4, <1>5, <1>11
  <2> QED
    BY <1>3, <1>4, <1>5, <2>1, <2>2, <2>3, <2>4 DEF Spawning
<1>14. Waiting(s)
  BY <1>1, <1>4, <1>5, <1>11 DEF Base, Waiting
<1>15. Ending(s)
  BY <1>4, <1>5 DEF Base, Ending
<1>16. Onward(s, w)
  BY <1>4, <1>5, OnwardStays DEF Base
<1>17. /\ Base(s) /\ p \in 1 .. Len(s.procs)
       /\ s.host.turn = w.host.turn /\ s.host.runtime = None /\ s.host.gone = w.host.gone
       /\ s.turns = w.turns /\ s.calls = w.calls
  BY <1>3, <1>4, <1>5, <1>7, <1>8, <1>10, <1>13, <1>14, <1>15 DEF Base
<1> QED
  BY <1>6, <1>11, <1>16, <1>17 DEF p

(* A call of t is added that waits for a process, or for nothing. *)
Asked(s, w, t, ats) ==
  /\ Base(s) /\ Onward(s, w) /\ (Alive(w) => Alive(s))
  /\ s.host.turn = w.host.turn /\ s.host.runtime = w.host.runtime /\ s.turns = w.turns
  /\ \E c \in s.calls : s.calls = w.calls \cup {c} /\ c.turn = t /\ c.at \in ats
                        /\ (c.at = "identity" => c.proc = w.host.runtime)

LEMMA SpawnKeeps ==
  ASSUME NEW w, Base(w), w.host.runtime = None, NEW t \in Turns, w.turns[t].end # "none",
         NEW why \in {"start", "retry", "fresh"}
  PROVE  Asked(Spawn(w, t, why), w, t, {"spawn", "failed"})
<1>0. w.host \in HostType /\ Len(w.procs) \in Nat /\ Typed(w)
  BY WorldFields DEF Base
<1>1. CASE w.host.starting # None
  <2> DEFINE p == w.host.starting
             s == SuspendOn(w, t, why, "spawn", p, "none")
  <2>1. p \in 0 .. Len(w.procs) /\ Starts(w, p)
    BY <1>0, <1>1 DEF Base, Named, Spawning, HostType
  <2>2. Suspends(s, w, t, "spawn", p)
    BY <2>1, SuspendOnKeeps DEF CallKinds
  <2>3. Spawn(w, t, why) = s
    BY <1>1 DEF Spawn, Suspend
  <2> QED
    BY <2>2, <2>3 DEF Asked, Suspends
<1>2. CASE w.host.starting = None /\ w.host.gone
  <2> DEFINE s == SuspendOn(w, t, why, "failed", None, "fatal")
  <2>1. None \in 0 .. Len(w.procs) /\ "fatal" \in CallKinds
    BY <1>0 DEF None, Kinds, CallKinds
  <2>2. Suspends(s, w, t, "failed", None)
    BY <2>1, SuspendOnKeeps
  <2>3. Spawn(w, t, why) = s
    BY <1>2 DEF Spawn
  <2> QED
    BY <2>2, <2>3 DEF Asked, Suspends
<1>3. CASE w.host.starting = None /\ ~w.host.gone
  <2> DEFINE p == Len(w.procs) + 1
             b == [w EXCEPT !.procs = Append(@, NewProc(w.host.generation)), !.host.starting = p]
             s == SuspendOn(b, t, why, "spawn", p, "none")
  <2>1. /\ Base(b) /\ Onward(b, w) /\ Starts(b, p) /\ p \in 1 .. Len(b.procs)
        /\ b.host.turn = w.host.turn /\ b.host.runtime = None /\ b.turns = w.turns /\ b.calls = w.calls
    BY <1>3, SpawnBegins
  <2>2. Spawn(w, t, why) = s
    BY <1>3 DEF Spawn, Suspend
  <2> HIDE DEF b, p
  <2>3. Len(b.procs) \in Nat /\ Typed(b)
    BY <2>1, WorldFields DEF Base
  <2>4. p \in 0 .. Len(b.procs) /\ b.turns[t].end # "none"
    BY <2>1, <2>3
  <2>5. Suspends(s, b, t, "spawn", p)
    BY <2>1, <2>4, SuspendOnKeeps DEF CallKinds
  <2> HIDE DEF s
  <2>6. Onward(s, w)
    BY <1>0, <2>1, <2>3, <2>5, OnwardAgain DEF Base, Suspends
  <2> QED
    BY <2>1, <2>2, <2>5, <2>6 DEF Asked, Alive, Suspends
<1> QED
  BY <1>1, <1>2, <1>3

LEMMA EnsureRuntimeKeeps ==
  ASSUME NEW w, Base(w), NEW t \in Turns, w.turns[t].end # "none",
         NEW why \in {"start", "retry", "fresh"},
         \A d \in w.calls : d.at \notin {"known", "resume"}
  PROVE  Asked(EnsureRuntime(w, t, why), w, t, {"identity", "spawn", "failed"})
<1>1. CASE w.host.runtime = None
  BY <1>1, SpawnKeeps DEF EnsureRuntime, Asked
<1>2. CASE w.host.runtime # None
  <2> DEFINE p == w.host.runtime
             s == SuspendOn(w, t, why, "identity", p, "none")
  <2>1. p \in 0 .. Len(w.procs) /\ p # None
    BY <1>2, WorldFields DEF Base, Named, HostType
  <2>2. Suspends(s, w, t, "identity", p)
    BY <2>1, SuspendOnKeeps DEF CallKinds
  <2>3. EnsureRuntime(w, t, why) = s
    BY <1>2 DEF EnsureRuntime, Suspend
  <2> QED
    BY <2>2, <2>3 DEF Asked, Suspends
<1> QED
  BY <1>1, <1>2

LEMMA HostSet ==
  ASSUME NEW w, Typed(w), NEW h \in HostType
  PROVE  LET v == [w EXCEPT !.host = h] IN
         Typed(v) /\ v.host = h /\ v.turns = w.turns /\ v.procs = w.procs /\ v.calls = w.calls
<1> DEFINE v == [w EXCEPT !.host = h]
<1>1. /\ v.host = h /\ v.turns = w.turns /\ v.procs = w.procs /\ v.calls = w.calls
      /\ v = [host |-> v.host, turns |-> v.turns, calls |-> v.calls, procs |-> v.procs]
  BY DEF Typed
<1> HIDE DEF v
<1>2. Typed(v)
  BY <1>1, WorldFields DEF Typed
<1> QED
  BY <1>1, <1>2 DEF v

-----------------------------------------------------------------------------
(* The duties *)

(* The live turn has a call that goes on and asks for nothing that may be  *)
(* taken from it.                                                          *)
Firm(w) ==
  w.host.turn # None =>
    \E c \in w.calls :
      /\ c.turn = w.host.turn
      /\ \/ c.at \in {"backoff", "describe"}
         \/ /\ ~w.turns[w.host.turn].settling
            /\ c.at \in {"spawn", "failed"} \/ (c.at = "identity" /\ c.proc = w.host.runtime)

Retries(w) ==
  w.host.turn # None => \E c \in w.calls : c.turn = w.host.turn /\ c.at \in {"backoff", "describe"}

LEMMA FirmDuties == ASSUME NEW w, Firm(w) PROVE Duties(w)
<1>1. CASE w.host.turn = None
  BY <1>1 DEF Duties, Settles, Displaced, Driven
<1>2. CASE w.host.turn # None
  <2>1. PICK c \in w.calls :
          /\ c.turn = w.host.turn
          /\ \/ c.at \in {"backoff", "describe"}
             \/ /\ ~w.turns[w.host.turn].settling
                /\ c.at \in {"spawn", "failed"} \/ (c.at = "identity" /\ c.proc = w.host.runtime)
    BY <1>2 DEF Firm
  <2>2. Settles(w)
    BY <2>1 DEF Settles
  <2>3. Displaced(w)
    BY <2>1 DEF Displaced
  <2>4. Good(w, c)
    BY <2>1 DEF Good
  <2> QED
    BY <2>1, <2>2, <2>3, <2>4 DEF Duties, Driven
<1> QED
  BY <1>1, <1>2

(* The process owes the live turn an answer, or its user does. *)
Powered(w) ==
  /\ w.host.runtime # None
  /\ \/ w.procs[w.host.runtime].prompts > 0
     \/ w.turns[w.host.turn].held /\ w.turns[w.host.turn].cards > 0

(* v has the duties of w and the calls that fulfil them. *)
Carries(v, w) ==
  /\ v.host.turn = w.host.turn /\ v.host.runtime = w.host.runtime /\ v.calls = w.calls
  /\ w.host.turn # None => /\ v.turns[w.host.turn].settling => w.turns[w.host.turn].settling
                           /\ w.turns[w.host.turn].grace => v.turns[w.host.turn].grace

LEMMA CarriesDuties ==
  ASSUME NEW v, NEW w, Carries(v, w)
  PROVE  /\ Settles(w) => Settles(v)
         /\ Displaced(w) => Displaced(v)
         /\ Driven(w) /\ (w.host.turn # None /\ Powered(w) => Powered(v)) => Driven(v)
         /\ Powered(v) => Driven(v)
<1>1. Settles(w) => Settles(v)
  BY DEF Carries, Settles
<1>2. Displaced(w) => Displaced(v)
  BY DEF Carries, Displaced
<1>3. \A c : Good(w, c) <=> Good(v, c)
  BY DEF Carries, Good
<1>4. Powered(v) => Driven(v)
  BY DEF Powered, Driven
<1>5. Driven(w) /\ (w.host.turn # None /\ Powered(w) => Powered(v)) => Driven(v)
  BY <1>3, <1>4 DEF Carries, Driven, Powered
<1> QED
  BY <1>1, <1>2, <1>4, <1>5

-----------------------------------------------------------------------------
(* A turn that failed *)

LEMMA SettleFailedTurnKeeps ==
  ASSUME NEW w, Base(w), NEW t \in Turns, Live(w, t), Settles(w), NEW kind \in CallKinds
  PROVE  LET v == SettleFailedTurn(w, t, kind) IN
         /\ Base(v) /\ Retries(v) /\ Onward(v, w) /\ (Alive(w) => Alive(v))
         /\ v.host.runtime = w.host.runtime /\ v.procs = w.procs
         /\ \A c \in v.calls : c \in w.calls \/ c.at \in {"backoff", "describe"}
<1> DEFINE v == SettleFailedTurn(w, t, kind)
<1>0. /\ w.host.turn = t /\ t # None /\ w.turns[t] \in TurnType /\ w.turns[t].end = "no" /\ Typed(w)
      /\ Len(w.procs) \in Nat /\ w.turns[t].cards \in Nat
  <2>1. t # None
    BY Bounds DEF Turns, None
  <2>2. w.turns[t] \in TurnType
    BY WorldFields DEF Base
  <2>3. w.turns[t].cards \in Nat
    BY <2>2 DEF TurnType
  <2> QED
    BY <2>1, <2>2, <2>3, WorldFields DEF Base, Ending, Live
<1>1. CASE w.turns[t].settling
  <2>1. v = w
    BY <1>1 DEF SettleFailedTurn
  <2>2. Retries(w)
    BY <1>0, <1>1 DEF Settles, Retries
  <2>3. Onward(w, w)
    BY <1>0, OnwardStays
  <2> QED
    BY <2>1, <2>2, <2>3
<1>2. CASE ~w.turns[t].settling /\ (w.turns[t].cancelled \/ kind = "cancelled")
  <2> DEFINE e == [w.turns[t] EXCEPT !.cancelled = TRUE]
             x == [w EXCEPT !.turns[t] = e]
  <2>1. e \in TurnType /\ e.end = w.turns[t].end /\ e.end # "none" /\ e.cards = w.turns[t].cards
    BY <1>0 DEF TurnType
  <2>2. v = FinishTurn([w EXCEPT !.turns[t].cancelled = TRUE], t)
    BY <1>2 DEF SettleFailedTurn, Live
  <2>2a. v = FinishTurn(x, t)
    BY <2>2
  <2> HIDE DEF e
  <2>3. /\ Base(x) /\ x.host = w.host /\ x.calls = w.calls /\ x.procs = w.procs
        /\ (Alive(w) => Alive(x)) /\ Onward(x, w)
    BY <1>0, <2>1, TurnSetKeeps
  <2> HIDE DEF x, v
  <2>4. /\ Base(v) /\ v.host.turn = None /\ v.host.runtime = w.host.runtime
        /\ v.calls = w.calls /\ v.procs = w.procs /\ Onward(v, x)
    BY <1>0, <2>2a, <2>3, FinishTurnKeeps, FinishTurnOnward
  <2>5. Onward(v, w)
    BY <1>0, <2>3, <2>4, OnwardAgain DEF Base
  <2> QED
    BY <2>3, <2>4, <2>5 DEF Retries, Alive, v
<1>3. CASE ~w.turns[t].settling /\ ~(w.turns[t].cancelled \/ kind = "cancelled")
  <2> DEFINE may == MayRetry(w, t, kind)
             e == [w.turns[t] EXCEPT !.settling = TRUE,
                     !.retries = IF may THEN w.turns[t].retries + 1 ELSE w.turns[t].retries]
             x == [w EXCEPT !.turns[t] = e]
             at == IF may THEN "backoff" ELSE "describe"
             k == IF may THEN "none" ELSE kind
             y == SuspendOn(x, t, "retry", at, None, k)
  <2>1. RetryLimit \in Nat /\ w.turns[t].retries \in 0 .. RetryLimit
    BY <1>0, Bounds DEF TurnType
  <2>2. (IF may THEN w.turns[t].retries + 1 ELSE w.turns[t].retries) \in 0 .. RetryLimit
    BY <2>1 DEF MayRetry
  <2>3. e \in TurnType /\ e.end = w.turns[t].end /\ e.end # "none" /\ e.cards = w.turns[t].cards
    BY <1>0, <2>2 DEF TurnType
  <2>4. v = y
    <3>1. CASE may
      <4>1. SettleFailedTurn(w, t, kind) =
              LET s == [w EXCEPT !.turns[t].settling = TRUE]
                  r == [s EXCEPT !.turns[t].retries = @ + 1]
              IN SuspendOn(r, t, "retry", "backoff", None, "none")
        BY <1>3, <3>1 DEF SettleFailedTurn, Live, Suspend, MayRetry
      <4>2. [[w EXCEPT !.turns[t].settling = TRUE] EXCEPT !.turns[t].retries = @ + 1] = x
        BY <1>0, <3>1, WorldFields DEF TurnType, Typed
      <4> QED
        BY <3>1, <4>1, <4>2
    <3>2. CASE ~may
      <4>1. SettleFailedTurn(w, t, kind) =
              SuspendOn([w EXCEPT !.turns[t].settling = TRUE], t, "retry", "describe", None, kind)
        BY <1>3, <3>2 DEF SettleFailedTurn, Live, Suspend, MayRetry
      <4>2. [w EXCEPT !.turns[t].settling = TRUE] = x
        BY <1>0, <3>2, WorldFields DEF TurnType, Typed
      <4> QED
        BY <3>2, <4>1, <4>2
    <3> QED
      BY <3>1, <3>2
  <2>5. at \in {"backoff", "describe"} /\ at # "identity" /\ at # "spawn" /\ k \in CallKinds
    BY DEF CallKinds
  <2> HIDE DEF e, at, k, v, may
  <2>6. /\ Base(x) /\ x.host = w.host /\ x.calls = w.calls /\ x.procs = w.procs
        /\ x.turns = [w.turns EXCEPT ![t] = e]
        /\ (Alive(w) => Alive(x)) /\ Onward(x, w)
    BY <1>0, <2>3, TurnSetKeeps
  <2> HIDE DEF x, y
  <2>7. x.turns[t].end # "none" /\ None \in 0 .. Len(x.procs)
    BY <1>0, <2>3, <2>6, WorldFields DEF None
  <2>8. Suspends(y, x, t, at, None)
    <3>1. CASE may
      <4>1. Suspends(SuspendOn(x, t, "retry", "backoff", None, "none"), x, t, "backoff", None)
        BY <2>6, <2>7, SuspendOnKeeps DEF CallKinds
      <4> QED
        BY <3>1, <4>1 DEF y, at, k
    <3>2. CASE ~may
      <4>1. Suspends(SuspendOn(x, t, "retry", "describe", None, kind), x, t, "describe", None)
        BY <2>6, <2>7, SuspendOnKeeps DEF CallKinds
      <4> QED
        BY <3>2, <4>1 DEF y, at, k
    <3> QED
      BY <3>1, <3>2
  <2>9. Base(y) /\ y.host = w.host /\ y.procs = w.procs /\ (Alive(w) => Alive(y)) /\ Onward(y, x)
        /\ \E c \in y.calls : y.calls = w.calls \cup {c} /\ c.turn = t /\ c.at = at
    BY <2>6, <2>8 DEF Suspends
  <2>10. Retries(y) /\ \A c \in y.calls : c \in w.calls \/ c.at \in {"backoff", "describe"}
    BY <1>0, <2>5, <2>9 DEF Retries
  <2>11. Onward(y, w)
    BY <1>0, <2>6, <2>9, OnwardAgain DEF Base
  <2> QED
    BY <2>4, <2>9, <2>10, <2>11 DEF v
<1> QED
  BY <1>1, <1>2, <1>3

-----------------------------------------------------------------------------
(* A process is there, its answer, its exit *)

LEMMA PromptDuties ==
  ASSUME NEW w, Base(w), NEW p \in 1 .. Len(w.procs), Settles(w), Displaced(w),
         Driven(w) \/ (Alive(w) /\ p = w.host.runtime)
  PROVE  Duties(Prompt(w, p)) /\ Onward(Prompt(w, p), w)
<1> DEFINE s == Prompt(w, p)
           u == w.host.turn
           r == w.host.runtime
<1>1. /\ Typed(s) /\ s.host = w.host /\ s.calls = w.calls /\ Len(s.procs) = Len(w.procs)
      /\ s.turns = IF u = None THEN w.turns
                   ELSE [w.turns EXCEPT ![u] = [w.turns[u] EXCEPT !.started = TRUE]]
      /\ w.procs[p].state = "live" => s.procs[p].prompts > 0
      /\ \A q \in 1 .. Len(w.procs) : s.procs[q].prompts >= w.procs[q].prompts
  BY PromptIs DEF Base
<1>2. /\ w.turns \in [Turns -> TurnType] /\ (u # None => u \in Turns) /\ Typed(w)
      /\ Len(w.procs) \in Nat /\ w.host \in HostType
      /\ \A q \in 1 .. Len(w.procs) : w.procs[q] \in ProcType /\ s.procs[q] \in ProcType
  BY <1>1, WorldFields DEF Base
<1> HIDE DEF s
<1>3. \A t \in Turns : /\ s.turns[t].end = w.turns[t].end /\ s.turns[t].cards = w.turns[t].cards
                       /\ s.turns[t].settling = w.turns[t].settling /\ s.turns[t].grace = w.turns[t].grace
                       /\ s.turns[t].held = w.turns[t].held
  BY <1>1, <1>2 DEF TurnType
<1>4. Onward(s, w)
  BY <1>1, <1>2, <1>3, OnwardStays
<1>5. Carries(s, w)
  BY <1>1, <1>2, <1>3 DEF Carries
<1>6. r # None => r \in 1 .. Len(w.procs)
  BY <1>2 DEF Base, Named, HostType, None
<1>7. \A q \in 1 .. Len(w.procs) : w.procs[q].prompts \in Nat /\ s.procs[q].prompts \in Nat
  BY <1>2 DEF ProcType
<1>8. u # None /\ Powered(w) => Powered(s)
  BY <1>1, <1>2, <1>3, <1>6, <1>7 DEF Powered
<1>9. Alive(w) /\ p = r => Powered(s)
  BY <1>1, <1>2 DEF Alive, Powered, None
<1> QED
  BY <1>4, <1>5, <1>8, <1>9, CarriesDuties DEF Duties, s

LEMMA GotRuntimeKeeps ==
  ASSUME NEW w, Base(w), Alive(w), NEW t \in Turns, NEW why, NEW p \in 1 .. Len(w.procs),
         Settles(w), Displaced(w), Driven(w) \/ (w.host.turn = t /\ p = w.host.runtime)
  PROVE  LET g == GotRuntime(w, t, why, p) IN Base(g) /\ Alive(g) /\ Duties(g) /\ Onward(g, w)
<1> DEFINE g == GotRuntime(w, t, why, p)
<1>1. CASE g = Prompt(w, p)
  BY <1>1, PromptKeeps, PromptDuties
<1>2. CASE why = "start" /\ Stopped(w, t)
  <2> DEFINE h == [w.host EXCEPT !.stop = FALSE]
             x == [w EXCEPT !.host = h]
             e == [w.turns[t] EXCEPT !.cancelled = w.turns[t].cancelled \/ w.host.stop]
             y == [x EXCEPT !.turns[t] = e]
  <2>1. /\ w.host \in HostType /\ w.turns[t] \in TurnType /\ Typed(w) /\ w.turns \in [Turns -> TurnType]
    BY WorldFields DEF Base
  <2>2. /\ h \in HostType /\ h.turn = w.host.turn /\ h.runtime = w.host.runtime /\ h.starting = w.host.starting
        /\ h.generation = w.host.generation /\ h.gone = w.host.gone
    BY <2>1 DEF HostType
  <2>3. /\ e \in TurnType /\ e.end = w.turns[t].end /\ e.cards = w.turns[t].cards
        /\ e.settling = w.turns[t].settling /\ e.grace = w.turns[t].grace /\ e.held = w.turns[t].held
        /\ w.turns[t].cards \in Nat
    BY <2>1 DEF TurnType, HostType
  <2>4. g = IF Live(y, t) THEN FinishTurn(y, t) ELSE y
    <3>1. [w EXCEPT !.host.stop = FALSE, !.turns[t].cancelled = @ \/ w.host.stop] = y
      BY <2>1 DEF Typed
    <3> QED
      BY <1>2, <3>1 DEF GotRuntime
  <2> HIDE DEF h, e
  <2>5. Typed(x) /\ x.host = h /\ x.turns = w.turns /\ x.procs = w.procs /\ x.calls = w.calls
    BY <2>1, <2>2, HostSet
  <2> HIDE DEF x
  <2>6. Alike(x, w)
    BY <2>2, <2>5 DEF Alike
  <2>7. Base(x) /\ Alive(x)
    BY <2>5, <2>6, AlikeKeeps
  <2>8. /\ Base(y) /\ y.host = h /\ y.calls = w.calls /\ y.procs = w.procs
        /\ y.turns = [w.turns EXCEPT ![t] = e] /\ Alive(y)
    BY <2>3, <2>5, <2>7, TurnSetKeeps
  <2> HIDE DEF y
  <2>9. Typed(y) /\ \A u \in Turns : /\ y.turns[u].end = w.turns[u].end /\ y.turns[u].cards = w.turns[u].cards
                         /\ y.turns[u].settling = w.turns[u].settling /\ y.turns[u].grace = w.turns[u].grace
                         /\ y.turns[u].held = w.turns[u].held
    BY <2>1, <2>3, <2>8 DEF Base
  <2>10. Onward(y, w)
    BY <2>1, <2>2, <2>8, <2>9, OnwardStays
  <2>11. CASE Live(y, t)
    <3> DEFINE f == FinishTurn(y, t)
    <3>1. /\ Base(f) /\ f.host.turn = None /\ f.host.runtime = y.host.runtime
          /\ f.calls = y.calls /\ f.procs = y.procs
      BY <2>8, FinishTurnKeeps
    <3>2. Onward(f, y)
      BY <2>8, <2>11, FinishTurnOnward DEF Live
    <3> HIDE DEF f
    <3>3. Onward(f, w)
      BY <2>1, <2>8, <2>9, <2>10, <3>1, <3>2, OnwardAgain DEF Base
    <3>4. Firm(f) /\ Alive(f)
      BY <2>8, <3>1 DEF Firm, Alive
    <3> QED
      BY <2>4, <2>11, <3>1, <3>3, <3>4, FirmDuties DEF f
  <2>12. CASE ~Live(y, t)
    <3>1. w.host.turn # t /\ Driven(w)
      BY <2>2, <2>8, <2>12 DEF Live
    <3>2. Carries(y, w)
      BY <2>2, <2>8, <2>9, WorldFields DEF Base, Carries
    <3>3. w.host.turn # None /\ Powered(w) => Powered(y)
      BY <2>2, <2>8, <2>9, WorldFields DEF Base, Powered
    <3> QED
      BY <2>4, <2>8, <2>10, <2>12, <3>1, <3>2, <3>3, CarriesDuties DEF Duties
  <2> QED
    BY <2>11, <2>12
<1> QED
  BY <1>1, <1>2 DEF GotRuntime

LEMMA TurnFinishedKeeps ==
  ASSUME NEW w, Base(w), Settles(w), Displaced(w), NEW kind \in Kinds \cup {"ok"},
         w.host.runtime = None => Driven(w)
  PROVE  LET v == TurnFinished(w, kind) IN
         /\ Base(v) /\ Settles(v) /\ Displaced(v) /\ (Alive(w) => Alive(v) /\ Driven(v)) /\ Onward(v, w)
         /\ v.host.runtime = w.host.runtime /\ Len(v.procs) = Len(w.procs)
         /\ \A p \in 1 .. Len(w.procs) : v.procs[p].state = w.procs[p].state
         /\ \A c \in v.calls : c \in w.calls \/ c.at \in {"backoff", "describe"}
<1> DEFINE v == TurnFinished(w, kind)
           t == w.host.turn
           r == w.host.runtime
<1>0. /\ w.host \in HostType /\ w.turns \in [Turns -> TurnType] /\ Typed(w) /\ (t # None => t \in Turns)
      /\ Len(w.procs) \in Nat /\ (r # None => r \in 1 .. Len(w.procs))
  BY WorldFields DEF Base, Named, HostType, None
<1>1. CASE t = None
  <2>1. v = w
    BY <1>1 DEF TurnFinished
  <2>2. Driven(w) /\ Onward(w, w)
    BY <1>0, <1>1, OnwardStays DEF Driven
  <2> QED
    BY <2>1, <2>2
<1>2. CASE t # None
  <2> DEFINE e == [w.turns[t] EXCEPT !.cancelled = w.turns[t].cancelled \/ kind = "cancelled"]
             s == [w EXCEPT !.turns[t] = e]
             e1 == [e EXCEPT !.held = TRUE]
             z1 == [w EXCEPT !.turns[t] = e1]
             e2 == [e EXCEPT !.followUp = FALSE, !.held = FALSE]
             z2 == [w EXCEPT !.turns[t] = e2]
  <2>1. t \in Turns /\ w.turns[t] \in TurnType /\ w.turns[t].end = "no"
    BY <1>0, <1>2 DEF Base, Ending
  <2>2. /\ e \in TurnType /\ e.end = w.turns[t].end /\ e.cards = w.turns[t].cards
        /\ e.settling = w.turns[t].settling /\ e.grace = w.turns[t].grace /\ e.held = w.turns[t].held
        /\ w.turns[t].cards \in Nat
    BY <2>1 DEF TurnType
  <2>3. /\ e1 \in TurnType /\ e1.end = w.turns[t].end /\ e1.cards = w.turns[t].cards
        /\ e1.settling = w.turns[t].settling /\ e1.grace = w.turns[t].grace /\ e1.held
    BY <2>1 DEF TurnType
  <2>4. /\ e2 \in TurnType /\ e2.end = w.turns[t].end /\ e2.cards = w.turns[t].cards
        /\ e2.settling = w.turns[t].settling /\ e2.grace = w.turns[t].grace
    BY <2>1 DEF TurnType
  <2>5. \/ v = z1 /\ Defers(s, t)
        \/ v = Steer(z2, r) /\ r # None
        \/ v = FinishTurn(s, t)
        \/ v = SettleFailedTurn(s, t, kind) /\ kind \in Kinds
    <3>1. [w EXCEPT !.turns[t].cancelled = @ \/ kind = "cancelled"] = s
      BY DEF Typed
    <3>2. [s EXCEPT !.turns[t].held = TRUE] = z1
      <4> HIDE DEF e
      <4>1. s.turns[t] = e
        BY <1>0, <2>1 DEF Typed
      <4>2. [s EXCEPT !.turns[t] = [e EXCEPT !.held = TRUE]] = z1
        BY <1>0, <2>1, TurnOver
      <4> HIDE DEF s, z1
      <4> QED
        BY <4>1, <4>2
    <3>3. [s EXCEPT !.turns[t].followUp = FALSE, !.turns[t].held = FALSE] = z2
      <4> HIDE DEF e
      <4>1. s.turns[t] = e
        BY <1>0, <2>1 DEF Typed
      <4>2. [s EXCEPT !.turns[t] = [e EXCEPT !.followUp = FALSE, !.held = FALSE]] = z2
        BY <1>0, <2>1, TurnOver
      <4>3. [s EXCEPT !.turns[t].followUp = FALSE, !.turns[t].held = FALSE]
              = [s EXCEPT !.turns[t] = [s.turns[t] EXCEPT !.followUp = FALSE, !.held = FALSE]]
        <5> HIDE DEF s
        <5> QED
          OBVIOUS
      <4> HIDE DEF s, z2
      <4> QED
        BY <4>1, <4>2, <4>3
    <3>4. s.host = w.host
      BY <1>0 DEF Typed
    <3> HIDE DEF s, z1, z2
    <3>5. v = CASE t = None -> w
                [] t # None /\ Defers(s, t) -> z1
                [] t # None /\ ~Defers(s, t) /\ kind = "ok" /\ ~s.turns[t].cancelled /\ s.turns[t].followUp
                     /\ s.host.runtime # None -> Steer(z2, s.host.runtime)
                [] OTHER -> IF kind = "ok" \/ s.turns[t].cancelled THEN FinishTurn(s, t)
                            ELSE SettleFailedTurn(s, t, kind)
      BY <3>1, <3>2, <3>3 DEF TurnFinished
    <3> QED
      BY <1>2, <3>4, <3>5
  <2>6. r = None => ~Powered(w)
    BY DEF Powered
  <2> HIDE DEF e, e1, e2
  <2>7. /\ Base(s) /\ s.host = w.host /\ s.calls = w.calls /\ s.procs = w.procs
        /\ s.turns = [w.turns EXCEPT ![t] = e] /\ (Alive(w) => Alive(s)) /\ Onward(s, w)
    BY <2>1, <2>2, TurnSetKeeps
  <2>8. /\ Base(z1) /\ z1.host = w.host /\ z1.calls = w.calls /\ z1.procs = w.procs
        /\ z1.turns = [w.turns EXCEPT ![t] = e1] /\ (Alive(w) => Alive(z1)) /\ Onward(z1, w)
    BY <2>1, <2>2, <2>3, TurnSetKeeps
  <2>9. /\ Base(z2) /\ z2.host = w.host /\ z2.calls = w.calls /\ z2.procs = w.procs
        /\ z2.turns = [w.turns EXCEPT ![t] = e2] /\ (Alive(w) => Alive(z2)) /\ Onward(z2, w)
    BY <2>1, <2>2, <2>4, TurnSetKeeps
  <2> HIDE DEF s, z1, z2, v
  <2>10. Carries(s, w) /\ Carries(z1, w) /\ Carries(z2, w)
    BY <1>0, <2>1, <2>2, <2>3, <2>4, <2>7, <2>8, <2>9 DEF Carries
  <2>11. Settles(s) /\ Displaced(s) /\ Typed(s) /\ Live(s, t)
    BY <2>7, <2>10, CarriesDuties DEF Base, Live
  <2>12. CASE v = z1 /\ Defers(s, t)
    <3>1. r # None => Powered(z1)
      BY <1>0, <2>1, <2>2, <2>3, <2>7, <2>8, <2>12 DEF Powered, Defers
    <3>2. Settles(z1) /\ Displaced(z1) /\ Driven(z1)
      BY <2>6, <2>10, <3>1, CarriesDuties
    <3> QED
      BY <2>8, <2>12, <3>2 DEF v
  <2>13. CASE v = Steer(z2, r) /\ r # None
    <3>1. r \in 1 .. Len(z2.procs) /\ Typed(z2)
      BY <1>0, <2>9, <2>13 DEF Base
    <3>2. /\ Typed(v) /\ v.host = z2.host /\ v.turns = z2.turns /\ v.calls = z2.calls
          /\ Len(v.procs) = Len(z2.procs)
          /\ \A q \in 1 .. Len(z2.procs) : v.procs[q].state = z2.procs[q].state
          /\ z2.procs[r].state = "live" => v.procs[r].prompts > 0
      BY <2>13, <3>1, SteerIs
    <3>3. Base(v) /\ (Alive(z2) => Alive(v))
      BY <2>9, <2>13, <3>1, SteerKeeps
    <3>4. Carries(v, w)
      BY <2>9, <2>10, <3>2 DEF Carries
    <3>5. Alive(w) => Powered(v)
      BY <2>9, <2>13, <3>2 DEF Alive, Powered
    <3>6. Onward(v, z2)
      BY <3>1, <3>2, OnwardStays
    <3>7. Onward(v, w)
      BY <1>0, <2>9, <3>1, <3>2, <3>6, OnwardAgain
    <3> QED
      BY <2>9, <3>2, <3>3, <3>4, <3>5, <3>7, CarriesDuties DEF v
  <2>14. CASE v = FinishTurn(s, t)
    <3>1. /\ Base(v) /\ v.host.turn = None /\ v.host.runtime = s.host.runtime
          /\ v.calls = s.calls /\ v.procs = s.procs
      BY <2>1, <2>7, <2>14, FinishTurnKeeps
    <3>2. Onward(v, s)
      BY <2>1, <2>7, <2>14, FinishTurnOnward
    <3>3. Onward(v, w)
      BY <1>0, <2>7, <2>11, <3>1, <3>2, OnwardAgain DEF Base
    <3>4. Settles(v) /\ Displaced(v) /\ Driven(v)
      BY <3>1, FirmDuties DEF Firm, Duties
    <3> QED
      BY <2>7, <3>1, <3>3, <3>4 DEF Alive, v
  <2>15. CASE v = SettleFailedTurn(s, t, kind) /\ kind \in Kinds
    <3>1. /\ Base(v) /\ Retries(v) /\ Onward(v, s) /\ (Alive(s) => Alive(v))
          /\ v.host.runtime = s.host.runtime /\ v.procs = s.procs
          /\ \A c \in v.calls : c \in s.calls \/ c.at \in {"backoff", "describe"}
      BY <2>1, <2>7, <2>11, <2>15, SettleFailedTurnKeeps DEF CallKinds
    <3>2. Onward(v, w)
      BY <1>0, <2>7, <2>11, <3>1, OnwardAgain DEF Base
    <3>3. Firm(v)
      BY <3>1 DEF Retries, Firm
    <3>4. Settles(v) /\ Displaced(v) /\ Driven(v)
      BY <3>3, FirmDuties DEF Duties
    <3> QED
      BY <2>7, <3>1, <3>2, <3>4 DEF v
  <2> QED
    BY <2>5, <2>12, <2>13, <2>14, <2>15 DEF v
<1> QED
  BY <1>1, <1>2

(* The process that the host knew has exited. *)
LEMMA NoRuntimeKeeps ==
  ASSUME NEW w, Base(w), Retries(w), \A c \in w.calls : c.at # "resume",
         \A p \in 1 .. Len(w.procs) : w.procs[p].state # "live"
  PROVE  LET v == [w EXCEPT !.host.runtime = None] IN
         Base(v) /\ Alive(v) /\ Duties(v) /\ Onward(v, w)
<1> DEFINE h == [w.host EXCEPT !.runtime = None]
           v == [w EXCEPT !.host = h]
<1>0. /\ w.host \in HostType /\ Typed(w) /\ None \in Nat /\ Len(w.procs) \in Nat
      /\ (w.host.turn # None => w.host.turn \in Turns) /\ w.calls \in SUBSET CallType
  BY WorldFields DEF Base, None
<1>1. /\ h \in HostType /\ h.turn = w.host.turn /\ h.runtime = None /\ h.starting = w.host.starting
      /\ h.generation = w.host.generation /\ h.gone = w.host.gone
  BY <1>0 DEF HostType
<1> HIDE DEF h
<1>2. Typed(v) /\ v.host = h /\ v.turns = w.turns /\ v.procs = w.procs /\ v.calls = w.calls
  BY <1>0, <1>1, HostSet
<1>3. [w EXCEPT !.host.runtime = None] = v
  BY DEF h
<1> HIDE DEF v
<1>4. Named(v)
  BY <1>0, <1>1, <1>2 DEF Base, Named, None
<1>5. \A p : Starts(v, p) <=> Starts(w, p)
  BY <1>2 DEF Starts
<1>6. Spawning(v)
  BY <1>1, <1>2, <1>5 DEF Base, Spawning
<1>7. Waiting(v)
  BY <1>1, <1>2, <1>5 DEF Base, Waiting
<1>8. Ending(v)
  BY <1>1, <1>2 DEF Base, Ending
<1>9. Firm(v)
  BY <1>1, <1>2 DEF Retries, Firm
<1>10. Onward(v, w) /\ Alive(v)
  BY <1>0, <1>1, <1>2, OnwardStays DEF Alive
<1> QED
  BY <1>2, <1>3, <1>4, <1>6, <1>7, <1>8, <1>9, <1>10, FirmDuties DEF Base

LEMMA ProcessExitedKeeps ==
  ASSUME NEW w, Base(w), Settles(w), NEW kind \in Kinds, \A c \in w.calls : c.at # "resume",
         \A p \in 1 .. Len(w.procs) : w.procs[p].state # "live"
  PROVE  LET v == ProcessExited(w, kind) IN
         Base(v) /\ Alive(v) /\ Duties(v) /\ Onward(v, w)
<1> DEFINE v == ProcessExited(w, kind)
           t == w.host.turn
<1>0. Typed(w) /\ (t # None => t \in Turns)
  BY WorldFields DEF Base
<1>1. CASE t = None
  <2> DEFINE d == DisposeRuntime(w)
  <2>1. Base(d) /\ Alive(d)
    BY DisposeRuntimeKeeps
  <2>2. d.turns = w.turns /\ d.host.turn = w.host.turn
    BY DisposeRuntimeIs DEF Base
  <2>3. v = d
    BY <1>1 DEF ProcessExited
  <2> HIDE DEF d, v
  <2>4. Onward(d, w) /\ Firm(d)
    BY <1>0, <1>1, <2>2, OnwardStays DEF Firm
  <2> QED
    BY <2>1, <2>3, <2>4, FirmDuties DEF v
<1>2. CASE t # None
  <2>1. PICK x : /\ v = [x EXCEPT !.host.runtime = None]
                 /\ Base(x) /\ Retries(x) /\ Onward(x, w) /\ x.procs = w.procs
                 /\ \A c \in x.calls : c \in w.calls \/ c.at \in {"backoff", "describe"}
    <3>1. CASE w.turns[t].settling
      <4>1. Retries(w) /\ Onward(w, w)
        BY <1>0, <3>1, OnwardStays DEF Settles, Retries
      <4>2. v = [w EXCEPT !.host.runtime = None]
        BY <1>2, <3>1 DEF ProcessExited
      <4> QED
        BY <4>1, <4>2
    <3>2. CASE ~w.turns[t].settling /\ w.turns[t].cancelled
      <4> DEFINE f == FinishTurn(w, t)
      <4>1. Base(f) /\ f.host.turn = None /\ f.calls = w.calls /\ f.procs = w.procs
        BY <1>0, <1>2, FinishTurnKeeps
      <4>2. Onward(f, w)
        BY <1>0, <1>2, FinishTurnOnward
      <4>3. v = [f EXCEPT !.host.runtime = None]
        BY <1>2, <3>2 DEF ProcessExited
      <4> HIDE DEF f, v
      <4> QED
        BY <4>1, <4>2, <4>3 DEF Retries
    <3>3. CASE ~w.turns[t].settling /\ ~w.turns[t].cancelled
      <4> DEFINE f == SettleFailedTurn(w, t, kind)
      <4>1. Live(w, t)
        BY DEF Live
      <4>2. /\ Base(f) /\ Retries(f) /\ Onward(f, w) /\ f.procs = w.procs
            /\ \A c \in f.calls : c \in w.calls \/ c.at \in {"backoff", "describe"}
        BY <1>0, <1>2, <4>1, SettleFailedTurnKeeps DEF CallKinds
      <4>3. v = [f EXCEPT !.host.runtime = None]
        BY <1>2, <3>3 DEF ProcessExited
      <4> HIDE DEF f, v
      <4> QED
        BY <4>2, <4>3
    <3> QED
      BY <3>1, <3>2, <3>3
  <2> HIDE DEF v
  <2>2. Base(v) /\ Alive(v) /\ Duties(v) /\ Onward(v, x)
    BY <2>1, NoRuntimeKeeps
  <2>3. Onward(v, w)
    BY <1>0, <2>1, <2>2, OnwardAgain DEF Base
  <2> QED
    BY <2>2, <2>3 DEF v
<1> QED
  BY <1>1, <1>2

-----------------------------------------------------------------------------
(* Steps *)

LEMMA BecomeIs ==
  ASSUME NEW v, Typed(v), Become(v)
  PROVE  World' = v
BY WorldFields DEF Become, World

(* What a step does to the ends of turns; see TurnsEndOnce. *)
EndsWell(t) ==
  /\ turns'[t].end = turns[t].end \/ <<turns[t].end, turns'[t].end>> \in EndSteps
  /\ host.turn = t /\ host'.turn # t => turns'[t].end = "storing" \/ host'.gone

Kept == IInv' /\ (LateFresh \/ \A t \in Turns : EndsWell(t))

LEMMA CountKeeps ==
  ASSUME Rest, UNCHANGED count \/ Fails \/ Input
  PROVE  Rest' /\ count'.cards = count.cards
BY Bounds DEF Rest, Fails, Input

LEMMA InvFields ==
  ASSUME IInv
  PROVE  /\ Base(World) /\ Alive(World) /\ Settles(World) /\ Displaced(World) /\ Driven(World) /\ Typed(World)
         /\ World.host = host /\ World.turns = turns /\ World.calls = calls /\ World.procs = procs
         /\ host \in HostType /\ turns \in [Turns -> TurnType] /\ calls \in SUBSET CallType
         /\ procs \in Seq(ProcType) /\ Len(procs) \in Nat /\ Pids = 1 .. Len(procs)
         /\ (host.turn # None => host.turn \in Turns)
         /\ \A t \in Turns : turns[t] \in TurnType
         /\ \A p \in 1 .. Len(procs) : procs[p] \in ProcType
         /\ Rest /\ CardsOK
<1>1. Typed(World) /\ World.host = host /\ World.turns = turns /\ World.calls = calls /\ World.procs = procs
  BY DEF IInv, Base, World
<1>2. turns \in [Turns -> TurnType] => \A t \in Turns : turns[t] \in TurnType
  OBVIOUS
<1> QED
  BY <1>1, <1>2, WorldFields DEF IInv, Duties, Pids

LEMMA InvStep ==
  ASSUME IInv, NEW v, Become(v), Base(v), Alive(v), Duties(v),
         \A t \in Turns : v.turns[t].cards <= turns[t].cards,
         UNCHANGED count \/ Fails \/ Input
  PROVE  IInv' /\ World' = v /\ host' = v.host /\ turns' = v.turns
<1>1. World' = v /\ host' = v.host /\ turns' = v.turns
  BY BecomeIs DEF Base, Become
<1>2. Rest' /\ count'.cards = count.cards
  BY CountKeeps DEF IInv
<1>3. CardsOK'
  <2>1. CardsOK /\ count.cards \in Nat
    BY InvFields, Bounds DEF Rest
  <2>2. \A t \in Turns : turns[t] \in TurnType /\ v.turns[t] \in TurnType
    BY InvFields, WorldFields DEF Base
  <2>3. \A t \in Turns : v.turns[t].cards <= count.cards
    <3> TAKE t \in Turns
    <3>1. v.turns[t].cards <= turns[t].cards /\ turns[t].cards <= count.cards
      BY <2>1 DEF CardsOK
    <3>2. turns[t].cards \in Nat /\ v.turns[t].cards \in Nat
      BY <2>2 DEF TurnType
    <3> QED
      BY <2>1, <3>1, <3>2
  <2> QED
    BY <1>1, <1>2, <2>3 DEF CardsOK
<1>4. Base(World') /\ Alive(World') /\ Duties(World')
  BY <1>1
<1> QED
  BY <1>1, <1>2, <1>3, <1>4 DEF IInv

LEMMA OnwardStep ==
  ASSUME IInv, NEW v, Become(v), Base(v), Alive(v), Duties(v), Onward(v, World),
         UNCHANGED count \/ Fails \/ Input
  PROVE  Kept
<1>1. World.turns = turns /\ World.host = host
  BY InvFields
<1>2. \A t \in Turns : v.turns[t].cards <= turns[t].cards
  BY <1>1 DEF Onward
<1>3. IInv' /\ host' = v.host /\ turns' = v.turns
  BY <1>2, InvStep
<1>4. \A t \in Turns : EndsWell(t)
  BY <1>1, <1>3 DEF EndsWell, Onward, EndSteps
<1> QED
  BY <1>3, <1>4 DEF Kept

-----------------------------------------------------------------------------
(* The user *)

LEMMA LeastNat ==
  ASSUME NEW T \in SUBSET Nat, T # {}
  PROVE  \E x \in T : \A y \in T : x <= y
<1> DEFINE R == OpToRel(<, Nat)
<1>1. IsWellFoundedOn(R, Nat)
  BY NatLessThanWellFounded
<1>2. \A x, y \in Nat : y < x => <<y, x>> \in R
  BY DEF OpToRel
<1> HIDE DEF R
<1>3. PICK x \in T : \A y \in T : ~ (<<y, x>> \in R)
  BY <1>1, WFMin
<1>4. x \in Nat /\ \A y \in T : y \in Nat /\ ~ (y < x)
  BY <1>2, <1>3
<1> QED
  BY <1>4

LEMMA NextTurnIs ==
  ASSUME \E t \in Turns : turns[t].end = "none"
  PROVE  NextTurn \in Turns /\ turns[NextTurn].end = "none"
<1> DEFINE F == {t \in Turns : turns[t].end = "none"}
<1>1. F \in SUBSET Nat /\ F # {} /\ \A t \in Turns : t \in Nat
  BY Bounds DEF Turns
<1>2. PICK t \in F : \A u \in F : t <= u
  BY <1>1, LeastNat
<1>3. t \in Turns /\ turns[t].end = "none" /\ \A u \in 1 .. t - 1 : turns[u].end # "none"
  BY <1>1, <1>2, Bounds DEF Turns
<1> QED
  BY <1>3 DEF NextTurn

LEMMA StartTurnKeeps ==
  ASSUME NEW w, Base(w), Alive(w), w.host.turn = None, ~w.host.gone,
         \A c \in w.calls : c.at \notin {"known", "resume"},
         NEW t \in Turns, w.turns[t].end = "none"
  PROVE  LET v == StartTurn(w, t) IN
         /\ Base(v) /\ Alive(v) /\ Duties(v)
         /\ \A u \in Turns : /\ v.turns[u].cards <= w.turns[u].cards
                             /\ v.turns[u].end = w.turns[u].end \/ <<w.turns[u].end, v.turns[u].end>> \in EndSteps
<1> DEFINE e == [w.turns[t] EXCEPT !.end = "no"]
           h == [w.host EXCEPT !.turn = t]
           x == [w EXCEPT !.turns[t] = e]
           s == [x EXCEPT !.host = h]
           v == StartTurn(w, t)
<1>0. /\ w.host \in HostType /\ w.turns \in [Turns -> TurnType] /\ w.turns[t] \in TurnType
      /\ ~w.turns[t].settling /\ Typed(w) /\ t # None /\ w.calls \in SUBSET CallType /\ t \in 0 .. MaxTurns
  BY WorldFields, Bounds DEF Base, Ending, Turns, None
<1>1. /\ e \in TurnType /\ e.end = "no" /\ ~e.settling /\ e.cards = w.turns[t].cards
      /\ w.turns[t].cards \in Nat
  BY <1>0 DEF TurnType
<1>2. /\ h \in HostType /\ h.turn = t /\ h.runtime = w.host.runtime /\ h.starting = w.host.starting
      /\ h.generation = w.host.generation /\ h.gone = w.host.gone
  BY <1>0 DEF HostType
<1>3. v = IF w.host.stop THEN FinishTurn([s EXCEPT !.turns[t].cancelled = TRUE], t)
          ELSE EnsureRuntime(s, t, "start")
  BY <1>0 DEF StartTurn, Typed
<1> HIDE DEF e, h, v
<1>4. /\ Typed(x) /\ x.host = w.host /\ x.calls = w.calls /\ x.procs = w.procs
      /\ x.turns = [w.turns EXCEPT ![t] = e]
  BY <1>0, <1>1, TurnSet
<1> HIDE DEF x
<1>5. /\ Typed(s) /\ s.host = h /\ s.calls = w.calls /\ s.procs = w.procs
      /\ s.turns = [w.turns EXCEPT ![t] = e]
  BY <1>2, <1>4, HostSet
<1> HIDE DEF s
<1>6. /\ s.turns[t] = e
      /\ \A u \in Turns : u # t => s.turns[u] = w.turns[u]
      /\ \A u \in Turns : s.turns[u] \in TurnType
  BY <1>0, <1>1, <1>5
<1>7. Base(s) /\ Alive(s)
  <2>1. Named(s)
    BY <1>2, <1>5 DEF Base, Named
  <2>2. \A q : Starts(s, q) <=> Starts(w, q)
    BY <1>5 DEF Starts
  <2>3. Spawning(s)
    BY <1>2, <1>5, <2>2 DEF Base, Spawning
  <2>4. \A c \in w.calls : c.turn \in Turns
    BY <1>0 DEF CallType
  <2>5. Waiting(s)
    BY <1>1, <1>2, <1>5, <1>6, <2>2, <2>4 DEF Base, Waiting
  <2>6. Ending(s)
    BY <1>1, <1>2, <1>5, <1>6 DEF Base, Ending
  <2> QED
    BY <1>2, <1>5, <2>1, <2>3, <2>5, <2>6 DEF Base, Alive
<1>8. /\ Base(v) /\ Alive(v) /\ Firm(v) /\ Onward(v, s)
  <2>1. CASE w.host.stop
    <3> DEFINE c == [s.turns[t] EXCEPT !.cancelled = TRUE]
               y == [s EXCEPT !.turns[t] = c]
               f == FinishTurn(y, t)
    <3>1. v = f
      BY <1>3, <2>1
    <3>2. c \in TurnType /\ c.end = s.turns[t].end /\ c.end # "none" /\ c.cards = s.turns[t].cards
          /\ s.turns[t].cards \in Nat
      BY <1>1, <1>6 DEF TurnType
    <3> HIDE DEF c, f
    <3>3. Base(y) /\ y.host = s.host /\ y.procs = s.procs /\ Alive(y) /\ Onward(y, s)
      BY <1>7, <3>2, TurnSetKeeps
    <3> HIDE DEF y
    <3>4. Base(f) /\ f.host.turn = None /\ f.host.runtime = y.host.runtime /\ f.procs = y.procs
      BY <3>3, FinishTurnKeeps DEF f
    <3>5. Onward(f, y)
      BY <1>2, <1>5, <3>3, FinishTurnOnward DEF f
    <3>6. Onward(f, s)
      BY <1>5, <3>3, <3>4, <3>5, OnwardAgain DEF Base
    <3> QED
      BY <3>1, <3>3, <3>4, <3>6 DEF Firm, Alive
  <2>2. CASE ~w.host.stop
    <3>1. Asked(EnsureRuntime(s, t, "start"), s, t, {"identity", "spawn", "failed"})
      BY <1>1, <1>5, <1>6, <1>7, EnsureRuntimeKeeps
    <3>2. /\ Base(v) /\ Onward(v, s) /\ Alive(v) /\ v.host.turn = t /\ v.host.runtime = s.host.runtime
          /\ v.turns = s.turns
          /\ \E c \in v.calls : c.turn = t /\ c.at \in {"identity", "spawn", "failed"}
                        /\ (c.at = "identity" => c.proc = s.host.runtime)
      BY <1>2, <1>3, <1>5, <1>7, <2>2, <3>1 DEF Asked
    <3>3. Firm(v)
      BY <1>1, <1>6, <3>2 DEF Firm
    <3> QED
      BY <3>2, <3>3
  <2> QED
    BY <2>1, <2>2
<1>9. \A u \in Turns : /\ v.turns[u].cards <= w.turns[u].cards
                       /\ v.turns[u].end = w.turns[u].end \/ <<w.turns[u].end, v.turns[u].end>> \in EndSteps
  BY <1>1, <1>6, <1>8 DEF Onward, EndSteps
<1> QED
  BY <1>8, <1>9, FirmDuties DEF v

LEMMA StartStep ==
  ASSUME IInv, MayStart, NEW w, Base(w), Alive(w), w.turns = turns, w.calls = calls,
         w.host.turn = host.turn, w.host.gone = host.gone,
         Become(StartTurn(w, NextTurn)), UNCHANGED count
  PROVE  Kept
<1> DEFINE t == NextTurn
           v == StartTurn(w, t)
<1>1. t \in Turns /\ turns[t].end = "none"
  BY NextTurnIs DEF MayStart
<1> HIDE DEF t
<1>2. /\ Base(v) /\ Alive(v) /\ Duties(v)
      /\ \A u \in Turns : /\ v.turns[u].cards <= turns[u].cards
                          /\ v.turns[u].end = turns[u].end \/ <<turns[u].end, v.turns[u].end>> \in EndSteps
  BY <1>1, StartTurnKeeps DEF MayStart, Settled
<1> HIDE DEF v
<1>3. Become(v)
  BY DEF v, t
<1>4. IInv' /\ host' = v.host /\ turns' = v.turns
  BY <1>2, <1>3, InvStep
<1>5. \A u \in Turns : host.turn # u
  BY Bounds DEF MayStart, Turns, None
<1>6. \A u \in Turns : EndsWell(u)
  BY <1>2, <1>4, <1>5 DEF EndsWell
<1> QED
  BY <1>4, <1>6 DEF Kept

LEMMA RunStep == ASSUME IInv, Run PROVE Kept
BY InvFields, StartStep DEF Run

LEMMA RegenerateStep == ASSUME IInv, Regenerate PROVE Kept
<1> DEFINE w == DisposeRuntime(World)
<1>1. MayStart /\ Become(StartTurn(w, NextTurn)) /\ UNCHANGED count
  BY DEF Regenerate
<1>2. /\ Base(World) /\ Typed(World) /\ World.host = host /\ World.turns = turns /\ World.calls = calls
      /\ \A c \in World.calls : c.at # "resume"
  BY <1>1, InvFields DEF MayStart, Settled
<1>3. Base(w) /\ Alive(w)
  BY <1>2, DisposeRuntimeKeeps
<1>4. w.turns = turns /\ w.calls = calls /\ w.host.turn = host.turn /\ w.host.gone = host.gone
  BY <1>2, DisposeRuntimeIs DEF Base
<1> HIDE DEF w
<1> QED
  BY <1>1, <1>3, <1>4, StartStep

LEMMA GraceDuties ==
  ASSUME NEW w, Settles(w), w.host.turn # None => w.turns[w.host.turn].grace
  PROVE  Duties(w)
BY DEF Duties, Displaced, Driven

(* The process may go when there is no turn, or one whose timer runs. *)
LEMMA DisposeDuties ==
  ASSUME NEW w, Base(w), \A c \in w.calls : c.at # "resume", Settles(w),
         w.host.turn # None => w.turns[w.host.turn].grace
  PROVE  LET d == DisposeRuntime(w) IN Base(d) /\ Alive(d) /\ Duties(d) /\ Onward(d, w)
<1> DEFINE d == DisposeRuntime(w)
<1>1. d.turns = w.turns /\ d.calls = w.calls /\ d.host.turn = w.host.turn
  BY DisposeRuntimeIs DEF Base
<1>2. Base(d) /\ Alive(d)
  BY DisposeRuntimeKeeps
<1> HIDE DEF d
<1>3. Settles(d)
  BY <1>1 DEF Settles
<1>4. Onward(d, w)
  BY <1>1, OnwardStays DEF Base
<1> QED
  BY <1>1, <1>2, <1>3, <1>4, GraceDuties DEF d

LEMMA InvalidateKeeps ==
  ASSUME NEW w, Base(w), ~w.host.gone, NEW b \in BOOLEAN
  PROVE  LET s == InvalidateInFlightSpawn([w EXCEPT !.host.stop = b]) IN
         /\ Base(s) /\ (Alive(w) => Alive(s))
         /\ s.host.turn = w.host.turn /\ s.host.runtime = w.host.runtime /\ s.host.gone = w.host.gone
         /\ s.turns = w.turns /\ s.calls = w.calls /\ s.procs = w.procs
<1> DEFINE s == InvalidateInFlightSpawn([w EXCEPT !.host.stop = b])
<1>1. /\ Typed(w) /\ w.host \in HostType /\ w.calls \in SUBSET CallType /\ Len(w.procs) \in Nat
      /\ \A p \in 1 .. Len(w.procs) : w.procs[p] \in ProcType
  BY WorldFields DEF Base
<1>2. w.host.generation \in Nat
  BY <1>1 DEF HostType
<1>3. /\ s.host.turn = w.host.turn /\ s.host.starting = None /\ s.host.stop = b
      /\ s.host.generation = w.host.generation + 1
      /\ s.host.runtime = w.host.runtime /\ s.host.login = w.host.login /\ s.host.gone = w.host.gone
  BY <1>1 DEF Typed, HostType, InvalidateInFlightSpawn
<1>4. s.host \in HostType
  <2>1. s.host = [turn |-> s.host.turn, runtime |-> s.host.runtime, starting |-> s.host.starting,
                  generation |-> s.host.generation, login |-> s.host.login, stop |-> s.host.stop,
                  gone |-> s.host.gone]
    BY <1>1 DEF Typed, HostType, InvalidateInFlightSpawn
  <2>2. /\ w.host.runtime \in Nat /\ w.host.login \in Nat /\ w.host.gone \in BOOLEAN
        /\ w.host.generation + 1 \in Nat /\ None \in Nat /\ w.host.turn \in 0 .. MaxTurns
    BY <1>1 DEF HostType, None
  <2> HIDE DEF s
  <2> QED
    BY <1>3, <2>1, <2>2 DEF HostType
<1>5. Typed(s) /\ s.turns = w.turns /\ s.procs = w.procs /\ s.calls = w.calls
  <2>1. s.turns = w.turns /\ s.procs = w.procs /\ s.calls = w.calls
    BY <1>1 DEF Typed, InvalidateInFlightSpawn
  <2>2. s = [host |-> s.host, turns |-> s.turns, calls |-> s.calls, procs |-> s.procs]
    <3> DEFINE x == [w EXCEPT !.host.stop = b]
    <3>1. x = [host |-> x.host, turns |-> x.turns, calls |-> x.calls, procs |-> x.procs]
      BY <1>1 DEF Typed
    <3>2. s = InvalidateInFlightSpawn(x)
      OBVIOUS
    <3> HIDE DEF x, s
    <3> QED
      BY <3>1, <3>2 DEF InvalidateInFlightSpawn
  <2> HIDE DEF s
  <2> QED
    BY <1>1, <1>4, <2>1, <2>2, WorldFields DEF Typed
<1> HIDE DEF s
<1>6. Named(s)
  BY <1>1, <1>3, <1>5 DEF Base, Named, None
<1>7. \A p : Starts(s, p) <=> Starts(w, p)
  BY <1>5 DEF Starts
<1>8. Spawning(s)
  <2>1. \A p \in 1 .. Len(w.procs) : Starts(w, p) => w.procs[p].generation < w.host.generation + 1
    <3> SUFFICES ASSUME NEW p \in 1 .. Len(w.procs), Starts(w, p)
                 PROVE  w.procs[p].generation < w.host.generation + 1
      OBVIOUS
    <3>1. w.procs[p].generation <= w.host.generation /\ w.procs[p].generation \in Nat
      BY <1>1 DEF Base, Spawning, ProcType
    <3> QED
      BY <1>2, <3>1
  <2>2. \A p \in 1 .. Len(w.procs) : w.procs[p].generation \in Nat
    BY <1>1 DEF ProcType
  <2>3. \A p, q \in 1 .. Len(w.procs) :
          Starts(w, p) /\ Starts(w, q) /\ w.procs[p].generation = w.procs[q].generation => p = q
    BY DEF Base, Spawning
  <2> QED
    <3>1. ~s.host.gone /\ s.host.starting = None
      BY <1>3
    <3>2. \A p \in 1 .. Len(s.procs) : Starts(s, p) => s.procs[p].generation < s.host.generation
      BY <1>3, <1>5, <1>7, <2>1
    <3>3. \A p \in 1 .. Len(s.procs) : s.procs[p].generation \in Nat
      BY <1>5, <2>2
    <3>4. s.host.generation \in Nat
      BY <1>2, <1>3
    <3>5. \A p, q \in 1 .. Len(s.procs) :
            Starts(s, p) /\ Starts(s, q) /\ s.procs[p].generation = s.procs[q].generation => p = q
      BY <1>5, <1>7, <2>3
    <3> QED
      BY <3>1, <3>2, <3>3, <3>4, <3>5 DEF Spawning
<1>9. Waiting(s)
  BY <1>3, <1>5, <1>7 DEF Base, Waiting
<1>10. Ending(s)
  BY <1>3, <1>5 DEF Base, Ending
<1> QED
  BY <1>3, <1>5, <1>6, <1>8, <1>9, <1>10 DEF Base, Alive, s

LEMMA CancelledKeeps ==
  ASSUME NEW w, Base(w), Alive(w), Settles(w), ~w.host.gone, \A c \in w.calls : c.at # "resume"
  PROVE  LET v == Cancelled(w) IN
         /\ Base(v) /\ Alive(v) /\ Duties(v) /\ Onward(v, w)
         /\ v.host.turn = w.host.turn /\ v.calls = w.calls /\ v.host.gone = w.host.gone
         /\ w.host.turn # None => v.turns[v.host.turn].grace
<1> DEFINE b == w.host.stop \/ w.host.turn # None \/ w.host.starting # None
           s == InvalidateInFlightSpawn([w EXCEPT !.host.stop = b])
           t == w.host.turn
           e == [s.turns[t] EXCEPT !.cancelled = TRUE, !.followUp = FALSE, !.cards = 0, !.grace = TRUE]
           c == [s EXCEPT !.turns[t] = e]
           v == Cancelled(w)
<1>0. /\ w.host \in HostType /\ Typed(w) /\ (t # None => t \in Turns) /\ w.turns \in [Turns -> TurnType]
  BY WorldFields DEF Base
<1>1. b \in BOOLEAN
  BY <1>0 DEF HostType
<1>2. v = IF t = None THEN s ELSE IF w.turns[t].started THEN c ELSE DisposeRuntime(c)
  BY DEF Cancelled
<1> HIDE DEF b, v
<1>3. /\ Base(s) /\ Alive(s)
      /\ s.host.turn = w.host.turn /\ s.host.runtime = w.host.runtime /\ s.host.gone = w.host.gone
      /\ s.turns = w.turns /\ s.calls = w.calls /\ s.procs = w.procs
  BY <1>1, InvalidateKeeps
<1> HIDE DEF s
<1>4. Onward(s, w) /\ Typed(s)
  BY <1>0, <1>3, OnwardStays DEF Base
<1>5. CASE t = None
  <2>1. Firm(s)
    BY <1>3, <1>5 DEF Firm
  <2> QED
    BY <1>2, <1>3, <1>4, <1>5, <2>1, FirmDuties DEF v
<1>6. CASE t # None
  <2>1. w.turns[t] \in TurnType
    BY <1>0, <1>6
  <2>2. /\ e \in TurnType /\ e.end = s.turns[t].end /\ e.settling = s.turns[t].settling /\ e.grace
        /\ e.cards <= s.turns[t].cards
    <3>1. s.turns[t] \in TurnType
      BY <1>3, <2>1
    <3>2. e \in TurnType /\ e.end = s.turns[t].end /\ e.settling = s.turns[t].settling /\ e.grace = TRUE
          /\ e.cards = 0
      BY <3>1 DEF TurnType
    <3>3. s.turns[t].cards \in Nat
      BY <3>1 DEF TurnType
    <3> HIDE DEF e
    <3> QED
      BY <3>2, <3>3
  <2> HIDE DEF e
  <2>3. /\ Base(c) /\ c.host = s.host /\ c.calls = s.calls /\ c.procs = s.procs
        /\ c.turns = [s.turns EXCEPT ![t] = e] /\ Alive(c) /\ Onward(c, s)
    BY <1>0, <1>3, <1>6, <2>2, TurnSetKeeps
  <2> HIDE DEF c
  <2>4. c.turns[t] = e /\ Typed(c)
    BY <1>0, <1>3, <1>6, <2>3 DEF Base
  <2>5. Settles(c)
    BY <1>3, <2>2, <2>3, <2>4 DEF Settles
  <2>6. Onward(c, w)
    BY <1>0, <1>4, <2>3, <2>4, OnwardAgain
  <2>7. Duties(c)
    BY <1>3, <2>2, <2>3, <2>4, <2>5, GraceDuties
  <2>8. CASE w.turns[t].started
    BY <1>2, <1>3, <1>6, <2>2, <2>3, <2>4, <2>6, <2>7, <2>8 DEF v
  <2>9. CASE ~w.turns[t].started
    <3> DEFINE d == DisposeRuntime(c)
    <3>1. /\ d.turns = c.turns /\ d.calls = c.calls
          /\ d.host.turn = c.host.turn /\ d.host.gone = c.host.gone
      BY <2>3, DisposeRuntimeIs DEF Base
    <3>2. Base(d) /\ Alive(d) /\ Duties(d) /\ Onward(d, c)
      BY <1>3, <2>2, <2>3, <2>4, <2>5, DisposeDuties
    <3>3. v = d
      BY <1>2, <1>6, <2>9
    <3> HIDE DEF d
    <3>4. Onward(d, w)
      BY <1>0, <2>4, <2>6, <3>2, OnwardAgain DEF Base
    <3> QED
      BY <1>3, <1>6, <2>2, <2>3, <2>4, <3>1, <3>2, <3>3, <3>4 DEF v
  <2> QED
    BY <2>8, <2>9
<1> QED
  BY <1>5, <1>6

LEMMA InputIs ==
  ASSUME IInv, Input
  PROVE  /\ ~World.host.gone /\ \A c \in World.calls : c.at # "resume"
         /\ UNCHANGED count \/ Fails \/ Input
BY InvFields DEF Input, Settled

LEMMA CancelStep == ASSUME IInv, Cancel PROVE Kept
<1> DEFINE v == Cancelled(World)
<1>1. Become(v) /\ Input
  BY DEF Cancel
<1>2. Base(v) /\ Alive(v) /\ Duties(v) /\ Onward(v, World)
  BY <1>1, InvFields, InputIs, CancelledKeeps
<1> HIDE DEF v
<1> QED
  BY <1>1, <1>2, OnwardStep

LEMMA InvalidateResumeStep == ASSUME IInv, InvalidateResume PROVE Kept
<1> DEFINE x == IF host.turn = None THEN World ELSE Cancelled(World)
           d == DisposeRuntime(x)
<1>1. Become(d) /\ Input
  BY DEF InvalidateResume
<1>2. /\ Base(x) /\ Settles(x) /\ Onward(x, World) /\ x.calls = World.calls
      /\ x.host.turn # None => x.turns[x.host.turn].grace
  <2>1. CASE host.turn = None
    <3>1. Onward(World, World)
      BY InvFields, OnwardStays
    <3> QED
      BY <2>1, <3>1, InvFields
  <2>2. CASE host.turn # None
    BY <1>1, <2>2, InvFields, InputIs, CancelledKeeps DEF Duties
  <2> QED
    BY <2>1, <2>2
<1> HIDE DEF x
<1>3. Base(d) /\ Alive(d) /\ Duties(d) /\ Onward(d, x)
  BY <1>1, <1>2, InputIs, DisposeDuties
<1> HIDE DEF d
<1>4. Onward(d, World)
  BY <1>2, <1>3, InvFields, OnwardAgain DEF Base
<1> QED
  BY <1>1, <1>3, <1>4, OnwardStep

LEMMA ReapIdleStep == ASSUME IInv, ReapIdle PROVE Kept
<1> DEFINE d == DisposeRuntime(World)
<1>1. Become(d) /\ Input /\ host.turn = None
  BY DEF ReapIdle
<1>2. Base(d) /\ Alive(d) /\ Duties(d) /\ Onward(d, World)
  BY <1>1, InvFields, InputIs, DisposeDuties
<1> HIDE DEF d
<1> QED
  BY <1>1, <1>2, OnwardStep

LEMMA DisposeStep == ASSUME IInv, Dispose PROVE Kept
<1> DEFINE c == Cancelled(World)
           s == DisposeRuntime(c)
           h == [s.host EXCEPT !.turn = None, !.generation = 0, !.starting = None, !.gone = TRUE]
           v == [s EXCEPT !.host = h]
<1>1. Become(v) /\ Input
  BY DEF Dispose
<1>2. /\ Base(c) /\ Alive(c) /\ Duties(c) /\ Onward(c, World) /\ c.calls = World.calls
      /\ c.host.turn # None => c.turns[c.host.turn].grace
  BY <1>1, InvFields, InputIs, CancelledKeeps
<1> HIDE DEF c
<1>3. Base(s) /\ Onward(s, c)
  BY <1>1, <1>2, InputIs, DisposeDuties DEF Duties
<1>4. s.host.runtime = None
  BY <1>2, DisposeRuntimeIs DEF Base
<1> HIDE DEF s
<1>5. Onward(s, World)
  BY <1>2, <1>3, InvFields, OnwardAgain DEF Base
<1>6. /\ Typed(s) /\ s.host \in HostType /\ s.calls \in SUBSET CallType
      /\ \A p \in 1 .. Len(s.procs) : s.procs[p] \in ProcType
      /\ None \in 0 .. MaxTurns /\ None \in Nat /\ Len(s.procs) \in Nat
  BY <1>3, Bounds, WorldFields DEF Base, None
<1>7. /\ h \in HostType /\ h.turn = None /\ h.runtime = None /\ h.starting = None
      /\ h.generation = 0 /\ h.gone = TRUE
  BY <1>4, <1>6 DEF HostType
<1> HIDE DEF h
<1>8. Typed(v) /\ v.host = h /\ v.turns = s.turns /\ v.procs = s.procs /\ v.calls = s.calls
  BY <1>6, <1>7, HostSet
<1> HIDE DEF v
<1>9. Named(v)
  BY <1>3, <1>4, <1>6, <1>7, <1>8 DEF Base, Named, None
<1>10. \A p : Starts(v, p) <=> Starts(s, p)
  BY <1>8 DEF Starts
<1>11. Spawning(v)
  BY <1>3, <1>7, <1>8, <1>10 DEF Base, Spawning
<1>12. Waiting(v)
  BY <1>3, <1>4, <1>7, <1>8, <1>10 DEF Base, Waiting
<1>13. Ending(v)
  BY <1>3, <1>7, <1>8 DEF Base, Ending
<1>14. Firm(v) /\ Alive(v)
  BY <1>7, <1>8 DEF Firm, Alive
<1>15. Base(v) /\ Alive(v) /\ Duties(v)
  BY <1>8, <1>9, <1>11, <1>12, <1>13, <1>14, FirmDuties DEF Base
<1>16. \A t \in Turns : v.turns[t].cards <= turns[t].cards
  BY <1>5, <1>8, InvFields DEF Onward
<1>17. IInv' /\ host' = v.host /\ turns' = v.turns
  BY <1>1, <1>15, <1>16, InvStep
<1>18. \A t \in Turns : EndsWell(t)
  BY <1>5, <1>7, <1>8, <1>17, InvFields DEF EndsWell, Onward, EndSteps
<1> QED
  BY <1>17, <1>18 DEF Kept

LEMMA AnswerStep == ASSUME IInv, NEW allow \in BOOLEAN, NEW plan \in BOOLEAN, Answer(allow, plan) PROVE Kept
<1> DEFINE t == host.turn
           r == host.runtime
           w == [World EXCEPT !.turns[t].cards = @ - 1]
           go == ContinueHeld(w, t, allow)
           seal == w.turns[t].held /\ w.turns[t].cards = 0 /\ ~allow
           open == [w EXCEPT !.turns[t].held = @ /\ ~go /\ ~seal]
           steered == IF go /\ r # None THEN Steer(open, r) ELSE open
           armed == [steered EXCEPT !.turns[t].followUp =
                       @ \/ (plan /\ allow /\ ~go /\ ~open.turns[t].held /\ open.turns[t].cards = 0)]
           v == IF seal THEN FinishTurn(armed, t) ELSE armed
<1>1. /\ Become(v) /\ UNCHANGED count /\ t # None /\ turns[t].cards > 0
  BY DEF Answer, World
<1>2. /\ t \in Turns /\ turns[t] \in TurnType /\ turns[t].end = "no" /\ Base(World) /\ Typed(World)
      /\ World.host = host /\ World.turns = turns /\ World.procs = procs /\ Alive(World)
      /\ turns \in [Turns -> TurnType] /\ Settles(World) /\ Displaced(World) /\ Driven(World)
      /\ Len(procs) \in Nat
  BY <1>1, InvFields DEF Base, Ending
<1>3. turns[t].cards \in Nat /\ turns[t].held \in BOOLEAN
  BY <1>2 DEF TurnType
<1>4. w.turns[t].held = turns[t].held /\ w.turns[t].cards = turns[t].cards - 1
  BY <1>2 DEF World, TurnType
<1> DEFINE held == turns[t].held /\ ~go /\ ~seal
           e == [turns[t] EXCEPT !.cards = turns[t].cards - 1, !.held = held]
           o == [World EXCEPT !.turns[t] = e]
<1>5. open = o
  BY <1>2, ZenonT(40) DEF World, TurnType
<1> HIDE DEF w
<1>6a. w.turns[t].cards = 0 <=> turns[t].cards = 1
  BY <1>3, <1>4
<1>6. go <=> turns[t].held /\ turns[t].cards = 1 /\ allow
  BY <1>4, <1>6a, Zenon DEF ContinueHeld
<1>7. seal <=> turns[t].held /\ turns[t].cards = 1 /\ ~allow
  BY <1>4, <1>6a, Zenon
<1> HIDE DEF go, seal, open
<1>8. /\ e \in TurnType /\ e.end = turns[t].end /\ e.settling = turns[t].settling /\ e.grace = turns[t].grace
      /\ e.cards = turns[t].cards - 1 /\ (e.held <=> held)
  <2>1. turns[t].cards - 1 \in Nat
    BY <1>1, <1>3
  <2>2. held \in BOOLEAN
    BY <1>3
  <2> HIDE DEF held
  <2> QED
    BY <1>2, <2>1, <2>2 DEF TurnType
<1> HIDE DEF e
<1>9. /\ Base(o) /\ o.host = host /\ o.calls = World.calls /\ o.procs = procs
      /\ o.turns = [turns EXCEPT ![t] = e] /\ Alive(o) /\ Onward(o, World)
  <2>1. e.cards <= World.turns[t].cards /\ e.end = World.turns[t].end /\ e.end # "none"
    BY <1>2, <1>3, <1>8
  <2> QED
    BY <1>2, <1>8, <2>1, TurnSetKeeps
<1> HIDE DEF o
<1>10. o.turns[t] = e /\ Typed(o) /\ (r # None => r \in 1 .. Len(o.procs))
  BY <1>2, <1>9, WorldFields DEF Base, Named, HostType, None
<1>11. /\ Base(steered) /\ steered.host = host /\ steered.calls = World.calls /\ Alive(steered)
       /\ steered.turns = o.turns /\ Len(steered.procs) = Len(procs)
       /\ \A q \in 1 .. Len(procs) : steered.procs[q].prompts >= procs[q].prompts
       /\ go /\ r # None => steered.procs[r].prompts > 0
  <2>1. CASE go /\ r # None
    <3>1. o.procs[r].state = "live"
      BY <1>9, <2>1 DEF Alive
    <3> QED
      BY <1>5, <1>9, <1>10, <2>1, <3>1, SteerIs, SteerKeeps
  <2>2. CASE ~(go /\ r # None)
    <3>1. \A q \in 1 .. Len(procs) : procs[q].prompts \in Nat
      BY InvFields DEF ProcType
    <3> QED
      BY <1>5, <1>9, <2>2, <3>1
  <2> QED
    BY <2>1, <2>2
<1> HIDE DEF steered
<1> DEFINE follow == e.followUp \/ (plan /\ allow /\ ~go /\ ~open.turns[t].held /\ open.turns[t].cards = 0)
           f == [e EXCEPT !.followUp = follow]
           a == [steered EXCEPT !.turns[t] = f]
<1>12. armed = a
  BY <1>10, <1>11
<1>13. /\ f \in TurnType /\ f.end = turns[t].end /\ f.settling = turns[t].settling /\ f.grace = turns[t].grace
       /\ f.cards = turns[t].cards - 1 /\ (f.held <=> held)
  BY <1>8 DEF TurnType
<1> HIDE DEF f, armed
<1>14. /\ Base(a) /\ a.host = host /\ a.calls = World.calls /\ a.procs = steered.procs
       /\ a.turns = [steered.turns EXCEPT ![t] = f] /\ Alive(a) /\ Onward(a, steered)
  <2>1. /\ f.cards <= steered.turns[t].cards /\ f.end = steered.turns[t].end /\ f.end # "none"
    BY <1>2, <1>3, <1>8, <1>10, <1>11, <1>13
  <2>2. Base(steered) /\ Alive(steered) /\ f \in TurnType
    BY <1>11, <1>13
  <2>3. /\ Base(a) /\ a.host = steered.host /\ a.calls = steered.calls /\ a.procs = steered.procs
        /\ a.turns = [steered.turns EXCEPT ![t] = f] /\ Alive(a) /\ Onward(a, steered)
    BY <1>2, <2>1, <2>2, TurnSetKeeps
  <2> QED
    BY <1>11, <2>3
<1> HIDE DEF a
<1>15. a.turns[t] = f /\ Typed(a)
  BY <1>2, <1>9, <1>11, <1>14 DEF Base
<1>16. Onward(a, World)
  <2>1. Typed(steered) /\ Onward(steered, o)
    BY <1>9, <1>10, <1>11, OnwardStays DEF Base
  <2>2. Onward(steered, World)
    BY <1>2, <1>9, <1>10, <2>1, OnwardAgain
  <2> QED
    BY <1>2, <1>14, <1>15, <2>1, <2>2, OnwardAgain
<1>17. CASE seal
  <2> DEFINE x == FinishTurn(a, t)
  <2>1. Base(x) /\ x.host.turn = None /\ x.host.runtime = a.host.runtime /\ x.procs = a.procs
    BY <1>2, <1>14, FinishTurnKeeps
  <2>2. Onward(x, a)
    BY <1>2, <1>14, FinishTurnOnward
  <2>3. Become(x)
    BY <1>1, <1>12, <1>17
  <2> HIDE DEF x
  <2>4. Onward(x, World)
    BY <1>2, <1>15, <1>16, <2>1, <2>2, OnwardAgain DEF Base
  <2>5. Firm(x) /\ Alive(x)
    BY <1>14, <2>1 DEF Firm, Alive
  <2> QED
    BY <1>1, <2>1, <2>3, <2>4, <2>5, FirmDuties, OnwardStep
<1>18. CASE ~seal
  <2>1. Carries(a, World)
    BY <1>2, <1>13, <1>14, <1>15 DEF Carries
  <2>2. Powered(World) => Powered(a)
    <3> SUFFICES ASSUME Powered(World) PROVE Powered(a)
      OBVIOUS
    <3>1. r \in 1 .. Len(procs) /\ r # None
      BY <1>2, <1>9, <1>10 DEF Powered
    <3>2. procs[r].prompts \in Nat /\ steered.procs[r].prompts \in Nat
      <4>1. procs[r] \in ProcType /\ steered.procs[r] \in ProcType
        BY <1>11, <3>1, InvFields, WorldFields DEF Base
      <4> QED
        BY <4>1 DEF ProcType
    <3>3. CASE procs[r].prompts > 0
      BY <1>11, <1>14, <3>1, <3>2, <3>3 DEF Powered
    <3>4. CASE go
      BY <1>11, <1>14, <3>1, <3>4 DEF Powered
    <3>5. CASE ~go /\ turns[t].held
      <4>1. turns[t].cards # 1 /\ held
        BY <1>6, <1>7, <1>18, <3>5, Zenon
      <4>2. turns[t].cards - 1 > 0
        BY <1>1, <1>3, <4>1
      <4>3. f.held /\ f.cards > 0
        BY <1>13, <4>1, <4>2
      <4> QED
        BY <1>14, <1>15, <3>1, <4>3 DEF Powered
    <3> QED
      BY <1>2, <3>3, <3>4, <3>5 DEF Powered
  <2>3. Duties(a)
    BY <1>2, <2>1, <2>2, CarriesDuties DEF Duties
  <2>4. Become(a)
    BY <1>1, <1>12, <1>18
  <2> QED
    BY <1>1, <1>14, <1>16, <2>3, <2>4, OnwardStep
<1> HIDE DEF seal
<1> QED
  BY <1>17, <1>18

-----------------------------------------------------------------------------
(* The host *)

LEMMA WithoutKeeps ==
  ASSUME IInv, NEW c \in calls
  PROVE  LET w == Without(c) IN
         /\ Base(w) /\ Alive(w) /\ Onward(w, World) /\ Typed(w)
         /\ w.host = host /\ w.turns = turns /\ w.procs = procs /\ w.calls = calls \ {c}
         /\ c.turn \in Turns /\ turns[c.turn].end # "none" /\ c.proc \in 0 .. Len(procs)
         /\ c.why \in {"start", "retry", "fresh"}
         /\ c.kind \in CallKinds
<1> DEFINE cs == calls \ {c}
           w == [World EXCEPT !.calls = cs]
<1>1. Without(c) = w
  BY DEF Without, World
<1>2. /\ Base(World) /\ Typed(World) /\ Alive(World) /\ c \in CallType /\ cs \in SUBSET CallType
      /\ World.host = host /\ World.turns = turns /\ World.calls = calls /\ World.procs = procs
      /\ \A d \in cs : d \in calls
  BY InvFields
<1>3. /\ c.turn \in Turns /\ c.why \in {"start", "retry", "fresh"}
      /\ c.kind \in CallKinds
  BY <1>2 DEF CallType
<1>4. turns[c.turn].end # "none"
  BY <1>2 DEF Base, Waiting
<1>5. c.proc \in 0 .. Len(procs)
  BY <1>2, InvFields DEF Base, Named, CallType
<1>6. w.calls = calls \ {c}
  BY <1>2 DEF World
<1> HIDE DEF cs
<1>7. Typed(w) /\ w.host = host /\ w.turns = turns /\ w.procs = procs /\ w.calls = cs
  BY <1>2, CallsSet
<1> HIDE DEF w
<1>8. Named(w)
  BY <1>2, <1>7 DEF Base, Named
<1>9. \A p : Starts(w, p) <=> Starts(World, p)
  BY <1>2, <1>7 DEF Starts
<1>10. Spawning(w)
  BY <1>2, <1>7, <1>9 DEF Base, Spawning
<1>11. Waiting(w)
  BY <1>2, <1>7, <1>9 DEF Base, Waiting
<1>12. Ending(w)
  BY <1>2, <1>7 DEF Base, Ending
<1>13. Onward(w, World) /\ Alive(w)
  BY <1>2, <1>7, OnwardStays DEF Alive
<1> QED
  BY <1>1, <1>3, <1>4, <1>5, <1>6, <1>7, <1>8, <1>10, <1>11, <1>12, <1>13 DEF Base

(* No duty of the live turn is that of another turn's call. *)
LEMMA WithoutOthers ==
  ASSUME IInv, NEW c \in calls, c.turn # host.turn
  PROVE  Duties(Without(c))
<1> DEFINE w == Without(c)
<1>1. w.host = host /\ w.turns = turns /\ w.procs = procs /\ w.calls = calls \ {c}
  BY WithoutKeeps
<1>2. /\ World.host = host /\ World.turns = turns /\ World.calls = calls /\ World.procs = procs
      /\ Settles(World) /\ Displaced(World) /\ Driven(World)
  BY InvFields
<1> HIDE DEF w
<1>3. \A d \in calls : d.turn = host.turn => d \in w.calls
  BY <1>1
<1>4. Settles(w)
  BY <1>1, <1>2, <1>3 DEF Settles
<1>5. Displaced(w)
  BY <1>1, <1>2, <1>3 DEF Displaced
<1>6. Driven(w)
  BY <1>1, <1>2, <1>3 DEF Driven, Good
<1> QED
  BY <1>4, <1>5, <1>6 DEF Duties, w

LEMMA GotStep ==
  ASSUME IInv, NEW c \in calls, c.at = "resume" \/ (c.at = "known" /\ c.kind # "changed"),
         Become(GotRuntime(Without(c), c.turn, c.why, c.proc)), UNCHANGED count
  PROVE  Kept
<1> DEFINE w == Without(c)
           g == GotRuntime(w, c.turn, c.why, c.proc)
<1>1. /\ Base(w) /\ Alive(w) /\ Onward(w, World) /\ Typed(w)
      /\ w.host = host /\ w.turns = turns /\ w.procs = procs /\ w.calls = calls \ {c}
      /\ c.turn \in Turns /\ c.proc \in 0 .. Len(procs)
  BY WithoutKeeps
<1>2. /\ World.host = host /\ World.turns = turns /\ World.calls = calls /\ World.procs = procs
      /\ Settles(World) /\ Displaced(World) /\ Driven(World) /\ Waiting(World) /\ Typed(World)
      /\ Len(procs) \in Nat
  BY InvFields DEF Base
<1>3. c.proc # None /\ c.proc \in 1 .. Len(w.procs)
  BY <1>1, <1>2 DEF Waiting, None
<1>4. Duties(w) \/ c.turn = host.turn
  BY WithoutOthers
<1> HIDE DEF w
<1>5. c.turn = host.turn => Settles(w) /\ Displaced(w) /\ (Driven(w) \/ c.proc = host.runtime)
  <2>1. Settles(w)
    BY <1>1, <1>2 DEF Settles
  <2>2. Displaced(w)
    <3>1. CASE c.at = "resume"
      BY <1>1, <1>2, <3>1 DEF Displaced
    <3>2. CASE c.at = "known" /\ c.kind # "changed"
      <4>1. \A d \in w.calls : ~Disposes(d)
        BY <1>1, <1>2, <3>2 DEF Waiting, Disposes
      <4> QED
        BY <4>1 DEF Displaced
    <3> QED
      BY <3>1, <3>2
  <2>3. CASE c.proc # host.runtime
    <3>1. host.runtime = None
      BY <1>2, <2>3 DEF Waiting
    <3>2. c.at = "known" => ~Good(World, c)
      BY <1>2, <2>3 DEF Good
    <3>3. c.at # "resume"
      BY <1>2, <2>3 DEF Waiting
    <3> QED
      BY <1>1, <1>2, <2>1, <2>2, <3>1, <3>2, <3>3 DEF Driven, Good
  <2> QED
    BY <2>1, <2>2, <2>3
<1>6. Settles(w) /\ Displaced(w) /\ (Driven(w) \/ (w.host.turn = c.turn /\ c.proc = w.host.runtime))
  BY <1>1, <1>4, <1>5 DEF Duties
<1>7. Base(g) /\ Alive(g) /\ Duties(g) /\ Onward(g, w)
  BY <1>1, <1>3, <1>6, GotRuntimeKeeps
<1>8. Become(g)
  BY DEF w
<1> HIDE DEF g
<1>9. Onward(g, World)
  BY <1>1, <1>2, <1>7, OnwardAgain DEF Base
<1> QED
  BY <1>7, <1>8, <1>9, OnwardStep

LEMMA ResumedStep == ASSUME IInv, NEW c \in calls, Resumed(c) PROVE Kept
BY GotStep DEF Resumed

LEMMA IdentifiedStep == ASSUME IInv, NEW c \in calls, Identified(c) PROVE Kept
<1> DEFINE w == Without(c)
           d == DisposeRuntime(w)
           v == Spawn(d, c.turn, c.why)
<1>1. c.at = "known" /\ UNCHANGED count
  BY DEF Identified
<1>2. CASE c.kind # "changed"
  BY <1>1, <1>2, GotStep DEF Identified
<1>3. CASE c.kind = "changed"
  <2>1. Become(v)
    BY <1>3 DEF Identified
  <2>2. /\ Base(w) /\ Alive(w) /\ Onward(w, World) /\ Typed(w)
        /\ w.host = host /\ w.turns = turns /\ w.procs = procs /\ w.calls = calls \ {c}
        /\ c.turn \in Turns /\ turns[c.turn].end # "none" /\ c.why \in {"start", "retry", "fresh"}
    BY WithoutKeeps
  <2>3. /\ World.host = host /\ World.turns = turns /\ World.calls = calls /\ Typed(World)
        /\ Waiting(World) /\ Settles(World) /\ Displaced(World)
    BY InvFields DEF Base
  <2> HIDE DEF w
  <2>4. \A e \in w.calls : e.at # "resume"
    BY <1>1, <2>2, <2>3 DEF Waiting
  <2>5. /\ d.turns = w.turns /\ d.calls = w.calls /\ d.host.turn = w.host.turn /\ d.host.runtime = None
        /\ Typed(d)
    BY <2>2, DisposeRuntimeIs DEF Base
  <2>6. Base(d) /\ Alive(d)
    BY <2>2, <2>4, DisposeRuntimeKeeps
  <2> HIDE DEF d
  <2>7. Onward(d, w)
    BY <2>2, <2>5, OnwardStays
  <2>8. Asked(v, d, c.turn, {"spawn", "failed"})
    BY <2>2, <2>5, <2>6, SpawnKeeps
  <2> HIDE DEF v
  <2>9. PICK e \in v.calls : v.calls = w.calls \cup {e} /\ e.turn = c.turn /\ e.at \in {"spawn", "failed"}
    BY <2>5, <2>8 DEF Asked
  <2>10. /\ Base(v) /\ Alive(v) /\ Onward(v, d) /\ v.turns = turns /\ v.host.turn = host.turn /\ v.host.runtime = None
    BY <2>2, <2>5, <2>6, <2>8 DEF Asked
  <2>11. Onward(v, World)
    <3>1. Onward(v, w)
      BY <2>2, <2>5, <2>7, <2>10, OnwardAgain DEF Base
    <3> QED
      BY <2>2, <2>3, <2>10, <3>1, OnwardAgain DEF Base
  <2>12. Settles(v)
    BY <1>1, <2>2, <2>3, <2>9, <2>10 DEF Settles
  <2>13. Duties(v)
    <3>1. CASE c.turn = host.turn
      <4>1. Firm(v)
        BY <2>9, <2>10, <2>12, <3>1 DEF Firm, Settles
      <4> QED
        BY <4>1, FirmDuties
    <3>2. CASE c.turn # host.turn
      <4>1. host.turn # None =>
              \/ turns[host.turn].grace
              \/ \E f \in w.calls : f.turn = host.turn /\ f.at # "resume"
        BY <1>1, <1>3, <2>2, <2>3, <3>2 DEF Displaced, Disposes
      <4>2. \A f \in w.calls : f.turn = host.turn => Good(v, f)
        BY <1>1, <1>3, <2>2, <2>3, <2>10 DEF Waiting, Good
      <4>3. Displaced(v)
        BY <2>9, <2>10, <4>1 DEF Displaced
      <4>4. Driven(v)
        BY <2>9, <2>10, <4>1, <4>2 DEF Driven
      <4> QED
        BY <2>12, <4>3, <4>4 DEF Duties
    <3> QED
      BY <3>1, <3>2
  <2> QED
    BY <1>1, <2>1, <2>10, <2>11, <2>13, OnwardStep
<1> QED
  BY <1>2, <1>3

LEMMA FailedStep == ASSUME IInv, NEW c \in calls, Failed(c) PROVE Kept
<1> DEFINE w == Without(c)
           t == c.turn
<1>1. c.at = "failed" /\ UNCHANGED count
  BY DEF Failed
<1>2. /\ Base(w) /\ Alive(w) /\ Onward(w, World) /\ Typed(w)
      /\ w.host = host /\ w.turns = turns /\ w.procs = procs /\ w.calls = calls \ {c}
      /\ t \in Turns /\ turns[t].end # "none" /\ c.kind \in CallKinds
  BY WithoutKeeps
<1>3. /\ World.host = host /\ World.turns = turns /\ World.calls = calls /\ World.procs = procs
      /\ Typed(World) /\ Settles(World) /\ Len(procs) \in Nat
  BY InvFields
<1>4. t # host.turn => Duties(w)
  BY WithoutOthers
<1>5. Become(IF c.why = "fresh" THEN Suspend(w, t, "fresh", "describe", None)
             ELSE SettleFailedTurn(w, t, c.kind))
  BY DEF Failed
<1> HIDE DEF w
<1>6. Settles(w)
  BY <1>1, <1>2, <1>3 DEF Settles
<1>7. CASE c.why = "fresh"
  <2> DEFINE s == SuspendOn(w, t, "fresh", "describe", None, "none")
  <2>1. Become(s)
    BY <1>5, <1>7 DEF Suspend
  <2>2. None \in 0 .. Len(w.procs)
    BY <1>2, <1>3 DEF None
  <2>3. Suspends(s, w, t, "describe", None)
    BY <1>2, <2>2, SuspendOnKeeps DEF CallKinds
  <2> HIDE DEF s
  <2>4. PICK e \in s.calls : s.calls = w.calls \cup {e} /\ e.turn = t /\ e.at = "describe"
    BY <2>3 DEF Suspends
  <2>5. Base(s) /\ Alive(s) /\ Onward(s, w) /\ s.host = host /\ s.turns = turns /\ s.procs = procs
    BY <1>2, <2>3 DEF Suspends
  <2>6. Onward(s, World)
    BY <1>2, <1>3, <2>5, OnwardAgain DEF Base
  <2>7. Duties(s)
    <3>1. CASE t = host.turn
      <4>1. Firm(s)
        BY <2>4, <2>5, <3>1 DEF Firm
      <4> QED
        BY <4>1, FirmDuties
    <3>2. CASE t # host.turn
      <4>1. Settles(s)
        BY <1>2, <1>6, <2>4, <2>5 DEF Settles
      <4>2. Displaced(s)
        BY <1>2, <1>4, <2>4, <2>5, <3>2 DEF Duties, Displaced, Disposes
      <4>3. Driven(s)
        BY <1>2, <1>4, <2>4, <2>5, <3>2 DEF Duties, Driven, Good
      <4> QED
        BY <4>1, <4>2, <4>3 DEF Duties
    <3> QED
      BY <3>1, <3>2
  <2> QED
    BY <1>1, <2>1, <2>5, <2>6, <2>7, OnwardStep
<1>8. CASE c.why # "fresh" /\ ~Live(w, t)
  <2>1. Become(w) /\ Duties(w)
    BY <1>2, <1>4, <1>5, <1>8 DEF SettleFailedTurn, Live
  <2> QED
    BY <1>1, <1>2, <2>1, OnwardStep
<1>9. CASE c.why # "fresh" /\ Live(w, t)
  <2> DEFINE v == SettleFailedTurn(w, t, c.kind)
  <2>1. Become(v)
    BY <1>5, <1>9
  <2>2. Base(v) /\ Retries(v) /\ Onward(v, w) /\ Alive(v)
    BY <1>2, <1>6, <1>9, SettleFailedTurnKeeps
  <2> HIDE DEF v
  <2>3. Duties(v)
    <3>1. Firm(v)
      BY <2>2 DEF Retries, Firm
    <3> QED
      BY <3>1, FirmDuties
  <2>4. Onward(v, World)
    BY <1>2, <1>3, <2>2, OnwardAgain DEF Base
  <2> QED
    BY <1>1, <2>1, <2>2, <2>3, <2>4, OnwardStep
<1> QED
  BY <1>7, <1>8, <1>9

(* The retry of the live turn asks for a process, or ends the turn. *)
LEMMA RetryGoesOn ==
  ASSUME NEW w, Base(w), Alive(w), NEW t \in Turns, w.host.turn = t, ~w.turns[t].settling,
         \A d \in w.calls : d.at \notin {"known", "resume"}, NEW why \in {"start", "retry", "fresh"}
  PROVE  LET v == EnsureRuntime(w, t, why) IN Base(v) /\ Alive(v) /\ Duties(v) /\ Onward(v, w)
<1> DEFINE v == EnsureRuntime(w, t, why)
<1>1. t # None /\ w.turns[t].end # "none"
  BY Bounds DEF Turns, None, Base, Ending
<1>2. Asked(v, w, t, {"identity", "spawn", "failed"})
  BY <1>1, EnsureRuntimeKeeps
<1> HIDE DEF v
<1>3. Base(v) /\ Alive(v) /\ Onward(v, w)
  BY <1>2 DEF Asked
<1>4. Firm(v)
  BY <1>1, <1>2 DEF Asked, Firm
<1> QED
  BY <1>3, <1>4, FirmDuties DEF v

LEMMA FinishGoesOn ==
  ASSUME NEW w, Base(w), Alive(w), NEW t \in Turns
  PROVE  LET v == FinishTurn(w, t) IN
         /\ Base(v) /\ Alive(v) /\ Duties(v) /\ v.calls = w.calls /\ v.host.turn = None
         /\ w.host.turn \in {None, t} => Onward(v, w)
         /\ \A u \in Turns : v.turns[u].cards = w.turns[u].cards
<1> DEFINE v == FinishTurn(w, t)
<1>1. /\ Base(v) /\ v.host.turn = None /\ v.host.runtime = w.host.runtime
      /\ v.calls = w.calls /\ v.procs = w.procs
  BY FinishTurnKeeps
<1>2. w.host.turn \in {None, t} => Onward(v, w)
  BY FinishTurnOnward
<1>3. \A u \in Turns : v.turns[u].cards = w.turns[u].cards
  <2>1. w.turns \in [Turns -> TurnType] /\ Typed(w)
    BY WorldFields DEF Base
  <2>2. CASE w.host.turn = None
    BY <2>1, <2>2, FinishTurnIs
  <2>3. CASE w.host.turn # None
    <3>1. v.turns = [w.turns EXCEPT ![t] = [w.turns[t] EXCEPT !.end = "storing"]]
      BY <2>1, <2>3, FinishTurnIs
    <3> HIDE DEF v
    <3> QED
      BY <2>1, <3>1 DEF TurnType
  <2> QED
    BY <2>2, <2>3
<1> HIDE DEF v
<1>4. Firm(v) /\ Alive(v)
  BY <1>1 DEF Firm, Alive
<1> QED
  BY <1>1, <1>2, <1>3, <1>4, FirmDuties DEF v

LEMMA BackoffOverStep == ASSUME IInv, NEW c \in calls, BackoffOver(c) PROVE Kept
<1> DEFINE w == Without(c)
           t == c.turn
           e == [turns[t] EXCEPT !.settling = FALSE]
           s == [w EXCEPT !.turns[t] = e]
           v == CASE ~Live(World, t) -> w
                  [] Live(World, t) /\ turns[t].cancelled -> FinishTurn(s, t)
                  [] OTHER -> EnsureRuntime(s, t, "retry")
<1>1. Settled /\ UNCHANGED count
  BY DEF BackoffOver
<1>2. /\ Base(w) /\ Alive(w) /\ Onward(w, World) /\ Typed(w)
      /\ w.host = host /\ w.turns = turns /\ w.procs = procs /\ w.calls = calls \ {c}
      /\ t \in Turns
  BY WithoutKeeps
<1>3. World.host = host /\ Typed(World) /\ turns[t] \in TurnType
  BY <1>2, InvFields
<1>4. ~Live(World, t) => Duties(w)
  BY <1>3, WithoutOthers DEF Live
<1>5. Become(v)
  <2>1. [w EXCEPT !.turns[t].settling = FALSE] = s
    BY <1>2
  <2> QED
    BY <2>1 DEF BackoffOver
<1> HIDE DEF w
<1>6. CASE ~Live(World, t)
  BY <1>1, <1>2, <1>4, <1>5, <1>6, OnwardStep
<1>7. CASE Live(World, t)
  <2>1. /\ e \in TurnType /\ e.end = w.turns[t].end /\ e.settling = FALSE /\ e.cards = w.turns[t].cards
        /\ w.turns[t].cards \in Nat
    BY <1>2, <1>3 DEF TurnType
  <2> HIDE DEF e
  <2>2. /\ Base(s) /\ s.host = w.host /\ s.calls = w.calls /\ s.procs = w.procs
        /\ s.turns = [w.turns EXCEPT ![t] = e] /\ Alive(s) /\ Onward(s, w)
    BY <1>2, <2>1, TurnSetKeeps
  <2> HIDE DEF s
  <2>3. Typed(s) /\ ~s.turns[t].settling /\ s.host.turn = t
    BY <1>2, <1>3, <1>7, <2>1, <2>2, WorldFields DEF Base, Live
  <2>4. Onward(s, World)
    BY <1>2, <1>3, <2>2, <2>3, OnwardAgain
  <2>5. Base(v) /\ Alive(v) /\ Duties(v) /\ Onward(v, s)
    <3>1. CASE turns[t].cancelled
      BY <1>2, <1>7, <2>2, <2>3, <3>1, FinishGoesOn
    <3>2. CASE ~turns[t].cancelled
      <4>1. \A d \in s.calls : d.at \notin {"known", "resume"}
        BY <1>1, <1>2, <2>2 DEF Settled
      <4> QED
        BY <1>2, <1>7, <2>2, <2>3, <3>2, <4>1, RetryGoesOn
    <3> QED
      BY <3>1, <3>2
  <2> HIDE DEF v
  <2>6. Onward(v, World)
    BY <1>3, <2>3, <2>4, <2>5, OnwardAgain DEF Base
  <2> QED
    BY <1>1, <1>5, <2>5, <2>6, OnwardStep
<1> QED
  BY <1>6, <1>7

LEMMA DescribedStep == ASSUME IInv, NEW c \in calls, Described(c) PROVE Kept
<1> DEFINE w == Without(c)
           t == c.turn
           e == [turns[t] EXCEPT !.fresh = TRUE, !.settling = FALSE]
           s == [w EXCEPT !.turns[t] = e]
           d == DisposeRuntime(s)
           f == FinishTurn(w, t)
           n == EnsureRuntime(d, t, "fresh")
<1>1. Settled /\ UNCHANGED count /\ c.at = "describe"
  BY DEF Described
<1>2. /\ Base(w) /\ Alive(w) /\ Onward(w, World) /\ Typed(w)
      /\ w.host = host /\ w.turns = turns /\ w.procs = procs /\ w.calls = calls \ {c}
      /\ t \in Turns
  BY WithoutKeeps
<1>3. World.host = host /\ World.turns = turns /\ Typed(World) /\ turns[t] \in TurnType
  BY <1>2, InvFields
<1>4. ~Live(World, t) => Duties(w)
  BY <1>3, WithoutOthers DEF Live
<1>5. \/ c.why = "fresh" /\ Become(f)
      \/ ~Live(World, t) /\ Become(w)
      \/ Live(World, t) /\ Become(n)
      \/ Live(World, t) /\ Become(f)
  <2>1. [w EXCEPT !.turns[t].fresh = TRUE, !.turns[t].settling = FALSE] = s
    BY <1>2, <1>3 DEF TurnType, Typed
  <2> HIDE DEF w, s
  <2> QED
    BY <2>1 DEF Described, w
<1> HIDE DEF w
<1>6. /\ Base(f) /\ Alive(f) /\ Duties(f) /\ f.calls = w.calls
      /\ host.turn \in {None, t} => Onward(f, w)
      /\ \A u \in Turns : f.turns[u].cards = turns[u].cards
  BY <1>2, FinishGoesOn
<1>7. CASE Become(f) /\ host.turn \in {None, t}
  <2>1. Onward(f, World)
    BY <1>2, <1>3, <1>6, <1>7, OnwardAgain DEF Base
  <2> QED
    BY <1>1, <1>6, <1>7, <2>1, OnwardStep
<1>8. CASE c.why = "fresh" /\ Become(f) /\ host.turn # t
  <2>1. \A u \in Turns : f.turns[u].cards <= turns[u].cards
    <3>1. \A u \in Turns : turns[u].cards \in Nat
      BY InvFields DEF TurnType
    <3> QED
      BY <1>6, <3>1
  <2>2. IInv'
    BY <1>1, <1>6, <1>8, <2>1, InvStep
  <2>3. calls' = calls \ {c}
    BY <1>2, <1>6, <1>8 DEF Become
  <2>4. LateFresh
    BY <1>1, <1>8, <2>3 DEF LateFresh
  <2> QED
    BY <2>2, <2>4 DEF Kept
<1>9. CASE ~Live(World, t) /\ Become(w)
  BY <1>1, <1>2, <1>4, <1>9, OnwardStep
<1>10. CASE Live(World, t) /\ Become(n)
  <2>1. /\ e \in TurnType /\ e.end = w.turns[t].end /\ e.settling = FALSE /\ e.cards = w.turns[t].cards
        /\ w.turns[t].cards \in Nat
    BY <1>2, <1>3 DEF TurnType
  <2> HIDE DEF e
  <2>2. /\ Base(s) /\ s.host = w.host /\ s.calls = w.calls /\ s.procs = w.procs
        /\ s.turns = [w.turns EXCEPT ![t] = e] /\ Alive(s) /\ Onward(s, w)
    BY <1>2, <2>1, TurnSetKeeps
  <2> HIDE DEF s
  <2>3. /\ Typed(s) /\ ~s.turns[t].settling /\ s.host.turn = t
        /\ \A a \in s.calls : a.at \notin {"known", "resume"}
    BY <1>1, <1>2, <1>3, <1>10, <2>1, <2>2, WorldFields DEF Base, Live, Settled
  <2>4. d.turns = s.turns /\ d.calls = s.calls /\ d.host.turn = s.host.turn /\ Typed(d)
    BY <2>2, DisposeRuntimeIs DEF Base
  <2>5. Base(d) /\ Alive(d)
    BY <2>2, <2>3, DisposeRuntimeKeeps
  <2> HIDE DEF d
  <2>6. Base(n) /\ Alive(n) /\ Duties(n) /\ Onward(n, d)
    BY <1>2, <2>3, <2>4, <2>5, RetryGoesOn
  <2> HIDE DEF n
  <2>7. Onward(d, s)
    BY <2>3, <2>4, OnwardStays
  <2>8. Onward(n, World)
    <3>1. Onward(s, World)
      BY <1>2, <1>3, <2>2, <2>3, OnwardAgain
    <3>2. Onward(d, World)
      BY <1>3, <2>3, <2>4, <2>7, <3>1, OnwardAgain
    <3> QED
      BY <1>3, <2>4, <2>6, <3>2, OnwardAgain DEF Base
  <2> QED
    BY <1>1, <1>10, <2>6, <2>8, OnwardStep
<1> QED
  BY <1>3, <1>5, <1>7, <1>8, <1>9, <1>10 DEF Live

LEMMA GraceOverStep == ASSUME IInv, NEW t \in Turns, GraceOver(t) PROVE Kept
<1> DEFINE x == GraceEnds(t)
           e == [x.turns[t] EXCEPT !.grace = FALSE]
           v == [x EXCEPT !.turns[t] = e]
<1>1. Become(v) /\ UNCHANGED count
  <2>1. [x EXCEPT !.turns[t].grace = FALSE] = v
    OBVIOUS
  <2> QED
    BY <2>1 DEF GraceOver
<1>2. /\ Base(World) /\ Alive(World) /\ Typed(World) /\ World.host = host /\ World.turns = turns
      /\ Settles(World) /\ Displaced(World) /\ Driven(World) /\ Duties(World)
  BY InvFields DEF Duties
<1>3. Base(x) /\ Alive(x) /\ Onward(x, World) /\ Duties(x) /\ x.host.turn # t /\ Typed(x)
  <2>1. CASE Live(World, t)
    <3>1. t # None /\ World.host.turn = t
      BY <2>1, Bounds DEF Turns, None, Live
    <3> QED
      BY <1>2, <2>1, <3>1, FinishGoesOn DEF GraceEnds, Base
  <2>2. CASE ~Live(World, t)
    <3>1. Onward(World, World)
      BY <1>2, OnwardStays
    <3> QED
      BY <1>2, <2>2, <3>1 DEF GraceEnds, Live
  <2> QED
    BY <2>1, <2>2
<1> HIDE DEF x
<1>4. x.turns \in [Turns -> TurnType] /\ x.turns[t] \in TurnType /\ (x.host.turn # None => x.host.turn \in Turns)
  BY <1>3, WorldFields
<1>5. /\ e \in TurnType /\ e.end = x.turns[t].end /\ e.settling = x.turns[t].settling /\ e.cards = x.turns[t].cards
      /\ x.turns[t].cards \in Nat
  BY <1>4 DEF TurnType
<1> HIDE DEF e
<1>6. e.settling => x.turns[t].settling \/ e.end # "none"
  BY <1>5
<1>7. /\ Base(v) /\ v.host = x.host /\ v.calls = x.calls /\ v.procs = x.procs
      /\ v.turns = [x.turns EXCEPT ![t] = e] /\ Alive(v) /\ Onward(v, x)
  BY <1>3, <1>5, <1>6, TurnSetKeeps
<1> HIDE DEF v
<1>8. x.host.turn # None => v.turns[x.host.turn] = x.turns[x.host.turn]
  BY <1>3, <1>4, <1>7
<1>9. Carries(v, x)
  BY <1>7, <1>8 DEF Carries
<1>10. x.host.turn # None /\ Powered(x) => Powered(v)
  BY <1>7, <1>8 DEF Powered
<1>11. Duties(v)
  BY <1>3, <1>9, <1>10, CarriesDuties DEF Duties
<1>12. Onward(v, World)
  BY <1>2, <1>3, <1>7, OnwardAgain DEF Base
<1> QED
  BY <1>1, <1>7, <1>11, <1>12, OnwardStep

LEMMA EndedStep == ASSUME IInv, NEW t \in Turns, Ended(t) PROVE Kept
<1> DEFINE e == [turns[t] EXCEPT !.end = "ended"]
           v == [World EXCEPT !.turns[t] = e]
<1>1. /\ Become(v) /\ UNCHANGED count /\ turns[t].end = "storing"
  BY DEF Ended, Become, World
<1>2. /\ Base(World) /\ Alive(World) /\ Typed(World) /\ World.host = host /\ World.turns = turns
      /\ World.calls = calls /\ World.procs = procs
      /\ Settles(World) /\ Displaced(World) /\ Driven(World) /\ turns \in [Turns -> TurnType]
      /\ turns[t] \in TurnType /\ (host.turn # None => host.turn \in Turns) /\ calls \in SUBSET CallType
  BY InvFields
<1>3. /\ e \in TurnType /\ e.end = "ended" /\ e.cards = turns[t].cards
      /\ turns[t].cards \in Nat
  BY <1>2 DEF TurnType
<1> HIDE DEF e
<1>4. /\ Typed(v) /\ v.host = host /\ v.calls = calls /\ v.procs = procs
      /\ v.turns = [turns EXCEPT ![t] = e]
  BY <1>2, <1>3, TurnSet
<1> HIDE DEF v
<1>5. v.turns[t] = e /\ \A u \in Turns : u # t => v.turns[u] = turns[u]
  BY <1>2, <1>4
<1>6. host.turn # None => host.turn # t
  BY <1>1, <1>2 DEF Base, Ending
<1>7. Base(v) /\ Alive(v)
  <2>1. Named(v)
    BY <1>2, <1>4 DEF Base, Named
  <2>2. \A q : Starts(v, q) <=> Starts(World, q)
    BY <1>2, <1>4 DEF Starts
  <2>3. Spawning(v)
    BY <1>2, <1>4, <2>2 DEF Base, Spawning
  <2>4. \A c \in calls : v.turns[c.turn].end # "none"
    <3>1. \A c \in calls : c.turn \in Turns /\ turns[c.turn].end # "none"
      BY <1>2 DEF CallType, Base, Waiting
    <3> QED
      BY <1>3, <1>5, <3>1
  <2>5. Waiting(v)
    BY <1>2, <1>4, <2>2, <2>4 DEF Base, Waiting
  <2>6. Ending(v)
    BY <1>2, <1>3, <1>4, <1>5, <1>6 DEF Base, Ending
  <2> QED
    BY <1>2, <1>4, <2>1, <2>3, <2>5, <2>6 DEF Base, Alive
<1>8. Carries(v, World)
  BY <1>2, <1>4, <1>5, <1>6 DEF Carries
<1>9. host.turn # None /\ Powered(World) => Powered(v)
  BY <1>2, <1>4, <1>5, <1>6 DEF Powered
<1>10. Duties(v)
  BY <1>2, <1>8, <1>9, CarriesDuties DEF Duties
<1>11. \A u \in Turns : v.turns[u].cards <= turns[u].cards
  <2>1. \A u \in Turns : turns[u].cards \in Nat
    BY InvFields DEF TurnType
  <2> QED
    BY <1>3, <1>5, <2>1
<1>12. IInv' /\ host' = v.host /\ turns' = v.turns
  BY <1>1, <1>7, <1>10, <1>11, InvStep
<1>13. \A u \in Turns : EndsWell(u)
  BY <1>1, <1>3, <1>4, <1>5, <1>12 DEF EndsWell, EndSteps
<1> QED
  BY <1>12, <1>13 DEF Kept

LEMMA IdentityReadStep == ASSUME IInv, IdentityRead PROVE Kept
<1>0. PICK changed \in BOOLEAN :
        LET login == IF changed THEN host.login + 1 ELSE host.login
            Seen(c) == IF procs[c.proc].login = login THEN "same" ELSE "changed"
            Known(c) == IF c.at = "identity" THEN [c EXCEPT !.at = "known", !.kind = Seen(c)] ELSE c
        IN FailsIf(changed) /\ Become([World EXCEPT !.host.login = login, !.calls = {Known(c) : c \in calls}])
  BY DEF IdentityRead
<1> DEFINE login == IF changed THEN host.login + 1 ELSE host.login
           Seen(c) == IF procs[c.proc].login = login THEN "same" ELSE "changed"
           Known(c) == IF c.at = "identity" THEN [c EXCEPT !.at = "known", !.kind = Seen(c)] ELSE c
           cs == {Known(c) : c \in calls}
           h == [host EXCEPT !.login = login]
           x == [World EXCEPT !.calls = cs]
           v == [x EXCEPT !.host = h]
<1>1. Settled /\ (UNCHANGED count \/ Fails)
  BY <1>0 DEF IdentityRead, FailsIf
<1>2. /\ Base(World) /\ Alive(World) /\ Typed(World) /\ World.host = host /\ World.turns = turns
      /\ World.calls = calls /\ World.procs = procs /\ host \in HostType
      /\ Settles(World) /\ Displaced(World) /\ Driven(World) /\ calls \in SUBSET CallType
      /\ Len(procs) \in Nat /\ \A p \in 1 .. Len(procs) : procs[p] \in ProcType
  BY InvFields
<1>3. Become(v)
  <2>1. [World EXCEPT !.host.login = login, !.calls = cs] = v
    BY DEF World
  <2> QED
    BY <1>0, <2>1
<1>4. \A c \in calls : /\ Known(c) \in CallType /\ Known(c).turn = c.turn /\ Known(c).proc = c.proc
                       /\ c.at # "identity" => Known(c) = c
                       /\ c.at = "identity" => Known(c).at = "known" /\ Known(c).kind = Seen(c)
  BY <1>2 DEF CallType, CallKinds
<1>5. login \in Nat
  BY <1>2 DEF HostType
<1>6. \A c, d \in calls : c.at = "identity" /\ d.at = "identity" => Seen(c) = Seen(d)
  <2> SUFFICES ASSUME NEW c \in calls, NEW d \in calls, c.at = "identity", d.at = "identity"
               PROVE  procs[c.proc].login = procs[d.proc].login
    OBVIOUS
  <2>1. CASE host.runtime # None
    BY <1>2, <2>1 DEF Base, Waiting
  <2>2. CASE host.runtime = None
    <3>1. c.proc \in 1 .. Len(procs) /\ d.proc \in 1 .. Len(procs)
      BY <1>2 DEF Base, Waiting, Named, CallType, None
    <3>2. procs[c.proc].login = 0 /\ procs[d.proc].login = 0
      BY <1>2, <2>2, <3>1 DEF Base, Named, None
    <3> QED
      BY <3>2
  <2> QED
    BY <2>1, <2>2
<1> HIDE DEF Known, Seen, login
<1>7. /\ cs \in SUBSET CallType
      /\ \A d \in cs : \E c \in calls : d = Known(c)
      /\ \A c \in calls : Known(c) \in cs
  BY <1>4
<1>8. /\ h \in HostType /\ h.turn = host.turn /\ h.runtime = host.runtime /\ h.starting = host.starting
      /\ h.generation = host.generation /\ h.gone = host.gone
  BY <1>2, <1>5 DEF HostType
<1> HIDE DEF cs, h
<1>9. Typed(x) /\ x.host = host /\ x.turns = turns /\ x.procs = procs /\ x.calls = cs
  BY <1>2, <1>7, CallsSet
<1> HIDE DEF x
<1>10. Typed(v) /\ v.host = h /\ v.turns = turns /\ v.procs = procs /\ v.calls = cs
  BY <1>8, <1>9, HostSet
<1> HIDE DEF v
<1>11. Named(v)
  BY <1>2, <1>4, <1>7, <1>8, <1>10 DEF Base, Named
<1>12. \A q : Starts(v, q) <=> Starts(World, q)
  BY <1>2, <1>10 DEF Starts
<1>13. Spawning(v)
  BY <1>2, <1>8, <1>10, <1>12 DEF Base, Spawning
<1>14. \A c \in calls : c.at \notin {"known", "resume"}
  BY <1>1 DEF Settled
<1>15. \A c \in calls : Known(c).at # "identity" /\ Known(c).at # "resume"
                       /\ (Known(c).at = "known" <=> c.at = "identity")
  BY <1>4, <1>14
<1>16. Waiting(v)
  <2>1. \A d \in cs : v.turns[d.turn].end # "none"
    BY <1>2, <1>4, <1>7, <1>10 DEF Base, Waiting
  <2>2. \A d \in cs : d.at \in {"identity", "known", "resume"} =>
          d.proc # None /\ (d.proc = v.host.runtime \/ (v.host.runtime = None /\ d.at # "resume"))
    <3> SUFFICES ASSUME NEW c \in calls, Known(c).at \in {"identity", "known", "resume"}
                 PROVE  c.proc # None /\ (c.proc = host.runtime \/ host.runtime = None)
      BY <1>4, <1>7, <1>8, <1>10, <1>15
    <3>1. c.at = "identity"
      BY <1>15
    <3> QED
      BY <1>2, <3>1 DEF Base, Waiting
  <2>3. \A d \in cs : d.at = "spawn" => Starts(v, d.proc)
    BY <1>2, <1>4, <1>7, <1>12, <1>15 DEF Base, Waiting
  <2>4. \A d \in cs : d.at # "identity" /\ d.at # "resume"
    BY <1>7, <1>15
  <2>5. \A d, f \in cs : d.at = "known" /\ f.at = "known" => d.kind = f.kind
    BY <1>4, <1>6, <1>7, <1>15
  <2> QED
    BY <1>10, <2>1, <2>2, <2>3, <2>4, <2>5 DEF Waiting
<1>17. Ending(v)
  BY <1>2, <1>8, <1>10 DEF Base, Ending
<1>18. Settles(v)
  BY <1>2, <1>4, <1>7, <1>8, <1>10 DEF Settles
<1>19. Displaced(v)
  <2>1. \A c \in calls : Disposes(Known(c)) => Disposes(c)
    BY <1>15 DEF Disposes
  <2> QED
    BY <1>2, <1>4, <1>7, <1>8, <1>10, <1>15, <2>1 DEF Displaced
<1>20. Driven(v)
  <2>1. \A c \in calls : Good(World, c) => Good(v, Known(c))
    BY <1>2, <1>4, <1>8, <1>10, <1>15 DEF Good
  <2> QED
    BY <1>2, <1>7, <1>8, <1>10, <2>1 DEF Driven
<1>21. Onward(v, World) /\ Alive(v)
  BY <1>2, <1>8, <1>10, OnwardStays DEF Alive
<1> QED
  BY <1>1, <1>3, <1>10, <1>11, <1>13, <1>16, <1>17, <1>18, <1>19, <1>20, <1>21, OnwardStep DEF Base, Duties

(* cs is calls, with those that wait for p at another place. *)
WokenAs(cs, p, at) ==
  /\ cs \in SUBSET CallType
  /\ \A d \in cs : \E c \in calls :
       /\ d.turn = c.turn /\ d.proc = c.proc
       /\ IF c.at = "spawn" /\ c.proc = p THEN d.at = at ELSE d = c
  /\ \A c \in calls : \E d \in cs :
       /\ d.turn = c.turn /\ d.proc = c.proc
       /\ IF c.at = "spawn" /\ c.proc = p THEN d.at = at ELSE d = c

LEMMA WokenIs ==
  ASSUME IInv, NEW p, NEW at \in {"resume", "failed"}, NEW kind \in CallKinds
  PROVE  WokenAs(Woken(p, at, kind), p, at)
<1> DEFINE W(c) == IF c.at = "spawn" /\ c.proc = p THEN [c EXCEPT !.at = at, !.kind = kind] ELSE c
<1>1. \A c \in calls : /\ W(c) \in CallType /\ W(c).turn = c.turn /\ W(c).proc = c.proc
                       /\ IF c.at = "spawn" /\ c.proc = p THEN W(c).at = at ELSE W(c) = c
  BY InvFields DEF CallType
<1>2. Woken(p, at, kind) = {W(c) : c \in calls}
  BY DEF Woken
<1> HIDE DEF W
<1> QED
  BY <1>1, <1>2 DEF WokenAs

(* A spawn that comes to nothing fails the calls that wait for it. *)
LEMMA SpawnEndsStep ==
  ASSUME IInv, Settled, NEW p \in Pids, procs[p].state = "starting",
         NEW q \in ProcType, q.state \in {"closing", "gone"}, q.login = 0, NEW kind \in Kinds,
         Become([World EXCEPT !.host = Started(p), !.procs[p] = q, !.calls = Woken(p, "failed", kind)]),
         UNCHANGED count \/ Fails
  PROVE  Kept
<1> DEFINE cs == Woken(p, "failed", kind)
           h == Started(p)
           x == [World EXCEPT !.calls = cs]
           y == [x EXCEPT !.procs[p] = q]
           v == [y EXCEPT !.host = h]
<1>1. /\ Base(World) /\ Alive(World) /\ Typed(World) /\ World.host = host /\ World.turns = turns
      /\ World.calls = calls /\ World.procs = procs /\ host \in HostType
      /\ Settles(World) /\ Displaced(World) /\ Driven(World) /\ calls \in SUBSET CallType
      /\ Len(procs) \in Nat /\ p \in 1 .. Len(procs) /\ \A r \in 1 .. Len(procs) : procs[r] \in ProcType
  BY InvFields
<1>2. Become(v)
  <2>1. [World EXCEPT !.host = Started(p), !.procs[p] = q, !.calls = Woken(p, "failed", kind)] = v
    BY DEF World
  <2> QED
    BY <2>1
<1>3. /\ cs \in SUBSET CallType
      /\ \A d \in cs : \E c \in calls :
           /\ d.turn = c.turn /\ d.proc = c.proc
           /\ IF c.at = "spawn" /\ c.proc = p THEN d.at = "failed" ELSE d = c
      /\ \A c \in calls : \E d \in cs :
           /\ d.turn = c.turn /\ d.proc = c.proc
           /\ IF c.at = "spawn" /\ c.proc = p THEN d.at = "failed" ELSE d = c
  <2>1. WokenAs(cs, p, "failed")
    BY WokenIs DEF CallKinds
  <2> HIDE DEF cs
  <2> QED
    BY <2>1 DEF WokenAs
<1>4. /\ h \in HostType /\ h.turn = host.turn /\ h.runtime = host.runtime
      /\ h.generation = host.generation /\ h.gone = host.gone
      /\ h.starting = IF host.starting = p THEN None ELSE host.starting
  BY <1>1 DEF HostType, Started, None
<1> HIDE DEF cs, h
<1>5. Typed(x) /\ x.host = host /\ x.turns = turns /\ x.procs = procs /\ x.calls = cs
  BY <1>1, <1>3, CallsSet
<1> HIDE DEF x
<1>6. /\ Typed(y) /\ y.host = host /\ y.turns = turns /\ y.calls = cs /\ Len(y.procs) = Len(procs)
      /\ \A r \in 1 .. Len(procs) : y.procs[r] = IF r = p THEN q ELSE procs[r]
  BY <1>1, <1>5, ProcSet
<1> HIDE DEF y
<1>7. /\ Typed(v) /\ v.host = h /\ v.turns = turns /\ v.calls = cs /\ v.procs = y.procs
      /\ Len(v.procs) = Len(procs)
      /\ \A r \in 1 .. Len(procs) : v.procs[r] = IF r = p THEN q ELSE procs[r]
  BY <1>4, <1>6, HostSet
<1> HIDE DEF v
<1>8. Named(v)
  <2>1. h.runtime <= Len(procs) /\ h.starting <= Len(procs)
    BY <1>1, <1>4 DEF Base, Named, None
  <2>2. \A d \in cs : d.proc <= Len(procs)
    BY <1>1, <1>3 DEF Base, Named
  <2>3. \A r \in 1 .. Len(procs) : IF v.procs[r].state = "live" THEN r = h.runtime ELSE v.procs[r].login = 0
    BY <1>1, <1>4, <1>7 DEF Base, Named
  <2> QED
    BY <1>7, <2>1, <2>2, <2>3 DEF Named
<1>9. \A r : Starts(v, r) <=> (r # p /\ Starts(World, r))
  BY <1>1, <1>7 DEF Starts
<1>10. \A r : Starts(World, r) /\ r # p => v.procs[r] = procs[r]
  BY <1>1, <1>7 DEF Starts
<1>11. Spawning(v)
  BY <1>1, <1>4, <1>7, <1>9, <1>10 DEF Base, Spawning, Starts
<1>12. Waiting(v)
  <2>1. \A d \in cs : v.turns[d.turn].end # "none"
    BY <1>1, <1>3, <1>7 DEF Base, Waiting
  <2>2. \A d \in cs : d.at \in {"identity", "known", "resume"} =>
          d.proc # None /\ (d.proc = v.host.runtime \/ (v.host.runtime = None /\ d.at # "resume"))
    BY <1>1, <1>3, <1>4, <1>7 DEF Base, Waiting
  <2>3. \A d \in cs : d.at = "spawn" => Starts(v, d.proc)
    BY <1>1, <1>3, <1>9 DEF Base, Waiting
  <2>4. \A d \in cs : d.at \notin {"known", "resume"}
    BY <1>3 DEF Settled
  <2> QED
    BY <1>7, <2>1, <2>2, <2>3, <2>4 DEF Waiting
<1>13. Ending(v)
  BY <1>1, <1>4, <1>7 DEF Base, Ending
<1>14. Settles(v)
  BY <1>1, <1>3, <1>4, <1>7 DEF Settles
<1>15. Displaced(v)
  <2>1. \A d \in cs : Disposes(d) => \E c \in calls : Disposes(c) /\ c.turn = d.turn
    BY <1>3 DEF Disposes
  <2>2. \A c \in calls : c.at # "resume" => \E d \in cs : d.turn = c.turn /\ d.at # "resume"
    BY <1>3
  <2> QED
    BY <1>1, <1>4, <1>7, <2>1, <2>2 DEF Displaced
<1>16. p # host.runtime \/ host.runtime = None
  BY <1>1 DEF Alive
<1>17. Driven(v)
  <2>1. \A c \in calls : Good(World, c) => \E d \in cs : Good(v, d)
    BY <1>1, <1>3, <1>4, <1>7 DEF Good
  <2>2. host.runtime # None => host.runtime \in 1 .. Len(procs) /\ v.procs[host.runtime] = procs[host.runtime]
    BY <1>1, <1>7, <1>16 DEF Base, Named, HostType, None
  <2> QED
    BY <1>1, <1>4, <1>7, <2>1, <2>2 DEF Driven
<1>18. Alive(v)
  BY <1>1, <1>4, <1>7, <1>16 DEF Alive, Base, Named, HostType, None
<1>19. Onward(v, World)
  BY <1>1, <1>4, <1>7, OnwardStays
<1> QED
  BY <1>2, <1>7, <1>8, <1>11, <1>12, <1>13, <1>14, <1>15, <1>17, <1>18, <1>19, OnwardStep DEF Base, Duties

LEMMA SpawnFailsStep == ASSUME IInv, NEW p \in Pids, SpawnFails(p) PROVE Kept
<1>1. Gone \in ProcType /\ Gone.state = "gone" /\ Gone.login = 0
  BY DEF Gone, NewProc, ProcType
<1>2. /\ Settled /\ procs[p].state = "starting" /\ Fails
      /\ \E kind \in Kinds :
           Become([World EXCEPT !.host = Started(p), !.procs[p] = Gone, !.calls = Woken(p, "failed", kind)])
  BY DEF SpawnFails
<1> QED
  BY <1>1, <1>2, SpawnEndsStep

LEMMA SpawnedStep == ASSUME IInv, NEW p \in Pids, Spawned(p) PROVE Kept
<1>1. /\ Settled /\ procs[p].state = "starting" /\ UNCHANGED count
      /\ \A c \in calls : c.at \notin {"identity", "known", "resume"}
  BY DEF Spawned, Settled
<1>2. CASE ~Current(p)
  <2> DEFINE q == [NewProc(0) EXCEPT !.state = "closing"]
  <2>1. q \in ProcType /\ q.state = "closing" /\ q.login = 0
    BY DEF NewProc, ProcType
  <2>2. /\ Become([World EXCEPT !.host = Started(p), !.procs[p] = q, !.calls = Woken(p, "failed", "cancelled")])
        /\ "cancelled" \in Kinds
    BY <1>2 DEF Spawned, Kinds
  <2> HIDE DEF q
  <2> QED
    BY <1>1, <2>1, <2>2, SpawnEndsStep
<1>3. CASE Current(p)
  <2> DEFINE cs == Woken(p, "resume", "none")
             q == [NewProc(0) EXCEPT !.state = "live", !.login = host.login]
             h == [Started(p) EXCEPT !.runtime = p]
             x == [World EXCEPT !.calls = cs]
             y == [x EXCEPT !.procs[p] = q]
             v == [y EXCEPT !.host = h]
  <2>1. /\ Base(World) /\ Typed(World) /\ World.host = host /\ World.turns = turns
        /\ World.calls = calls /\ World.procs = procs /\ host \in HostType
        /\ Settles(World) /\ Driven(World) /\ calls \in SUBSET CallType
        /\ Len(procs) \in Nat /\ p \in 1 .. Len(procs)
    BY InvFields
  <2>2. Become(v)
    <3>1. [World EXCEPT !.host = [Started(p) EXCEPT !.runtime = p],
            !.procs[p] = [NewProc(0) EXCEPT !.state = "live", !.login = host.login],
            !.calls = Woken(p, "resume", "none")] = v
      BY DEF World
    <3> QED
      BY <1>3, <3>1 DEF Spawned
  <2>3. /\ cs \in SUBSET CallType
        /\ \A d \in cs : \E c \in calls :
             /\ d.turn = c.turn /\ d.proc = c.proc
             /\ IF c.at = "spawn" /\ c.proc = p THEN d.at = "resume" ELSE d = c
        /\ \A c \in calls : \E d \in cs :
             /\ d.turn = c.turn /\ d.proc = c.proc
             /\ IF c.at = "spawn" /\ c.proc = p THEN d.at = "resume" ELSE d = c
    <3>1. WokenAs(cs, p, "resume")
      BY WokenIs DEF CallKinds
    <3> HIDE DEF cs
    <3> QED
      BY <3>1 DEF WokenAs
  <2>4. procs[p].generation = host.generation /\ Starts(World, p)
    BY <1>1, <1>3, <2>1 DEF Current, Starts
  <2>5. host.runtime = None /\ (host.starting = None \/ host.starting = p)
    BY <2>1, <2>4 DEF Base, Spawning, Starts
  <2>6. /\ h \in HostType /\ h.turn = host.turn /\ h.runtime = p
        /\ h.generation = host.generation /\ h.gone = host.gone /\ h.starting = None
    <3> DEFINE g == Started(p)
    <3>1. /\ g \in HostType /\ g.turn = host.turn /\ g.starting = None
          /\ g.generation = host.generation /\ g.gone = host.gone
      BY <2>1, <2>5 DEF HostType, Started, None
    <3> HIDE DEF g
    <3>2. h = [g EXCEPT !.runtime = p] /\ p \in Nat
      BY <2>1 DEF g
    <3> QED
      BY <3>1, <3>2 DEF HostType
  <2>7. q \in ProcType /\ q.state = "live"
    BY <2>1 DEF NewProc, ProcType, HostType
  <2> HIDE DEF cs, h, q
  <2>8. Typed(x) /\ x.host = host /\ x.turns = turns /\ x.procs = procs /\ x.calls = cs
    BY <2>1, <2>3, CallsSet
  <2> HIDE DEF x
  <2>9. /\ Typed(y) /\ y.host = host /\ y.turns = turns /\ y.calls = cs /\ Len(y.procs) = Len(procs)
        /\ \A r \in 1 .. Len(procs) : y.procs[r] = IF r = p THEN q ELSE procs[r]
    BY <2>1, <2>7, <2>8, ProcSet
  <2> HIDE DEF y
  <2>10. /\ Typed(v) /\ v.host = h /\ v.turns = turns /\ v.calls = cs
         /\ Len(v.procs) = Len(procs)
         /\ \A r \in 1 .. Len(procs) : v.procs[r] = IF r = p THEN q ELSE procs[r]
    BY <2>6, <2>9, HostSet
  <2> HIDE DEF v
  <2>11. Named(v)
    <3>1. h.runtime <= Len(procs) /\ h.starting <= Len(procs)
      BY <2>1, <2>6 DEF None
    <3>2. \A d \in cs : d.proc <= Len(procs)
      BY <2>1, <2>3 DEF Base, Named
    <3>3. \A r \in 1 .. Len(procs) : IF v.procs[r].state = "live" THEN r = h.runtime ELSE v.procs[r].login = 0
      BY <2>1, <2>5, <2>6, <2>7, <2>10 DEF Base, Named, None
    <3> QED
      BY <2>10, <3>1, <3>2, <3>3 DEF Named
  <2>12. \A r : Starts(v, r) <=> (r # p /\ Starts(World, r))
    BY <2>1, <2>7, <2>10 DEF Starts
  <2>13. \A r : Starts(World, r) /\ r # p => v.procs[r] = procs[r] /\ procs[r].generation # host.generation
    BY <2>1, <2>4, <2>10 DEF Starts, Base, Spawning
  <2>14. Spawning(v)
    BY <2>1, <2>6, <2>10, <2>12, <2>13 DEF Base, Spawning, Starts
  <2>15. \A d \in cs : d.at \notin {"identity", "known"} /\ (d.at = "resume" => d.proc = p)
    BY <1>1, <2>3
  <2>16. Waiting(v)
    <3>1. \A d \in cs : v.turns[d.turn].end # "none"
      BY <2>1, <2>3, <2>10 DEF Base, Waiting
    <3>2. \A d \in cs : d.at = "spawn" => Starts(v, d.proc)
      BY <2>1, <2>3, <2>12 DEF Base, Waiting
    <3>3. p # None
      BY <2>1 DEF None
    <3> QED
      BY <2>6, <2>10, <2>15, <3>1, <3>2, <3>3 DEF Waiting
  <2>17. Ending(v)
    BY <2>1, <2>6, <2>10 DEF Base, Ending
  <2>18. Settles(v)
    BY <2>1, <2>3, <2>6, <2>10 DEF Settles
  <2>19. Displaced(v)
    BY <2>10, <2>15 DEF Displaced, Disposes
  <2>20. Driven(v)
    <3>1. \A d \in cs : d.turn = host.turn => Good(v, d)
      BY <2>6, <2>10, <2>15 DEF Good
    <3>2. \A c \in calls : Good(World, c) => \E d \in cs : Good(v, d)
      BY <2>1, <2>3, <3>1 DEF Good
    <3> QED
      BY <2>1, <2>5, <2>6, <2>10, <3>2 DEF Driven
  <2>21. Alive(v) /\ Onward(v, World)
    BY <2>1, <2>6, <2>7, <2>10, OnwardStays DEF Alive
  <2> QED
    BY <1>1, <2>2, <2>10, <2>11, <2>14, <2>16, <2>17, <2>18, <2>19, <2>20, <2>21, OnwardStep DEF Base, Duties
<1> QED
  BY <1>2, <1>3

-----------------------------------------------------------------------------
(* The agent *)

LEMMA WorksStep == ASSUME IInv, NEW p \in Pids, Works(p) PROVE Kept
<1> DEFINE t == host.turn
           e == [turns[t] EXCEPT !.followUp = FALSE]
           v == [World EXCEPT !.turns[t] = e]
<1>1. Become(v) /\ UNCHANGED count /\ t # None
  BY DEF Works, Become, World
<1>2. /\ Base(World) /\ Alive(World) /\ World.host = host /\ World.turns = turns
      /\ World.calls = calls /\ World.procs = procs
      /\ Settles(World) /\ Displaced(World) /\ Driven(World)
      /\ t \in Turns /\ turns[t] \in TurnType /\ turns \in [Turns -> TurnType]
  BY <1>1, InvFields
<1>3. /\ e \in TurnType /\ e.end = turns[t].end /\ e.cards = turns[t].cards /\ e.settling = turns[t].settling
      /\ e.grace = turns[t].grace /\ e.held = turns[t].held /\ turns[t].cards \in Nat
  BY <1>2 DEF TurnType
<1> HIDE DEF e
<1>4. e.settling => World.turns[t].settling \/ e.end # "none"
  BY <1>2, <1>3
<1>5. /\ Base(v) /\ v.host = host /\ v.calls = calls /\ v.procs = procs
      /\ v.turns = [turns EXCEPT ![t] = e] /\ Alive(v) /\ Onward(v, World)
  BY <1>2, <1>3, <1>4, TurnSetKeeps
<1> HIDE DEF v
<1>6. v.turns[t] = e
  BY <1>2, <1>5
<1>7. Carries(v, World) /\ (Powered(World) => Powered(v))
  BY <1>2, <1>3, <1>5, <1>6 DEF Carries, Powered
<1>8. Duties(v)
  BY <1>2, <1>7, CarriesDuties DEF Duties
<1> QED
  BY <1>1, <1>5, <1>8, OnwardStep

LEMMA AsksStep == ASSUME IInv, NEW p \in Pids, Asks(p) PROVE Kept
<1> DEFINE t == host.turn
           e == [turns[t] EXCEPT !.cards = @ + 1, !.followUp = FALSE]
           v == IF t = None THEN World ELSE [World EXCEPT !.turns[t] = e]
<1>1. Become(v) /\ count.cards < MaxCards /\ count' = [count EXCEPT !.cards = @ + 1]
  BY DEF Asks, Become, World
<1>2. /\ Base(World) /\ Alive(World) /\ World.host = host /\ World.turns = turns /\ Typed(World)
      /\ World.calls = calls /\ World.procs = procs
      /\ Settles(World) /\ Displaced(World) /\ Driven(World) /\ Duties(World)
      /\ (t # None => t \in Turns) /\ turns \in [Turns -> TurnType]
  BY InvFields DEF Duties
<1>3. /\ Base(v) /\ Alive(v) /\ Duties(v) /\ v.host = host
      /\ \A u \in Turns : v.turns[u].end = turns[u].end /\ v.turns[u].cards <= turns[u].cards + 1
  <2>0. \A u \in Turns : turns[u].cards \in Nat
    BY <1>2 DEF TurnType
  <2>1. CASE t = None
    BY <1>2, <2>0, <2>1
  <2>2. CASE t # None
    <3> DEFINE x == [World EXCEPT !.turns[t] = e]
    <3>0. turns[t] \in TurnType
      BY <1>2, <2>2
    <3>1. /\ e \in TurnType /\ e.end = turns[t].end /\ e.cards = turns[t].cards + 1 /\ e.settling = turns[t].settling
          /\ e.grace = turns[t].grace /\ e.held = turns[t].held
      <4>1. turns[t].cards + 1 \in Nat
        BY <3>0 DEF TurnType
      <4> QED
        BY <3>0, <4>1 DEF TurnType
    <3> HIDE DEF e
    <3>2. e.settling => World.turns[t].settling \/ e.end # "none"
      BY <1>2, <3>1
    <3>3. /\ Base(x) /\ x.host = host /\ x.calls = calls /\ x.procs = procs
          /\ x.turns = [turns EXCEPT ![t] = e] /\ Alive(x)
      BY <1>2, <2>2, <3>1, <3>2, TurnSetKeeps
    <3> HIDE DEF x
    <3>4. x.turns[t] = e /\ \A u \in Turns : u # t => x.turns[u] = turns[u]
      BY <1>2, <2>2, <3>3
    <3>5. Carries(x, World) /\ (Powered(World) => Powered(x))
      BY <1>2, <2>0, <2>2, <3>1, <3>3, <3>4 DEF Carries, Powered
    <3>6. Duties(x)
      BY <1>2, <3>5, CarriesDuties DEF Duties
    <3>7. \A u \in Turns : x.turns[u].end = turns[u].end /\ x.turns[u].cards <= turns[u].cards + 1
      BY <2>0, <3>1, <3>4
    <3>8. v = x
      BY <2>2 DEF x
    <3> QED
      BY <3>3, <3>6, <3>7, <3>8
  <2> QED
    BY <2>1, <2>2
<1> HIDE DEF v
<1>4. World' = v /\ host' = v.host /\ turns' = v.turns
  BY <1>1, <1>3, BecomeIs DEF Base, Become
<1>5. Rest' /\ count'.cards = count.cards + 1 /\ count.cards \in Nat
  <2>1. Rest /\ count.cards \in 0 .. MaxCards
    BY InvFields DEF Rest
  <2>2. count.cards \in Nat /\ count.cards + 1 \in 0 .. MaxCards
    BY <1>1, <2>1, Bounds
  <2> QED
    BY <1>1, <2>1, <2>2 DEF Rest
<1>6. CardsOK'
  <2>1. \A u \in Turns : turns[u].cards \in Nat /\ v.turns[u].cards \in Nat
    <3>1. \A u \in Turns : v.turns[u] \in TurnType /\ turns[u] \in TurnType
      BY <1>3, InvFields, WorldFields DEF Base
    <3> QED
      BY <3>1 DEF TurnType
  <2>2. \A u \in Turns : v.turns[u].cards <= count.cards + 1
    <3> TAKE u \in Turns
    <3>1. turns[u].cards <= count.cards /\ v.turns[u].cards <= turns[u].cards + 1
      BY <1>3, InvFields DEF CardsOK
    <3> QED
      BY <1>5, <2>1, <3>1
  <2> QED
    BY <1>4, <1>5, <2>2 DEF CardsOK
<1>7. Base(World') /\ Alive(World') /\ Duties(World')
  BY <1>3, <1>4
<1>8. \A u \in Turns : EndsWell(u)
  BY <1>3, <1>4 DEF EndsWell
<1> QED
  BY <1>5, <1>6, <1>7, <1>8 DEF Kept, IInv

LEMMA ReturnsStep == ASSUME IInv, NEW p \in Pids, Returns(p) PROVE Kept
<1> DEFINE e == [procs[p] EXCEPT !.prompts = @ - 1, !.active = FALSE]
           w == [World EXCEPT !.procs[p] = e]
<1>1. PICK kind \in Kinds \cup {"ok"} : Become(TurnFinished(w, kind)) /\ FailsIf(kind # "ok") /\ Speaks(p)
  <2>1. [World EXCEPT !.procs[p].prompts = @ - 1, !.procs[p].active = FALSE] = w
    BY DEF World
  <2> QED
    BY <2>1 DEF Returns
<1> DEFINE v == TurnFinished(w, kind)
<1>2. /\ Base(World) /\ Typed(World) /\ Alive(World) /\ World.host = host /\ World.turns = turns
      /\ World.calls = calls /\ World.procs = procs
      /\ Settles(World) /\ Displaced(World) /\ Driven(World)
      /\ p \in 1 .. Len(procs) /\ procs[p] \in ProcType /\ Len(procs) \in Nat
  BY InvFields
<1>3. e \in ProcType /\ e.state = procs[p].state /\ e.generation = procs[p].generation /\ e.login = procs[p].login
  <2>1. procs[p].prompts - 1 \in Nat
    BY <1>1, <1>2 DEF Speaks, ProcType
  <2> QED
    BY <1>2, <2>1 DEF ProcType
<1> HIDE DEF e
<1>4. /\ Typed(w) /\ w.host = host /\ w.calls = calls /\ w.turns = turns /\ Len(w.procs) = Len(procs)
      /\ \A q \in 1 .. Len(procs) : w.procs[q] = IF q = p THEN e ELSE procs[q]
  BY <1>2, <1>3, ProcSet
<1> HIDE DEF w
<1>5. Alike(w, World)
  BY <1>2, <1>3, <1>4 DEF Alike
<1>6. Base(w) /\ Alive(w) /\ Onward(w, World)
  BY <1>2, <1>4, <1>5, AlikeKeeps, OnwardStays
<1>7. Settles(w) /\ Displaced(w) /\ (w.host.runtime = None => Driven(w))
  BY <1>2, <1>4 DEF Settles, Displaced, Driven, Good
<1>8. Base(v) /\ Alive(v) /\ Settles(v) /\ Displaced(v) /\ Driven(v) /\ Onward(v, w)
  BY <1>6, <1>7, TurnFinishedKeeps
<1>9. Become(v) /\ (UNCHANGED count \/ Fails)
  BY <1>1 DEF FailsIf
<1> HIDE DEF v
<1>10. Onward(v, World)
  BY <1>2, <1>4, <1>6, <1>8, OnwardAgain DEF Base
<1> QED
  BY <1>8, <1>9, <1>10, OnwardStep DEF Duties

(* A process that had started is gone. *)
LEMMA GoneKeeps ==
  ASSUME IInv, NEW p \in Pids, procs[p].state # "starting"
  PROVE  LET w == [World EXCEPT !.procs[p] = Gone] IN
         /\ Base(w) /\ Onward(w, World) /\ w.host = host /\ w.turns = turns /\ w.calls = calls
         /\ w.procs = [procs EXCEPT ![p] = Gone] /\ Len(w.procs) = Len(procs)
         /\ \A q \in 1 .. Len(procs) : w.procs[q] = IF q = p THEN Gone ELSE procs[q]
<1> DEFINE e == Gone
           w == [World EXCEPT !.procs[p] = e]
<1>1. /\ Base(World) /\ Typed(World) /\ World.host = host /\ World.turns = turns
      /\ World.calls = calls /\ World.procs = procs
      /\ p \in 1 .. Len(procs) /\ Len(procs) \in Nat
  BY InvFields
<1>2. e \in ProcType /\ e.state = "gone" /\ e.login = 0
  BY DEF Gone, NewProc, ProcType
<1> HIDE DEF e
<1>3. /\ Typed(w) /\ w.host = host /\ w.calls = calls /\ w.turns = turns /\ Len(w.procs) = Len(procs)
      /\ w.procs = [procs EXCEPT ![p] = e]
      /\ \A q \in 1 .. Len(procs) : w.procs[q] = IF q = p THEN e ELSE procs[q]
  BY <1>1, <1>2, ProcSet
<1> HIDE DEF w
<1>4. Named(w)
  BY <1>1, <1>2, <1>3 DEF Base, Named
<1>5. \A q : Starts(w, q) <=> Starts(World, q)
  BY <1>1, <1>2, <1>3 DEF Starts
<1>6. \A q : Starts(World, q) => w.procs[q] = procs[q]
  BY <1>1, <1>3 DEF Starts
<1>7. Spawning(w)
  BY <1>1, <1>3, <1>5, <1>6 DEF Base, Spawning, Starts
<1>8. Waiting(w)
  BY <1>1, <1>3, <1>5 DEF Base, Waiting
<1>9. Ending(w) /\ Onward(w, World)
  BY <1>1, <1>3, OnwardStays DEF Base, Ending
<1> QED
  BY <1>3, <1>4, <1>7, <1>8, <1>9 DEF Base, w, e

LEMMA EndsStep == ASSUME IInv, NEW p \in Pids, Ends(p) PROVE Kept
<1> DEFINE w == [World EXCEPT !.procs[p] = Gone]
<1>1. Become(w) /\ UNCHANGED count /\ procs[p].state = "closing"
  BY DEF Ends, Become, World
<1>2. /\ Base(World) /\ Alive(World) /\ World.host = host /\ World.turns = turns
      /\ World.calls = calls /\ World.procs = procs
      /\ Settles(World) /\ Displaced(World) /\ Driven(World) /\ p \in 1 .. Len(procs)
      /\ host.runtime \in Nat /\ Named(World) /\ Len(procs) \in Nat
  BY InvFields DEF Base, HostType
<1>3. /\ Base(w) /\ Onward(w, World) /\ w.host = host /\ w.turns = turns /\ w.calls = calls
      /\ \A q \in 1 .. Len(procs) : q # p => w.procs[q] = procs[q]
  BY <1>1, GoneKeeps
<1> HIDE DEF w
<1>4. host.runtime # None => host.runtime \in 1 .. Len(procs) /\ host.runtime # p
  BY <1>1, <1>2 DEF Alive, Named, None
<1>5. Alive(w)
  BY <1>2, <1>3, <1>4 DEF Alive
<1>6. Settles(w) /\ Displaced(w)
  BY <1>2, <1>3 DEF Settles, Displaced
<1>7. Driven(w)
  BY <1>2, <1>3, <1>4 DEF Driven, Good
<1> QED
  BY <1>1, <1>3, <1>5, <1>6, <1>7, OnwardStep DEF Duties

LEMMA ExitsStep == ASSUME IInv, NEW p \in Pids, Exits(p) PROVE Kept
<1> DEFINE w == [World EXCEPT !.procs[p] = Gone]
<1>1. PICK kind \in Kinds, last \in Kinds \cup {"ok"} :
        Become(ProcessExited(IF procs[p].active THEN TurnFinished(w, last) ELSE w, kind))
  <2>1. PICK zero \in BOOLEAN, kind \in Kinds :
          Become(ProcessExited(IF procs[p].active THEN TurnFinished(w, IF zero THEN "ok" ELSE kind) ELSE w, kind))
    BY DEF Exits
  <2> QED
    BY <2>1
<1> DEFINE f == TurnFinished(w, last)
           x == IF procs[p].active THEN f ELSE w
           v == ProcessExited(x, kind)
<1>2. Settled /\ procs[p].state = "live" /\ Fails
  BY DEF Exits
<1>3. /\ Base(World) /\ Alive(World) /\ World.host = host /\ World.turns = turns
      /\ World.calls = calls /\ World.procs = procs
      /\ Settles(World) /\ Displaced(World) /\ p \in 1 .. Len(procs) /\ Named(World)
      /\ Len(procs) \in Nat /\ Typed(World)
  BY InvFields DEF Base
<1>4. /\ Base(w) /\ Onward(w, World) /\ w.host = host /\ w.turns = turns /\ w.calls = calls
      /\ Len(w.procs) = Len(procs)
      /\ \A q \in 1 .. Len(procs) : w.procs[q] = IF q = p THEN Gone ELSE procs[q]
  BY <1>2, GoneKeeps
<1> HIDE DEF w
<1>5. p = host.runtime /\ host.runtime # None
  BY <1>2, <1>3 DEF Named, None
<1>6. \A q \in 1 .. Len(procs) : w.procs[q].state # "live"
  <2>1. Gone.state = "gone"
    BY DEF Gone, NewProc
  <2> QED
    BY <1>3, <1>4, <1>5, <2>1 DEF Named
<1>7. Settles(w) /\ Displaced(w) /\ \A c \in w.calls : c.at # "resume"
  BY <1>2, <1>3, <1>4 DEF Settles, Displaced, Settled
<1>8. /\ Base(f) /\ Settles(f) /\ Onward(f, w) /\ Len(f.procs) = Len(procs)
      /\ \A q \in 1 .. Len(procs) : f.procs[q].state = w.procs[q].state
      /\ \A c \in f.calls : c \in w.calls \/ c.at \in {"backoff", "describe"}
  BY <1>4, <1>5, <1>7, TurnFinishedKeeps
<1> HIDE DEF f
<1>9. Base(x) /\ Settles(x) /\ Onward(x, World) /\ Len(x.procs) = Len(procs)
  BY <1>3, <1>4, <1>7, <1>8, OnwardAgain DEF Base
<1>10. /\ \A q \in 1 .. Len(x.procs) : x.procs[q].state # "live"
       /\ \A c \in x.calls : c.at # "resume"
  BY <1>4, <1>6, <1>7, <1>8
<1>11. Become(v)
  BY <1>1 DEF f
<1> HIDE DEF x
<1>12. Base(v) /\ Alive(v) /\ Duties(v) /\ Onward(v, x)
  BY <1>9, <1>10, ProcessExitedKeeps
<1> HIDE DEF v
<1>13. Onward(v, World)
  BY <1>3, <1>9, <1>12, OnwardAgain DEF Base
<1> QED
  BY <1>2, <1>11, <1>12, <1>13, OnwardStep

-----------------------------------------------------------------------------
(* Every behaviour *)

LEMMA InitInv == Init => IInv
<1> SUFFICES ASSUME Init PROVE IInv
  OBVIOUS
<1>1. /\ host.turn = None /\ host.runtime = None /\ host.starting = None /\ host.gone = FALSE
      /\ calls = {} /\ procs = << >> /\ Len(procs) = 0
      /\ \A t \in Turns : turns[t] = Fresh
      /\ World.host = host /\ World.turns = turns /\ World.calls = calls /\ World.procs = procs
  BY DEF Init, World
<1>2. Fresh \in TurnType /\ Fresh.end = "none" /\ Fresh.settling = FALSE /\ Fresh.cards = 0
  BY Bounds DEF Fresh, TurnType
<1>3. Typed(World)
  <2>1. host \in HostType
    BY Bounds DEF Init, HostType, None
  <2>2. turns \in [Turns -> TurnType]
    BY <1>2 DEF Init
  <2> QED
    BY <1>1, <2>1, <2>2 DEF Typed, World
<1>4. \A p : ~Starts(World, p)
  BY <1>1 DEF Starts
<1>5. Named(World)
  BY <1>1 DEF Named, None
<1>6. Spawning(World)
  BY <1>1, <1>4 DEF Spawning
<1>7. Waiting(World) /\ Ending(World)
  BY <1>1, <1>2 DEF Waiting, Ending
<1>8. Alive(World) /\ Duties(World)
  BY <1>1 DEF Alive, Duties, Settles, Displaced, Driven
<1>9. Rest /\ CardsOK
  BY <1>1, <1>2, Bounds DEF Init, Rest, CardsOK
<1> QED
  BY <1>3, <1>5, <1>6, <1>7, <1>8, <1>9 DEF IInv, Base

(* One step per action. *)
LEMMA NextKeeps == IInv /\ [Next]_vars => Kept
<1> SUFFICES ASSUME IInv, [Next]_vars PROVE Kept
  OBVIOUS
<1>1. CASE UNCHANGED vars
  <2>1. IInv'
    BY <1>1 DEF vars, IInv, World, Rest, CardsOK
  <2>2. \A t \in Turns : EndsWell(t)
    BY <1>1 DEF vars, EndsWell
  <2> QED
    BY <2>1, <2>2 DEF Kept
<1>2. CASE Run \/ Regenerate \/ Cancel \/ InvalidateResume \/ ReapIdle \/ Dispose
  BY <1>2, RunStep, RegenerateStep, CancelStep, InvalidateResumeStep, ReapIdleStep, DisposeStep
<1>3. CASE \E allow, plan \in BOOLEAN : Answer(allow, plan)
  BY <1>3, AnswerStep
<1>4. CASE IdentityRead
  BY <1>4, IdentityReadStep
<1>5. CASE \E c \in calls : Identified(c) \/ Resumed(c) \/ Failed(c) \/ BackoffOver(c) \/ Described(c)
  BY <1>5, IdentifiedStep, ResumedStep, FailedStep, BackoffOverStep, DescribedStep
<1>6. CASE \E t \in Turns : GraceOver(t) \/ Ended(t)
  BY <1>6, GraceOverStep, EndedStep
<1>7. CASE \E p \in Pids : \/ Spawned(p) \/ SpawnFails(p) \/ Works(p) \/ Asks(p)
                           \/ Returns(p) \/ Exits(p) \/ Ends(p)
  BY <1>7, SpawnedStep, SpawnFailsStep, WorksStep, AsksStep, ReturnsStep, ExitsStep, EndsStep
<1> QED
  BY <1>1, <1>2, <1>3, <1>4, <1>5, <1>6, <1>7 DEF Next

LEMMA Invariance == Spec => []IInv
<1>1. IInv /\ [Next]_vars => IInv'
  BY NextKeeps DEF Kept
<1> QED
  BY InitInv, <1>1, PTL DEF Spec

(* What the maps of the host and the suspended calls name is there, and no *)
(* counter leaves its range: no more cards wait than were asked, no turn   *)
(* is retried more than RetryLimit times (NETWORK_RETRY_LIMIT).            *)
THEOREM CliTypeCorrect == Spec => []TypeOK
<1>1. IInv => TypeOK
  <2> SUFFICES ASSUME IInv PROVE TypeOK
    OBVIOUS
  <2>1. /\ host \in HostType /\ calls \in SUBSET CallType /\ Pids = 1 .. Len(procs) /\ Len(procs) \in Nat
        /\ Named(World) /\ World.host = host /\ World.calls = calls /\ World.procs = procs
        /\ \A t \in Turns : turns[t] \in TurnType
        /\ \A p \in 1 .. Len(procs) : procs[p] \in ProcType
        /\ CardsOK /\ count.cards \in 0 .. MaxCards
    BY InvFields DEF Base, Rest
  <2>2. /\ host.turn \in 0 .. MaxTurns /\ {host.runtime, host.starting} \subseteq 0 .. Len(procs)
        /\ host.generation \in Nat /\ {host.stop, host.gone} \subseteq BOOLEAN
    BY <2>1 DEF Named, HostType
  <2>3. \A t \in Turns : turns[t].cards \in 0 .. MaxCards
    BY <2>1, Bounds DEF CardsOK, TurnType
  <2>4. \A t \in Turns : turns[t].retries \in 0 .. RetryLimit /\ turns[t].end \in {"none", "no", "storing", "ended"}
    BY <2>1 DEF TurnType
  <2>5. \A c \in calls : c.turn \in Turns /\ c.proc \in 0 .. Len(procs)
    BY <2>1 DEF Named, CallType
  <2>6. \A p \in Pids : procs[p].state \in {"starting", "live", "closing", "gone"} /\ procs[p].prompts \in Nat
    BY <2>1 DEF ProcType
  <2> QED
    BY <2>2, <2>3, <2>4, <2>5, <2>6 DEF TypeOK
<1> QED
  BY <1>1, Invariance, PTL

(* No agent process runs on unseen: every live one is the process of the   *)
(* runtimes map, whatever Stops, logins, failed spawns and exits cross.    *)
THEOREM CliNoOrphans == Spec => []NoOrphans
<1>1. IInv => NoOrphans
  BY InvFields DEF NoOrphans, Base, Named
<1> QED
  BY <1>1, Invariance, PTL

(* A turn in the turns map is always waited for: no order of failures,     *)
(* retries, replaced turns, exits, Stops and held cards leaves the         *)
(* conversation busy with nothing that could end its turn.                 *)
THEOREM CliTurnsAreDriven == Spec => []LiveTurnsAreDriven
<1>1. IInv => LiveTurnsAreDriven
  <2> SUFFICES ASSUME IInv, host.turn # None PROVE LiveTurnsAreDriven
    BY DEF LiveTurnsAreDriven
  <2>1. /\ Driven(World) /\ Alive(World) /\ Named(World) /\ Len(procs) \in Nat
        /\ World.host = host /\ World.turns = turns /\ World.calls = calls /\ World.procs = procs
        /\ Pids = 1 .. Len(procs) /\ host \in HostType
    BY InvFields DEF Base
  <2>2. host.runtime # None => host.runtime \in Pids /\ procs[host.runtime].state = "live"
    BY <2>1 DEF Alive, Named, HostType, None
  <2> QED
    BY <2>1, <2>2 DEF LiveTurnsAreDriven, Driven, Good
<1> QED
  BY <1>1, Invariance, PTL

(* finishTurn ends a turn once, and a turn leaves the turns map only by    *)
(* its own end or with its conversation, although the agent's result, its  *)
(* exit, the timer of a Stop and every suspended retry may end it; the     *)
(* exception is LateFresh, which a run shows to happen.                    *)
THEOREM CliTurnsEndOnce == Spec => TurnsEndOnce
<1>1. IInv /\ [Next]_vars =>
        [LateFresh \/ \A t \in Turns :
           /\ turns'[t].end = turns[t].end \/ <<turns[t].end, turns'[t].end>> \in EndSteps
           /\ host.turn = t /\ host'.turn # t => turns'[t].end = "storing" \/ host'.gone]_vars
  BY NextKeeps DEF Kept, EndsWell
<1> QED
  BY <1>1, Invariance, PTL DEF Spec, TurnsEndOnce

=============================================================================
