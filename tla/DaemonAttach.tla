--------------------------- MODULE DaemonAttach ---------------------------
(***************************************************************************)
(* One paired machine: DaemonAttachService.ts on this computer, which      *)
(* pairs, persists, mounts and reconnects it over DaemonClient.ts, and the *)
(* grants and sessions of DaemonServer.ts on the other.                    *)
(*                                                                         *)
(* pair, reconnect and forget are asynchronous functions that may be under *)
(* way at the same time; each is an entry of ops.  A connection carries a  *)
(* hello, which the server may read after the client has given up, and the *)
(* frames of the server, several of which may come in one read.  The       *)
(* server answers a printed offer with a grant of its own; a new grant     *)
(* replaces the controller's former one.                                   *)
(***************************************************************************)
EXTENDS Integers, Sequences, FiniteSets

CONSTANTS
  MaxOps,      \* bound: calls of pair, reconnect and forget at one time
  MaxConns,    \* bound: connections at one time
  Paths,       \* addresses dialled at one time: 2 when LAN and tunnel race
  MaxDials,    \* bound: addresses of a pairing
  MaxInputs,   \* bound: what the users of both computers do
  MaxFaults    \* bound: connections that fail, and hellos refused by the lock

ASSUME AttachAssumption ==
  /\ {MaxConns, Paths, MaxDials, MaxInputs, MaxFaults} \subseteq Nat
  /\ MaxOps \in Nat \ {0}

VARIABLES
  desk,        \* the service's entries for the machine, and its row of paired-hosts.json
  ops,         \* the asynchronous calls
  conns,       \* the connections
  box,         \* the other computer's grant for this one
  count

vars == <<desk, ops, conns, box, count>>

Ops == 1 .. MaxOps
Conns == 1 .. MaxConns
Nobody == 0                \* no call, no connection
Offer == 0                 \* the printed secret; grants are counted from 1
None == -1                 \* no secret
Secrets == Nat \cup {None}
Errors == {"rejected", "kicked", "revoked"}

NoOp == [kind |-> "none", at |-> "done", secret |-> None, dials |-> 0]
NoConn == [client |-> "none", server |-> "gone", op |-> Nobody, auth |-> None, grant |-> None,
           leave |-> FALSE, inbox |-> << >>]

World == [desk |-> desk, ops |-> ops, conns |-> conns]
Become(w) == desk' = w.desk /\ ops' = w.ops /\ conns' = w.conns

(* The first free entry: which one it is makes no difference. *)
FreeOps == {o \in Ops : ops[o] = NoOp /\ \A p \in 1 .. o - 1 : ops[p] # NoOp}
(* A connection given up before the server has read it may still be read, or never. *)
FreeConns ==
  {c \in Conns : conns[c].client = "closed"}
    \cup {c \in Conns : conns[c] = NoConn /\ \A d \in 1 .. c - 1 : conns[d] # NoConn}

-----------------------------------------------------------------------------
(* Steps that the handlers share *)

(* client.close, socket.destroy *)
Hung(conn) ==
  IF conn.server = "hello" \/ (conn.server = "session" /\ conn.leave)
  THEN [conn EXCEPT !.client = "closed", !.op = Nobody, !.inbox = << >>]
  ELSE NoConn
HangUp(w, which) == [w EXCEPT !.conns = [c \in Conns |-> IF c \in which THEN Hung(@[c]) ELSE @[c]]]
Of(w, o) == {c \in Conns : w.conns[c].op = o}

(* An abort ends the calls of a kind that are still dialling.  Past their  *)
(* welcome the signal is not looked at again.                              *)
Abort(w, kind) ==
  LET hit == {o \in Ops : w.ops[o].kind = kind /\ w.ops[o].at = "dial"}
  IN [HangUp(w, UNION {Of(w, o) : o \in hit}) EXCEPT !.ops = [o \in Ops |-> IF o \in hit THEN NoOp ELSE @[o]]]
AbortReconnect(w) == [Abort(w, "reconnect") EXCEPT !.desk.timer = None]

(* scheduleReconnect; the timer holds the row as it was then. *)
ScheduleReconnect(w, secret) == [AbortReconnect(w) EXCEPT !.desk.timer = secret]

DetachLocal(w) ==
  [AbortReconnect(w) EXCEPT !.desk.client = Nobody, !.desk.host = "absent", !.desk.row = None]

\* Mutant of OnClosed: a machine that was refused is forgotten as well.
OnAnyError(w, reason) ==
  LET s == [HangUp(w, {w.desk.client}) EXCEPT !.desk.client = Nobody] IN
  IF reason \in Errors THEN DetachLocal(s)
  ELSE IF s.desk.row = None THEN s
  ELSE ScheduleReconnect([s EXCEPT !.desk.host = "offline"], s.desk.row)
(* The mounted client is closed: mount's onClose listener. *)
OnClosed(w, reason) ==
  LET s == [HangUp(w, {w.desk.client}) EXCEPT !.desk.client = Nobody] IN
  IF reason = "revoked" THEN DetachLocal(s)
  ELSE IF s.desk.row = None THEN s
  ELSE ScheduleReconnect([s EXCEPT !.desk.host = "offline"], s.desk.row)

\* Mutant of Mount: the client that was mounted before stays open.
MountOver(w, c) == [w EXCEPT !.desk.client = c, !.desk.host = "online"]
(* mount closes the former client while that is still the one in the map. *)
Mount(w, c) ==
  LET s == IF w.desk.client = Nobody THEN w ELSE OnClosed(w, "closed")
  IN [s EXCEPT !.desk.client = c, !.desk.host = "online"]

Remember(w, secret) == [w EXCEPT !.desk.row = secret]

Begin(w, o, kind, at, secret) ==
  [w EXCEPT !.ops[o] = [kind |-> kind, at |-> at, secret |-> secret, dials |-> 0]]

-----------------------------------------------------------------------------
(* The user of this computer *)

Input == count.inputs < MaxInputs /\ count' = [count EXCEPT !.inputs = @ + 1]

(* pair, up to its first dial: it replaces a pairing that still dials. *)
Pair ==
  /\ Input
  /\ LET w == Abort(World, "pair") IN
     \E o \in {p \in Ops : w.ops[p] = NoOp /\ \A q \in 1 .. p - 1 : w.ops[q] # NoOp} :
       Become(Begin(w, o, "pair", "dial", Offer))
  /\ UNCHANGED box

CancelPair ==
  /\ Input
  /\ \E o \in Ops : ops[o].kind = "pair" /\ ops[o].at = "dial"
  /\ Become(Abort(World, "pair")) /\ UNCHANGED box

\* Mutant of Forget: a reconnect under way goes on.
ForgetOnly ==
  /\ Input /\ desk.row # None /\ UNCHANGED box
  /\ LET s == [World EXCEPT !.desk.row = None, !.desk.host = "absent", !.desk.client = Nobody] IN
     IF desk.client = Nobody THEN Become(s)
     ELSE \E o \in FreeOps :
            Become([Begin(s, o, "forget", "leave", None) EXCEPT !.conns[desk.client].op = o, !.conns[desk.client].leave = TRUE])
(* forget; it asks a connected machine to drop the grant, and closes the client after the answer. *)
Forget ==
  /\ Input /\ desk.row # None /\ UNCHANGED box
  /\ LET s == DetachLocal(World) IN
     IF desk.client = Nobody THEN Become(s)
     ELSE \E o \in FreeOps :
            Become([Begin(s, o, "forget", "leave", None) EXCEPT !.conns[desk.client].op = o, !.conns[desk.client].leave = TRUE])

(* Quit or crash, and the next start, whose restore reconnects what is stored. *)
Restart ==
  /\ Input
  /\ LET s == [HangUp(World, {c \in Conns : conns[c].client = "open"})
                 EXCEPT !.ops = [o \in Ops |-> NoOp], !.desk.client = Nobody, !.desk.timer = None, !.desk.host = "absent"]
     IN Become(IF desk.row = None THEN s ELSE Begin(s, 1, "reconnect", "dial", desk.row))
  /\ UNCHANGED box

-----------------------------------------------------------------------------
(* The asynchronous calls *)

(* The reconnect timer. *)
Fire ==
  /\ desk.timer # None
  /\ \E o \in FreeOps : Become(Begin(AbortReconnect(World), o, "reconnect", "dial", desk.timer))
  /\ UNCHANGED <<box, count>>

(* dial: the next address, or both paths of raceTunnelAndLan. *)
Dial(o) ==
  /\ ops[o].at = "dial" /\ ops[o].dials < MaxDials /\ Cardinality(Of(World, o)) < Paths
  /\ \E c \in FreeConns :
       conns' = [conns EXCEPT ![c] = [NoConn EXCEPT !.client = "open", !.server = "hello", !.op = o, !.auth = ops[o].secret]]
  /\ ops' = [ops EXCEPT ![o].dials = @ + 1]
  /\ UNCHANGED <<desk, box, count>>

\* Mutant of DialsFail: reconnect gives up.
GivesUp(o) ==
  /\ ops[o].at = "dial" /\ ops[o].dials > 0 /\ Of(World, o) = {}
  /\ LET s == [World EXCEPT !.ops[o] = NoOp] IN
     Become(IF ops[o].kind = "pair" THEN s ELSE [s EXCEPT !.desk.host = "offline"])
  /\ UNCHANGED <<box, count>>
(* No address answered: pair returns the error, reconnect shows the machine offline and tries again. *)
DialsFail(o) ==
  /\ ops[o].at = "dial" /\ ops[o].dials > 0 /\ Of(World, o) = {}
  /\ LET s == [World EXCEPT !.ops[o] = NoOp] IN
     Become(IF ops[o].kind = "pair" THEN s
            ELSE ScheduleReconnect([s EXCEPT !.desk.host = "offline"], ops[o].secret))
  /\ UNCHANGED <<box, count>>

(* The first welcome wins: pair and reconnect go on to their next await    *)
(* before anything else is read, except what came in the same read.        *)
Welcomed(c) ==
  /\ conns[c].client = "open" /\ conns[c].op # Nobody /\ ops[conns[c].op].at = "dial"
  /\ conns[c].inbox # << >> /\ Head(conns[c].inbox) = "welcome"
  /\ LET o == conns[c].op
         won == [HangUp(World, Of(World, o) \ {c}) EXCEPT
                   !.conns[c] = [@ EXCEPT !.op = Nobody, !.inbox = Tail(conns[c].inbox)],
                   !.ops[o] = [@ EXCEPT !.at = "attached", !.secret = conns[c].grant]]
         stored == IF ops[o].kind = "pair" THEN Remember(won, conns[c].grant) ELSE won
         mounted == Mount(stored, c)
     IN \/ Become(mounted)
        \/ /\ Len(conns[c].inbox) > 1 /\ conns[c].inbox[2] \in Errors
           /\ Become([HangUp(mounted, {c}) EXCEPT !.desk.client = Nobody])
  /\ UNCHANGED <<box, count>>

(* connect rejects. *)
Refused(c) ==
  /\ conns[c].client = "open" /\ conns[c].op # Nobody /\ ops[conns[c].op].at = "dial"
  /\ conns[c].inbox # << >> /\ Head(conns[c].inbox) # "welcome"
  /\ Become(HangUp(World, {c})) /\ UNCHANGED <<box, count>>

(* An error frame, or the end of the socket, reaches the mounted client. *)
Lose ==
  /\ desk.client # Nobody /\ conns[desk.client].inbox # << >>
  /\ Become(OnClosed(World, Head(conns[desk.client].inbox))) /\ UNCHANGED <<box, count>>

(* pendingControl and onHostAttached are over: reconnect stores the row. *)
Attached(o) ==
  /\ ops[o].at = "attached"
  /\ LET s == [World EXCEPT !.ops[o] = NoOp] IN
     Become(IF ops[o].kind = "reconnect" THEN Remember(s, ops[o].secret) ELSE s)
  /\ UNCHANGED <<box, count>>

(* forget has its answer, or has waited for it long enough. *)
ForgetEnds(o) ==
  /\ ops[o].at = "leave"
  /\ Become([HangUp(World, Of(World, o)) EXCEPT !.ops[o] = NoOp]) /\ UNCHANGED <<box, count>>

-----------------------------------------------------------------------------
(* The other computer *)

Serve(c, server, grant, frames) ==
  conns' = [conns EXCEPT ![c] = IF @.client = "open"
                                THEN [@ EXCEPT !.server = server, !.grant = grant, !.inbox = conns[c].inbox \o frames]
                                ELSE NoConn]

(* authenticateDaemonHello *)
HelloArrives(c) ==
  /\ conns[c].server = "hello"
  /\ \/ /\ conns[c].auth = box.grant /\ UNCHANGED box
        /\ Serve(c, "session", box.grant, <<"welcome">>)
     \/ /\ conns[c].auth = Offer
        /\ box' = [box EXCEPT !.grant = box.issued + 1, !.issued = @ + 1]
        /\ Serve(c, "session", box.issued + 1, <<"welcome">>)
     \/ /\ conns[c].auth \notin {box.grant, Offer} /\ UNCHANGED box
        /\ Serve(c, "gone", None, <<"rejected", "close">>)
  /\ UNCHANGED <<desk, ops, count>>

(* authLocked: after failures from its address even a valid hello is refused. *)
Locked(c) ==
  /\ conns[c].server = "hello" /\ count.faults < MaxFaults /\ count' = [count EXCEPT !.faults = @ + 1]
  /\ Serve(c, "gone", None, <<"rejected", "close">>) /\ UNCHANGED <<desk, ops, box>>

(* dropGrantSockets: the last line may be lost with the socket. *)
DropSessions(grant, error) ==
  \E told \in BOOLEAN :
    conns' = [c \in Conns |->
                IF conns[c].server # "session" \/ conns[c].grant # grant THEN conns[c]
                ELSE IF conns[c].client # "open" THEN NoConn
                ELSE [conns[c] EXCEPT !.server = "gone", !.leave = FALSE,
                                      !.inbox = @ \o (IF told THEN <<error, "close">> ELSE <<"close">>)]]

UnpairGrant(grant) ==
  /\ box' = [box EXCEPT !.grant = IF @ = grant THEN None ELSE @, !.unpaired = @ \cup {grant}]
  /\ DropSessions(grant, "revoked") /\ UNCHANGED <<desk, ops>>

Unpair == Input /\ box.grant # None /\ UnpairGrant(box.grant)

DisconnectGrant ==
  /\ Input /\ box.grant # None /\ DropSessions(box.grant, "kicked") /\ UNCHANGED <<desk, ops, box>>

(* The request pair.leave. *)
LeaveArrives(c) ==
  /\ conns[c].leave /\ conns[c].server = "session"
  /\ UnpairGrant(conns[c].grant) /\ UNCHANGED count

(* A connection fails; what is on its way to the client may be lost with it. *)
Cut(c) ==
  /\ count.faults < MaxFaults /\ count' = [count EXCEPT !.faults = @ + 1]
  /\ conns[c].client = "open" /\ conns[c].server # "gone"
  /\ \E kept \in {<< >>, conns[c].inbox} :
       conns' = [conns EXCEPT ![c] = [@ EXCEPT !.server = "gone", !.leave = FALSE, !.inbox = Append(kept, "close")]]
  /\ UNCHANGED <<desk, ops, box>>

-----------------------------------------------------------------------------
Init ==
  /\ desk = [row |-> None, client |-> Nobody, host |-> "absent", timer |-> None]
  /\ ops = [o \in Ops |-> NoOp]
  /\ conns = [c \in Conns |-> NoConn]
  /\ box = [grant |-> None, issued |-> 0, unpaired |-> {}]
  /\ count = [inputs |-> 0, faults |-> 0]

Calls == Fire \/ Lose \/ \E o \in Ops : Dial(o) \/ DialsFail(o) \/ Attached(o) \/ ForgetEnds(o)
Reads == \E c \in Conns : Welcomed(c) \/ Refused(c) \/ HelloArrives(c) \/ LeaveArrives(c)
Users == Pair \/ CancelPair \/ Forget \/ Restart \/ Unpair \/ DisconnectGrant
Next == Calls \/ Reads \/ Users \/ \E c \in Conns : Cut(c) \/ Locked(c)

Spec == Init /\ [][Next]_vars

(* Timers fire, awaited calls return or time out, and what is sent over a  *)
(* connection that lasts arrives.                                          *)
Fairness ==
  /\ WF_vars(Fire) /\ WF_vars(Lose)
  /\ \A o \in Ops : WF_vars(Dial(o)) /\ WF_vars(DialsFail(o)) /\ WF_vars(Attached(o)) /\ WF_vars(ForgetEnds(o))
  /\ \A c \in Conns : WF_vars(Welcomed(c)) /\ WF_vars(Refused(c)) /\ WF_vars(conns[c].client = "open" /\ HelloArrives(c))
FairSpec == Spec /\ Fairness

-----------------------------------------------------------------------------
(* Types. *)
DeskType == [row : Secrets, client : Conns \cup {Nobody}, host : {"absent", "online", "offline"}, timer : Secrets]
OpType == [kind : {"none", "pair", "reconnect", "forget"}, at : {"dial", "attached", "leave", "done"},
           secret : Secrets, dials : 0 .. MaxDials]
ConnType == [client : {"none", "open", "closed"}, server : {"hello", "session", "gone"}, op : Ops \cup {Nobody},
             auth : Secrets, grant : Secrets, leave : BOOLEAN, inbox : Seq({"welcome", "close"} \cup Errors)]

TypeOK ==
  /\ desk \in DeskType
  /\ ops \in [Ops -> OpType]
  /\ conns \in [Conns -> ConnType]
  /\ box \in [grant : Secrets, issued : Nat, unpaired : SUBSET Secrets]
  /\ count \in [inputs : 0 .. MaxInputs, faults : 0 .. MaxFaults]

RegisteredIsStored == desk.host # "absent" => desk.row # None
OfflineIsRetried ==
  desk.host = "offline" =>
    desk.timer # None \/ (\E o \in Ops : ops[o].kind = "reconnect" /\ ops[o].at = "dial")

(* What the host list shows is true of the calls that go on behind it: a   *)
(* machine that is listed is stored, so a reconnect that a Forget overtook *)
(* does not list it again, and one shown offline is being tried again, or  *)
(* will be, whatever was refused, replaced or aborted meanwhile.           *)
ListedIsKept == RegisteredIsStored /\ OfflineIsRetried

(* Whatever races, cancels and replacements there were, a connection that  *)
(* is open is the mounted one, or one that a call still waits for.         *)
NoLeaks ==
  \A c \in Conns : conns[c].client = "open" =>
    c = desk.client \/ (conns[c].op # Nobody /\ ops[conns[c].op].at \in {"dial", "leave"})

(* Only its user, or the other computer's removal of the very grant it is  *)
(* connected with, takes a machine off the list: no refusal, Disconnect,   *)
(* lost connection or late answer to an earlier pairing does.              *)
OnlyRevokesForget ==
  [][desk.row # None /\ desk'.row = None =>
       Forget \/ (desk.client # Nobody /\ conns[desk.client].grant \in box.unpaired)]_vars

(* When connections last, a machine that is shown offline and whose stored *)
(* grant is valid is mounted again.  The client it is mounted with may be  *)
(* closed already (see Welcomed), and a mounted machine may be shown       *)
(* offline by a reconnect that began before it (see DialsFail).            *)
ComesBack ==
  (desk.host = "offline" /\ desk.row = box.grant)
    ~> (desk.host # "offline" \/ desk.client # Nobody \/ desk.row # box.grant)
=============================================================================
