------------------------- MODULE DaemonAttachProofs -------------------------
(***************************************************************************)
(* The safety properties of DaemonAttach, for all bounds.  A handler is an *)
(* operator from world to world, so the inductive invariant is one about   *)
(* worlds, and each operator has a lemma that says what it preserves.      *)
(***************************************************************************)
EXTENDS DaemonAttach, TLAPS

Typed(w) == w \in [desk : DeskType, ops : [Ops -> OpType], conns : [Conns -> ConnType]]

Dials(w, o, kind) == w.ops[o].kind = kind /\ w.ops[o].at = "dial"

(* A machine that is not stored is not listed, mounted or dialled again. *)
Kept(w) ==
  w.desk.row = None =>
    /\ w.desk.host = "absent" /\ w.desk.timer = None /\ w.desk.client = Nobody
    /\ \A o \in Ops : ~Dials(w, o, "reconnect")

Retried(w) == w.desk.host = "offline" => w.desk.timer # None \/ \E o \in Ops : Dials(w, o, "reconnect")

(* A call that dials, or has just mounted, has a secret; forget dials nobody. *)
Secret(w) ==
  \A o \in Ops :
    /\ w.ops[o].at \in {"dial", "attached"} => w.ops[o].secret # None
    /\ w.ops[o].at = "dial" => w.ops[o].kind \in {"pair", "reconnect"}

(* The mounted client is open and nobody else waits for it. *)
Mounted(w) == w.desk.client # Nobody => w.conns[w.desk.client].client = "open" /\ w.conns[w.desk.client].op = Nobody

(* A welcome comes with a grant, and what is said to be revoked was removed. *)
Meant(frame, grant, unpaired) == (frame = "welcome" => grant # None) /\ (frame = "revoked" => grant \in unpaired)

(* A hello that was not read has a secret and no answer. *)
Answered(w) ==
  \A c \in Conns :
    /\ w.conns[c].server = "hello" => w.conns[c].auth # None /\ w.conns[c].inbox = << >>
    /\ \A i \in 1 .. Len(w.conns[c].inbox) : Meant(w.conns[c].inbox[i], w.conns[c].grant, box.unpaired)

(* Every open connection but the one in hand is mounted or waited for. *)
Tidy(w, hand) ==
  \A c \in Conns : w.conns[c].client = "open" =>
    c = w.desk.client \/ c = hand \/ (w.conns[c].op # Nobody /\ w.ops[w.conns[c].op].at \in {"dial", "leave"})

Sound(w, hand) == Typed(w) /\ Kept(w) /\ Secret(w) /\ Mounted(w) /\ Answered(w) /\ Tidy(w, hand)
WInv(w) == Sound(w, Nobody) /\ Retried(w)

Rest == box \in [grant : Secrets, issued : Nat, unpaired : SUBSET Secrets]
        /\ count \in [inputs : 0 .. MaxInputs, faults : 0 .. MaxFaults]
IInv == WInv(World) /\ Rest

-----------------------------------------------------------------------------
(* What the shared steps return *)

LEMMA NobodyIsNoCall == Nobody \notin Ops /\ Nobody \notin Conns
BY DEF Nobody, Ops, Conns

LEMMA NoConnType == NoConn \in ConnType /\ NoOp \in OpType
BY AttachAssumption DEF NoConn, ConnType, NoOp, OpType, Nobody, None, Secrets

LEMMA HungType ==
  ASSUME NEW conn \in ConnType
  PROVE  /\ Hung(conn) \in ConnType
         /\ Hung(conn).client # "open" /\ Hung(conn).op = Nobody /\ Hung(conn).inbox = << >>
         /\ Hung(conn).server = "hello" => conn.server = "hello" /\ Hung(conn).auth = conn.auth
<1> DEFINE closed == [client |-> "closed", server |-> conn.server, op |-> Nobody, auth |-> conn.auth,
                      grant |-> conn.grant, leave |-> conn.leave, inbox |-> << >>]
<1>1. Hung(conn) \in {closed, NoConn}
  BY DEF Hung, ConnType
<1>2. closed \in ConnType
  BY DEF ConnType, Nobody
<1>3. NoConn.client = "none" /\ NoConn.server = "gone" /\ NoConn.op = Nobody /\ NoConn.inbox = << >>
  BY DEF NoConn
<1> QED
  BY <1>1, <1>2, <1>3, NoConnType

LEMMA HangUpIs ==
  ASSUME NEW w, Typed(w), NEW which
  PROVE  /\ Typed(HangUp(w, which))
         /\ HangUp(w, which).desk = w.desk /\ HangUp(w, which).ops = w.ops
         /\ \A c \in Conns : HangUp(w, which).conns[c] = IF c \in which THEN Hung(w.conns[c]) ELSE w.conns[c]
<1>1. \A c \in Conns : Hung(w.conns[c]) \in ConnType
  BY HungType DEF Typed
<1> QED
  BY <1>1 DEF HangUp, Typed

(* Hanging up calls and connections that nobody has mounted. *)
LEMMA HangUpKeeps ==
  ASSUME NEW w, NEW which, NEW hand, Sound(w, hand), w.desk.client \notin which
  PROVE  Sound(HangUp(w, which), hand)
<1> DEFINE u == HangUp(w, which)
<1>1. /\ Typed(u) /\ u.desk = w.desk /\ u.ops = w.ops
      /\ \A c \in Conns : u.conns[c] = IF c \in which THEN Hung(w.conns[c]) ELSE w.conns[c]
  BY HangUpIs DEF Sound
<1>2. \A c \in Conns : w.conns[c] \in ConnType
  BY DEF Sound, Typed
<1>3. Kept(u) /\ Secret(u)
  BY <1>1 DEF Sound, Kept, Secret, Dials
<1>4. Mounted(u)
  BY <1>1 DEF Sound, Typed, DeskType, Mounted, Nobody
<1>5. Answered(u)
  BY <1>1, <1>2, HungType DEF Sound, Answered
<1>6. Tidy(u, hand)
  BY <1>1, <1>2, HungType DEF Sound, Tidy
<1> QED
  BY <1>1, <1>3, <1>4, <1>5, <1>6 DEF Sound

(* An abort ends the calls of its kind that dial, and nothing that lasts. *)
LEMMA AbortKeeps ==
  ASSUME NEW w, NEW kind \in {"pair", "reconnect"}, NEW hand, Sound(w, hand)
  PROVE  /\ Sound(Abort(w, kind), hand)
         /\ Abort(w, kind).desk = w.desk
         /\ \A o \in Ops : Abort(w, kind).ops[o] = IF Dials(w, o, kind) THEN NoOp ELSE w.ops[o]
         /\ \A c \in Conns : w.conns[c].op = Nobody => Abort(w, kind).conns[c] = w.conns[c]
<1> DEFINE hit == {o \in Ops : w.ops[o].kind = kind /\ w.ops[o].at = "dial"}
           which == UNION {Of(w, o) : o \in hit}
           u == HangUp(w, which)
           v == [u EXCEPT !.ops = [o \in Ops |-> IF o \in hit THEN NoOp ELSE u.ops[o]]]
<1>0. Abort(w, kind) = v
  BY DEF Abort
<1>1. \A c \in Conns : c \in which <=> w.conns[c].op \in hit
  BY DEF Of
<1>2. w.desk.client \notin which
  BY <1>1, NobodyIsNoCall DEF Sound, Typed, DeskType, Mounted, Of
<1>3. Sound(u, hand)
  BY <1>2, HangUpKeeps
<1>4. /\ Typed(u) /\ u.desk = w.desk /\ u.ops = w.ops
      /\ \A c \in Conns : u.conns[c] = IF c \in which THEN Hung(w.conns[c]) ELSE w.conns[c]
  BY HangUpIs DEF Sound
<1> HIDE DEF u, hit, which
<1>5. /\ Typed(v) /\ v.desk = u.desk /\ v.conns = u.conns
      /\ \A o \in Ops : v.ops[o] = IF o \in hit THEN NoOp ELSE u.ops[o]
  BY <1>4, NoConnType DEF Typed
<1>6. NoOp.kind = "none" /\ NoOp.at = "done"
  BY DEF NoOp
<1>7. Kept(v) /\ Secret(v) /\ Mounted(v) /\ Answered(v)
  BY <1>3, <1>5, <1>6 DEF Sound, Kept, Secret, Mounted, Answered, Dials
<1>8. \A c \in Conns : u.conns[c].client = "open" => u.conns[c].op \notin hit
  BY <1>1, <1>4, HungType DEF Sound, Typed
<1>9. Tidy(v, hand)
  BY <1>3, <1>5, <1>8, <1>4 DEF Sound, Tidy, Typed, ConnType
<1>10. \A c \in Conns : w.conns[c].op = Nobody => v.conns[c] = w.conns[c]
  BY <1>1, <1>4, <1>5, NobodyIsNoCall DEF hit
<1> QED
  BY <1>0, <1>4, <1>5, <1>7, <1>9, <1>10 DEF Sound, Dials, hit

LEMMA AbortReconnectKeeps ==
  ASSUME NEW w, NEW hand, Sound(w, hand)
  PROVE  LET u == AbortReconnect(w) IN
         /\ Sound(u, hand)
         /\ u.desk = [w.desk EXCEPT !.timer = None]
         /\ \A o \in Ops : u.ops[o] = IF Dials(w, o, "reconnect") THEN NoOp ELSE w.ops[o]
         /\ \A c \in Conns : w.conns[c].op = Nobody => u.conns[c] = w.conns[c]
<1> DEFINE a == Abort(w, "reconnect")
           u == [a EXCEPT !.desk.timer = None]
<1>1. /\ Sound(a, hand) /\ a.desk = w.desk
      /\ \A o \in Ops : a.ops[o] = IF Dials(w, o, "reconnect") THEN NoOp ELSE w.ops[o]
      /\ \A c \in Conns : w.conns[c].op = Nobody => a.conns[c] = w.conns[c]
  BY AbortKeeps
<1> HIDE DEF a
<1>2. /\ Typed(u) /\ u.ops = a.ops /\ u.conns = a.conns
      /\ u.desk = [a.desk EXCEPT !.timer = None]
      /\ u.desk.row = a.desk.row /\ u.desk.client = a.desk.client /\ u.desk.host = a.desk.host
      /\ u.desk.timer = None
  BY <1>1 DEF Sound, Typed, DeskType, Secrets
<1>3. Sound(u, hand)
  BY <1>1, <1>2 DEF Sound, Kept, Secret, Mounted, Answered, Tidy, Dials
<1> QED
  BY <1>1, <1>2, <1>3 DEF AbortReconnect, a

(* Showing a stored machine offline and arming the timer. *)
LEMMA ScheduleKeeps ==
  ASSUME NEW w, NEW hand, Sound(w, hand), w.desk.row # None, NEW secret \in Secrets, secret # None
  PROVE  LET u == ScheduleReconnect([w EXCEPT !.desk.host = "offline"], secret) IN
         /\ Sound(u, hand) /\ Retried(u)
         /\ u.desk.row = w.desk.row /\ u.desk.client = w.desk.client
         /\ \A o \in Ops : u.ops[o] = IF Dials(w, o, "reconnect") THEN NoOp ELSE w.ops[o]
         /\ \A c \in Conns : w.conns[c].op = Nobody => u.conns[c] = w.conns[c]
<1> DEFINE s == [w EXCEPT !.desk.host = "offline"]
           a == AbortReconnect(s)
           u == [a EXCEPT !.desk.timer = secret]
<1>1. /\ Typed(s) /\ s.ops = w.ops /\ s.conns = w.conns
      /\ s.desk.row = w.desk.row /\ s.desk.client = w.desk.client /\ s.desk.timer = w.desk.timer
  BY DEF Sound, Typed, DeskType
<1>2. Sound(s, hand)
  BY <1>1 DEF Sound, Kept, Secret, Mounted, Answered, Tidy, Dials
<1> HIDE DEF s
<1>3. /\ Sound(a, hand) /\ a.desk = [s.desk EXCEPT !.timer = None]
      /\ \A o \in Ops : a.ops[o] = IF Dials(s, o, "reconnect") THEN NoOp ELSE s.ops[o]
      /\ \A c \in Conns : s.conns[c].op = Nobody => a.conns[c] = s.conns[c]
  BY <1>2, AbortReconnectKeeps
<1> HIDE DEF a
<1>4. a.desk.row = w.desk.row /\ a.desk.client = w.desk.client
  BY <1>1, <1>3 DEF Typed, DeskType
<1>5. /\ Typed(u) /\ u.ops = a.ops /\ u.conns = a.conns
      /\ u.desk.row = a.desk.row /\ u.desk.client = a.desk.client /\ u.desk.timer = secret
  BY <1>3 DEF Sound, Typed, DeskType
<1>6. Sound(u, hand) /\ Retried(u)
  BY <1>3, <1>4, <1>5 DEF Sound, Kept, Secret, Mounted, Answered, Tidy, Dials, Retried
<1> QED
  BY <1>1, <1>3, <1>4, <1>5, <1>6 DEF ScheduleReconnect, s, a, Dials

(* Forgetting a machine whose client was closed, or is taken over by hand. *)
LEMMA DetachKeeps ==
  ASSUME NEW w, NEW hand, Sound(w, hand)
  PROVE  LET u == DetachLocal(w) IN
         /\ Typed(u) /\ Kept(u) /\ Secret(u) /\ Mounted(u) /\ Answered(u) /\ Retried(u)
         /\ w.desk.client \in {Nobody, hand} => Sound(u, hand)
         /\ u.desk.client = Nobody
         /\ \A c \in Conns : w.conns[c].op = Nobody => u.conns[c] = w.conns[c]
         /\ \A o \in Ops : u.ops[o] = IF Dials(w, o, "reconnect") THEN NoOp ELSE w.ops[o]
         /\ \A c \in Conns : u.conns[c].client = "open" =>
              c = w.desk.client \/ c = hand \/ (u.conns[c].op # Nobody /\ u.ops[u.conns[c].op].at \in {"dial", "leave"})
<1> DEFINE a == AbortReconnect(w)
           u == [a EXCEPT !.desk.client = Nobody, !.desk.host = "absent", !.desk.row = None]
<1>1. /\ Sound(a, hand) /\ a.desk = [w.desk EXCEPT !.timer = None]
      /\ \A o \in Ops : a.ops[o] = IF Dials(w, o, "reconnect") THEN NoOp ELSE w.ops[o]
      /\ \A c \in Conns : w.conns[c].op = Nobody => a.conns[c] = w.conns[c]
  BY AbortReconnectKeeps
<1> HIDE DEF a
<1>2. w.desk \in DeskType
  BY DEF Sound, Typed
<1>3. a.desk \in DeskType /\ a.desk.timer = None /\ a.desk.client = w.desk.client
  BY <1>1, <1>2 DEF DeskType, Secrets
<1>4. /\ Typed(u) /\ u.ops = a.ops /\ u.conns = a.conns
      /\ u.desk.row = None /\ u.desk.client = Nobody /\ u.desk.host = "absent" /\ u.desk.timer = None
  BY <1>1, <1>3 DEF Sound, Typed, DeskType, Nobody, Secrets
<1>5. \A o \in Ops : ~Dials(a, o, "reconnect")
  BY <1>1 DEF Dials, NoOp
<1>6. Kept(u) /\ Secret(u) /\ Mounted(u) /\ Answered(u) /\ Retried(u)
  BY <1>1, <1>4, <1>5 DEF Sound, Kept, Secret, Mounted, Answered, Dials, Retried
<1>7. \A c \in Conns : u.conns[c].client = "open" =>
        c = w.desk.client \/ c = hand \/ (u.conns[c].op # Nobody /\ u.ops[u.conns[c].op].at \in {"dial", "leave"})
  BY <1>1, <1>3, <1>4 DEF Sound, Tidy
<1>8. w.desk.client \in {Nobody, hand} => Tidy(u, hand)
  BY <1>7, NobodyIsNoCall DEF Tidy
<1> QED
  BY <1>1, <1>4, <1>6, <1>7, <1>8 DEF DetachLocal, a, Sound

(* The mounted client is hung up and taken out of the map. *)
LEMMA DropClient ==
  ASSUME NEW w, NEW hand, Sound(w, hand), w.desk.client # Nobody
  PROVE  LET s == [HangUp(w, {w.desk.client}) EXCEPT !.desk.client = Nobody] IN
         /\ Sound(s, hand)
         /\ s.desk.row = w.desk.row /\ s.desk.host = w.desk.host /\ s.desk.timer = w.desk.timer
         /\ s.desk.client = Nobody /\ s.ops = w.ops
         /\ \A c \in Conns \ {w.desk.client} : s.conns[c] = w.conns[c]
<1> DEFINE which == {w.desk.client}
           h == HangUp(w, which)
           s == [h EXCEPT !.desk.client = Nobody]
<1>1. /\ Typed(h) /\ h.desk = w.desk /\ h.ops = w.ops
      /\ \A c \in Conns : h.conns[c] = IF c \in which THEN Hung(w.conns[c]) ELSE w.conns[c]
  BY HangUpIs DEF Sound
<1> HIDE DEF h
<1>2. /\ Typed(s) /\ s.ops = w.ops /\ s.conns = h.conns /\ s.desk.client = Nobody
      /\ s.desk.row = w.desk.row /\ s.desk.host = w.desk.host /\ s.desk.timer = w.desk.timer
  BY <1>1 DEF Typed, DeskType, Nobody
<1>3. \A c \in Conns : w.conns[c] \in ConnType
  BY DEF Sound, Typed
<1>4. Kept(s) /\ Secret(s) /\ Mounted(s)
  BY <1>1, <1>2 DEF Sound, Kept, Secret, Mounted, Dials
<1>5. Answered(s)
  BY <1>1, <1>2, <1>3, HungType DEF Sound, Answered
<1>6. Tidy(s, hand)
  BY <1>1, <1>2, <1>3, HungType DEF Sound, Tidy
<1> QED
  BY <1>1, <1>2, <1>4, <1>5, <1>6 DEF Sound, h

(* mount's listener. *)
LEMMA OnClosedKeeps ==
  ASSUME NEW w, NEW hand, Sound(w, hand), w.desk.client # Nobody, NEW reason
  PROVE  LET u == OnClosed(w, reason) IN
         /\ Sound(u, hand) /\ Retried(u) /\ u.desk.client = Nobody
         /\ reason # "revoked" => u.desk.row = w.desk.row
         /\ \A o \in Ops : u.ops[o] = IF Dials(w, o, "reconnect") THEN NoOp ELSE w.ops[o]
         /\ \A c \in Conns \ {w.desk.client} : w.conns[c].op = Nobody => u.conns[c] = w.conns[c]
<1> DEFINE s == [HangUp(w, {w.desk.client}) EXCEPT !.desk.client = Nobody]
<1>1. /\ Sound(s, hand)
      /\ s.desk.row = w.desk.row /\ s.desk.host = w.desk.host /\ s.desk.timer = w.desk.timer
      /\ s.desk.client = Nobody /\ s.ops = w.ops
      /\ \A c \in Conns \ {w.desk.client} : s.conns[c] = w.conns[c]
  BY DropClient
<1>2. w.desk.row \in Secrets /\ w.desk.row # None
  BY DEF Sound, Typed, DeskType, Kept
<1>3. OnClosed(w, reason) = IF reason = "revoked" THEN DetachLocal(s)
                            ELSE ScheduleReconnect([s EXCEPT !.desk.host = "offline"], s.desk.row)
  BY <1>1, <1>2 DEF OnClosed
<1> HIDE DEF s
<1>4. CASE reason = "revoked"
  <2> DEFINE u == DetachLocal(s)
  <2>1. /\ Sound(u, hand) /\ Retried(u) /\ u.desk.client = Nobody
        /\ \A o \in Ops : u.ops[o] = IF Dials(s, o, "reconnect") THEN NoOp ELSE s.ops[o]
        /\ \A c \in Conns : s.conns[c].op = Nobody => u.conns[c] = s.conns[c]
    BY <1>1, DetachKeeps
  <2> HIDE DEF u
  <2>2. OnClosed(w, reason) = u
    BY <1>3, <1>4 DEF u
  <2> QED
    BY <1>1, <1>4, <2>1, <2>2 DEF Dials
<1>5. CASE reason # "revoked"
  <2> DEFINE u == ScheduleReconnect([s EXCEPT !.desk.host = "offline"], s.desk.row)
  <2>0. s.desk.row \in Secrets /\ s.desk.row # None
    BY <1>1, <1>2
  <2>1. /\ Sound(u, hand) /\ Retried(u) /\ u.desk.row = s.desk.row /\ u.desk.client = Nobody
        /\ \A o \in Ops : u.ops[o] = IF Dials(s, o, "reconnect") THEN NoOp ELSE s.ops[o]
        /\ \A c \in Conns : s.conns[c].op = Nobody => u.conns[c] = s.conns[c]
    BY <1>1, <2>0, ScheduleKeeps
  <2> HIDE DEF u
  <2>2. OnClosed(w, reason) = u
    BY <1>3, <1>5 DEF u
  <2> QED
    BY <1>1, <1>5, <2>1, <2>2 DEF Dials
<1> QED
  BY <1>4, <1>5

(* mount of the connection in hand, for a machine that is stored. *)
LEMMA MountKeeps ==
  ASSUME NEW w, NEW c \in Conns, Sound(w, c), w.desk.row # None, w.desk.client # c,
         w.conns[c].client = "open", w.conns[c].op = Nobody
  PROVE  LET u == Mount(w, c) IN
         /\ WInv(u) /\ u.desk.client = c /\ u.desk.row = w.desk.row /\ u.desk.host = "online"
<1> DEFINE s == IF w.desk.client = Nobody THEN w ELSE OnClosed(w, "closed")
           u == [s EXCEPT !.desk.client = c, !.desk.host = "online"]
<1>1. Sound(s, c) /\ s.desk.row = w.desk.row /\ s.desk.client = Nobody /\ s.conns[c] = w.conns[c]
  BY OnClosedKeeps
<1> HIDE DEF s
<1>2. /\ Typed(u) /\ u.ops = s.ops /\ u.conns = s.conns /\ u.desk.client = c /\ u.desk.host = "online"
      /\ u.desk.row = s.desk.row /\ u.desk.timer = s.desk.timer
  BY <1>1 DEF Sound, Typed, DeskType
<1>3. Kept(u) /\ Secret(u) /\ Mounted(u) /\ Answered(u) /\ Retried(u)
  BY <1>1, <1>2 DEF Sound, Kept, Secret, Mounted, Answered, Retried, Dials
<1>4. Tidy(u, Nobody)
  BY <1>1, <1>2, NobodyIsNoCall DEF Sound, Tidy
<1> QED
  BY <1>1, <1>2, <1>3, <1>4 DEF Mount, s, WInv, Sound

(* A new call; hand is a connection that it may take over. *)
LEMMA BeginKeeps ==
  ASSUME NEW w, NEW hand, Sound(w, hand), NEW o \in Ops, w.ops[o] = NoOp,
         NEW kind \in {"pair", "reconnect", "forget"}, NEW at \in {"dial", "leave"}, NEW secret \in Secrets,
         at = "dial" => secret # None /\ kind # "forget", kind = "reconnect" => w.desk.row # None
  PROVE  LET u == Begin(w, o, kind, at, secret) IN
         /\ Sound(u, hand) /\ u.desk = w.desk /\ u.conns = w.conns
         /\ u.ops[o].at = at /\ \A p \in Ops \ {o} : u.ops[p] = w.ops[p]
         /\ Retried(w) => Retried(u)
         /\ kind = "reconnect" /\ at = "dial" => Retried(u)
<1> DEFINE new == [kind |-> kind, at |-> at, secret |-> secret, dials |-> 0]
           u == [w EXCEPT !.ops[o] = new]
<1>1. Begin(w, o, kind, at, secret) = u
  BY DEF Begin
<1>2. new \in OpType
  BY AttachAssumption DEF OpType
<1>3. new.kind = kind /\ new.at = at /\ new.secret = secret
  OBVIOUS
<1>4. NoOp.kind = "none" /\ NoOp.at = "done"
  BY DEF NoOp
<1> HIDE DEF new
<1>5. /\ Typed(u) /\ u.desk = w.desk /\ u.conns = w.conns
      /\ u.ops[o] = new /\ \A p \in Ops \ {o} : u.ops[p] = w.ops[p]
  BY <1>2 DEF Sound, Typed
<1> HIDE DEF u
<1>6. Kept(u)
  BY <1>3, <1>5 DEF Sound, Kept, Dials
<1>7. Secret(u)
  BY <1>3, <1>5 DEF Sound, Secret
<1>8. Mounted(u) /\ Answered(u)
  BY <1>5 DEF Sound, Mounted, Answered
<1>9. Tidy(u, hand)
  BY <1>3, <1>4, <1>5 DEF Sound, Tidy, Typed, ConnType
<1>10. Retried(w) => Retried(u)
  BY <1>3, <1>4, <1>5 DEF Retried, Dials
<1>11. kind = "reconnect" /\ at = "dial" => Retried(u)
  BY <1>3, <1>5 DEF Retried, Dials
<1> QED
  BY <1>1, <1>3, <1>5, <1>6, <1>7, <1>8, <1>9, <1>10, <1>11 DEF Sound

(* The end of a call that no open connection waits for. *)
LEMMA EndKeeps ==
  ASSUME NEW w, NEW hand, Sound(w, hand), NEW o \in Ops,
         \A c \in Conns : w.conns[c].client = "open" => w.conns[c].op # o
  PROVE  LET u == [w EXCEPT !.ops[o] = NoOp] IN
         /\ Sound(u, hand) /\ u.desk = w.desk /\ u.conns = w.conns
         /\ \A p \in Ops \ {o} : u.ops[p] = w.ops[p]
         /\ Retried(w) /\ ~Dials(w, o, "reconnect") => Retried(u)
<1> DEFINE u == [w EXCEPT !.ops[o] = NoOp]
<1>1. /\ Typed(u) /\ u.desk = w.desk /\ u.conns = w.conns
      /\ u.ops[o] = NoOp /\ \A p \in Ops \ {o} : u.ops[p] = w.ops[p]
  BY NoConnType DEF Sound, Typed
<1>2. NoOp.kind = "none" /\ NoOp.at = "done"
  BY DEF NoOp
<1> HIDE DEF u
<1>3. Kept(u)
  BY <1>1, <1>2 DEF Sound, Kept, Dials
<1>4. Secret(u)
  BY <1>1, <1>2 DEF Sound, Secret
<1>5. Mounted(u) /\ Answered(u)
  BY <1>1 DEF Sound, Mounted, Answered
<1>6. Tidy(u, hand)
  BY <1>1 DEF Sound, Tidy, Typed, ConnType
<1>7. Retried(w) /\ ~Dials(w, o, "reconnect") => Retried(u)
  BY <1>1 DEF Retried, Dials
<1> QED
  BY <1>1, <1>3, <1>4, <1>5, <1>6, <1>7 DEF u, Sound

(* remember; a stored machine stays stored. *)
LEMMA RememberKeeps ==
  ASSUME NEW w, NEW hand, Sound(w, hand), NEW secret \in Secrets, secret # None
  PROVE  LET u == Remember(w, secret) IN
         /\ Sound(u, hand) /\ u.ops = w.ops /\ u.conns = w.conns
         /\ u.desk.row = secret /\ u.desk.client = w.desk.client
         /\ Retried(w) => Retried(u)
<1> DEFINE u == [w EXCEPT !.desk.row = secret]
<1>1. /\ Typed(u) /\ u.ops = w.ops /\ u.conns = w.conns
      /\ u.desk.row = secret /\ u.desk.client = w.desk.client
      /\ u.desk.host = w.desk.host /\ u.desk.timer = w.desk.timer
  BY DEF Sound, Typed, DeskType
<1> HIDE DEF u
<1>2. Sound(u, hand)
  BY <1>1 DEF Sound, Kept, Secret, Mounted, Answered, Tidy
<1>3. Retried(w) => Retried(u)
  BY <1>1 DEF Retried, Dials
<1> QED
  BY <1>1, <1>2, <1>3 DEF Remember, u

(* A machine that is stored stays stored. *)
Stays == desk.row # None => desk'.row # None

LEMMA BecomeKeeps ==
  ASSUME NEW w, WInv(w), Become(w), box' = box
  PROVE  WInv(World)'
<1>1. w = [desk |-> w.desk, ops |-> w.ops, conns |-> w.conns]
  BY DEF WInv, Sound, Typed
<1>2. w = [desk |-> desk', ops |-> ops', conns |-> conns']
  BY <1>1 DEF Become
<1>3. WInv([desk |-> desk', ops |-> ops', conns |-> conns'])
  BY <1>2
<1> QED
  BY <1>3 DEF World, WInv, Sound, Typed, Kept, Secret, Mounted, Answered, Tidy, Retried, Dials

(* Steps of the network and of the other computer. *)
LEMMA ConnsKeep ==
  ASSUME WInv(World), desk' = desk, ops' = ops, conns' \in [Conns -> ConnType],
         \A c \in Conns :
           /\ (conns[c].client = "open") <=> (conns'[c].client = "open")
           /\ conns[c].client = "open" => conns'[c].op = conns[c].op
           /\ conns'[c].server = "hello" => conns'[c].auth # None /\ conns'[c].inbox = << >>
           /\ \A i \in 1 .. Len(conns'[c].inbox) : Meant(conns'[c].inbox[i], conns'[c].grant, box'.unpaired)
  PROVE  WInv(World)'
<1>1. Typed(World)' /\ Kept(World)' /\ Secret(World)' /\ Answered(World)' /\ Retried(World)'
  BY DEF WInv, Sound, Typed, World, Kept, Secret, Answered, Retried, Dials
<1>2. Mounted(World)' /\ Tidy(World, Nobody)'
  BY DEF WInv, Sound, Typed, World, DeskType, Mounted, Tidy, Nobody
<1> QED
  BY <1>1, <1>2 DEF WInv, Sound

-----------------------------------------------------------------------------
(* The user of this computer *)

LEMMA WorldIs == World.desk = desk /\ World.ops = ops /\ World.conns = conns
BY DEF World

LEMMA PairKeeps ==
  ASSUME WInv(World), Pair
  PROVE  WInv(World)' /\ Stays
<1> DEFINE w == Abort(World, "pair")
<1>1. /\ Sound(w, Nobody) /\ w.desk = World.desk
      /\ \A o \in Ops : w.ops[o] = IF Dials(World, o, "pair") THEN NoOp ELSE World.ops[o]
  BY AbortKeeps DEF WInv
<1>2. Retried(w)
  BY <1>1 DEF WInv, Retried, Dials
<1>3. PICK o \in Ops : w.ops[o] = NoOp /\ Become(Begin(w, o, "pair", "dial", Offer)) /\ box' = box
  BY DEF Pair
<1> HIDE DEF w
<1>4. Offer \in Secrets /\ Offer # None
  BY DEF Offer, None, Secrets
<1>5. WInv(Begin(w, o, "pair", "dial", Offer)) /\ Begin(w, o, "pair", "dial", Offer).desk = World.desk
  BY <1>1, <1>2, <1>3, <1>4, BeginKeeps DEF WInv
<1> QED
  BY <1>3, <1>5, BecomeKeeps, WorldIs DEF Become, Stays

LEMMA CancelPairKeeps ==
  ASSUME WInv(World), CancelPair
  PROVE  WInv(World)' /\ Stays
<1> DEFINE w == Abort(World, "pair")
<1>1. /\ Sound(w, Nobody) /\ w.desk = World.desk
      /\ \A o \in Ops : w.ops[o] = IF Dials(World, o, "pair") THEN NoOp ELSE World.ops[o]
  BY AbortKeeps DEF WInv
<1> HIDE DEF w
<1>2. WInv(w)
  BY <1>1 DEF WInv, Retried, Dials
<1>3. Become(w) /\ box' = box
  BY DEF CancelPair, w
<1> QED
  BY <1>1, <1>2, <1>3, BecomeKeeps, WorldIs DEF Become, Stays

(* forget hands the mounted client to the call that waits for the answer. *)
LEMMA ForgetKeeps ==
  ASSUME WInv(World), Forget
  PROVE  WInv(World)'
<1> DEFINE s == DetachLocal(World)
           client == World.desk.client
<1>1. Sound(World, client)
  BY NobodyIsNoCall DEF WInv, Sound, Tidy
<1>2. /\ Sound(s, client) /\ Retried(s) /\ s.desk.client = Nobody
      /\ \A c \in Conns : World.conns[c].op = Nobody => s.conns[c] = World.conns[c]
      /\ \A o \in Ops : s.ops[o] = IF Dials(World, o, "reconnect") THEN NoOp ELSE World.ops[o]
  BY <1>1, DetachKeeps
<1> HIDE DEF s
<1>3. CASE client = Nobody
  <2>1. Become(s) /\ WInv(s) /\ box' = box
    BY <1>2, <1>3, WorldIs DEF Forget, s, WInv
  <2> QED
    BY <2>1, BecomeKeeps
<1>4. CASE client # Nobody
  <2>1. PICK o \in FreeOps :
          Become([Begin(s, o, "forget", "leave", None) EXCEPT !.conns[desk.client].op = o, !.conns[desk.client].leave = TRUE]) /\ box' = box
    BY <1>4, WorldIs DEF Forget, s
  <2> DEFINE b == Begin(s, o, "forget", "leave", None)
             h == [b EXCEPT !.conns[client].op = o]
             u == [h EXCEPT !.conns[client].leave = TRUE]
  <2>2. o \in Ops /\ s.ops[o] = NoOp
    BY <1>2, WorldIs DEF FreeOps, Dials
  <2>3. None \in Secrets
    BY DEF Secrets
  <2>4. /\ Sound(b, client) /\ b.desk = s.desk /\ b.conns = s.conns /\ b.ops[o].at = "leave"
        /\ Retried(b)
    BY <1>2, <2>2, <2>3, BeginKeeps
  <2>5. Become(u) /\ box' = box
    BY <2>1, WorldIs
  <2> HIDE DEF b
  <2>6. client \in Conns /\ client # Nobody /\ b.conns \in [Conns -> ConnType]
    BY <1>4, <2>4 DEF WInv, Sound, Typed, DeskType
  <2>7. /\ u.desk = b.desk /\ u.ops = b.ops /\ Typed(u)
        /\ \A c \in Conns \ {client} : u.conns[c] = b.conns[c]
        /\ u.conns[client].op = o /\ u.conns[client].client = b.conns[client].client
        /\ u.conns[client].server = b.conns[client].server /\ u.conns[client].auth = b.conns[client].auth
        /\ u.conns[client].inbox = b.conns[client].inbox /\ u.conns[client].grant = b.conns[client].grant
    <3> DEFINE r == b.conns[client]
               t == [[r EXCEPT !.op = o] EXCEPT !.leave = TRUE]
    <3>1. r \in ConnType
      BY <2>6
    <3>2. /\ t \in ConnType /\ t.op = o /\ t.client = r.client /\ t.server = r.server
          /\ t.auth = r.auth /\ t.inbox = r.inbox /\ t.grant = r.grant
      BY <2>2, <3>1 DEF ConnType
    <3> HIDE DEF t
    <3>3. Typed(b)
      BY <2>4 DEF Sound
    <3>4. /\ h.desk = b.desk /\ h.ops = b.ops /\ h.conns[client] = [r EXCEPT !.op = o] /\ Typed(h)
          /\ \A c \in Conns \ {client} : h.conns[c] = b.conns[c]
      BY <2>2, <2>6, <3>1, <3>3 DEF Typed, ConnType
    <3> HIDE DEF h
    <3>5. u = [h EXCEPT !.conns[client] = t]
      BY <3>4, <2>6 DEF t, Typed
    <3>6. Typed(u) /\ u.desk = b.desk /\ u.ops = b.ops /\ u.conns[client] = t
          /\ \A c \in Conns \ {client} : u.conns[c] = b.conns[c]
      BY <2>6, <3>2, <3>4, <3>5 DEF Typed
    <3> QED
      BY <3>2, <3>6
  <2> HIDE DEF u
  <2>8. Kept(u) /\ Secret(u) /\ Mounted(u) /\ Retried(u)
    BY <1>2, <2>4, <2>7 DEF Sound, Kept, Secret, Mounted, Retried, Dials
  <2>9. Answered(u)
    BY <2>4, <2>7 DEF Sound, Answered
  <2>10. Tidy(u, Nobody)
    BY <2>2, <2>4, <2>7, NobodyIsNoCall DEF Sound, Tidy
  <2>11. WInv(u)
    BY <2>7, <2>8, <2>9, <2>10 DEF WInv, Sound
  <2> QED
    BY <2>5, <2>11, BecomeKeeps
<1> QED
  BY <1>3, <1>4

LEMMA RestartKeeps ==
  ASSUME WInv(World), Restart
  PROVE  WInv(World)' /\ Stays
<1> DEFINE which == {c \in Conns : conns[c].client = "open"}
           h == HangUp(World, which)
           s == [h EXCEPT !.ops = [o \in Ops |-> NoOp], !.desk.client = Nobody, !.desk.timer = None, !.desk.host = "absent"]
<1>1. Become(IF desk.row = None THEN s ELSE Begin(s, 1, "reconnect", "dial", desk.row)) /\ box' = box
  BY DEF Restart
<1>2. /\ Typed(h) /\ h.desk = World.desk /\ h.ops = World.ops
      /\ \A c \in Conns : h.conns[c] = IF c \in which THEN Hung(World.conns[c]) ELSE World.conns[c]
  BY HangUpIs DEF WInv, Sound
<1>3. \A c \in Conns : World.conns[c] \in ConnType
  BY DEF WInv, Sound, Typed
<1>4. \A c \in Conns : h.conns[c].client # "open"
  BY <1>2, <1>3, HungType, WorldIs
<1>5. Answered(h)
  BY <1>2, <1>3, HungType DEF WInv, Sound, Answered
<1>6. NoOp.kind = "none" /\ NoOp.at = "done"
  BY DEF NoOp
<1> HIDE DEF h
<1>7. /\ Typed(s) /\ s.conns = h.conns /\ s.ops = [o \in Ops |-> NoOp]
      /\ s.desk.client = Nobody /\ s.desk.timer = None /\ s.desk.host = "absent" /\ s.desk.row = h.desk.row
  BY <1>2, NoConnType DEF Typed, DeskType, Nobody, Secrets
<1> HIDE DEF s
<1>8. WInv(s)
  BY <1>4, <1>5, <1>6, <1>7 DEF WInv, Sound, Kept, Secret, Mounted, Answered, Tidy, Retried, Dials
<1>9. 1 \in Ops /\ desk.row \in Secrets /\ s.desk.row = desk.row
  BY <1>2, <1>7, WorldIs, AttachAssumption DEF Ops, Typed, DeskType
<1>10. desk.row # None =>
         LET b == Begin(s, 1, "reconnect", "dial", desk.row) IN WInv(b) /\ b.desk = s.desk
  BY <1>7, <1>8, <1>9, BeginKeeps DEF WInv
<1> QED
  BY <1>1, <1>8, <1>9, <1>10, BecomeKeeps DEF Become, Stays

-----------------------------------------------------------------------------
(* The asynchronous calls *)

LEMMA FireKeeps ==
  ASSUME WInv(World), Fire
  PROVE  WInv(World)' /\ Stays
<1> DEFINE w == AbortReconnect(World)
<1>1. /\ Sound(w, Nobody) /\ w.desk = [desk EXCEPT !.timer = None]
      /\ \A o \in Ops : w.ops[o] = IF Dials(World, o, "reconnect") THEN NoOp ELSE World.ops[o]
  BY AbortReconnectKeeps, WorldIs DEF WInv
<1>2. PICK o \in FreeOps : Become(Begin(w, o, "reconnect", "dial", desk.timer)) /\ box' = box
  BY DEF Fire
<1> HIDE DEF w
<1>3. o \in Ops /\ w.ops[o] = NoOp /\ Sound(w, Nobody)
  BY <1>1, <1>2, WorldIs DEF FreeOps
<1>4. desk.timer \in Secrets /\ desk.timer # None /\ w.desk.row = desk.row /\ desk.row # None
  BY <1>1, WorldIs DEF Fire, WInv, Sound, Typed, DeskType, Kept
<1>5. Sound(Begin(w, o, "reconnect", "dial", desk.timer), Nobody) /\ Retried(Begin(w, o, "reconnect", "dial", desk.timer))
      /\ Begin(w, o, "reconnect", "dial", desk.timer).desk = w.desk
  BY <1>3, <1>4, BeginKeeps
<1> QED
  BY <1>2, <1>4, <1>5, BecomeKeeps DEF WInv, Become, Stays

(* The dialled connection waits for its call, and its hello is not read. *)
LEMMA DialKeeps ==
  ASSUME WInv(World), NEW o \in Ops, Dial(o)
  PROVE  WInv(World)'
<1> DEFINE new == [NoConn EXCEPT !.client = "open", !.server = "hello", !.op = o, !.auth = ops[o].secret]
<1>1. PICK c \in FreeConns : conns' = [conns EXCEPT ![c] = new]
  BY DEF Dial
<1>3. /\ ops \in [Ops -> OpType] /\ conns \in [Conns -> ConnType] /\ desk \in DeskType
      /\ ops[o].secret \in Secrets /\ ops[o].secret # None
  BY WorldIs DEF WInv, Sound, Typed, Secret, OpType, Dial
<1>4. c \in Conns /\ conns[c].client # "open"
  BY <1>1 DEF FreeConns, NoConn
<1>5. new \in ConnType
  BY <1>3, NoConnType DEF ConnType
<1>6. /\ new.client = "open" /\ new.server = "hello" /\ new.op = o /\ new.auth = ops[o].secret
      /\ new.inbox = << >> /\ Len(new.inbox) = 0
  BY NoConnType DEF ConnType, NoConn
<1> HIDE DEF new
<1>7. conns' \in [Conns -> ConnType] /\ conns'[c] = new /\ \A d \in Conns \ {c} : conns'[d] = conns[d]
  BY <1>1, <1>3, <1>4, <1>5
<1>8. /\ ops' \in [Ops -> OpType] /\ desk' = desk /\ box' = box
      /\ \A p \in Ops : ops'[p].kind = ops[p].kind /\ ops'[p].at = ops[p].at /\ ops'[p].secret = ops[p].secret
  BY <1>3, AttachAssumption DEF Dial, OpType
<1>9. Typed(World)' /\ Kept(World)' /\ Secret(World)' /\ Retried(World)'
  BY <1>3, <1>7, <1>8 DEF WInv, Sound, World, Typed, Kept, Secret, Retried, Dials
<1>10. Mounted(World)'
  BY <1>3, <1>4, <1>7, <1>8 DEF WInv, Sound, World, Mounted, DeskType, Nobody
<1>11. Answered(World)'
  BY <1>3, <1>6, <1>7, <1>8 DEF WInv, Sound, World, Answered, Meant
<1>12. Tidy(World, Nobody)'
  BY <1>3, <1>6, <1>7, <1>8, NobodyIsNoCall DEF WInv, Sound, World, Tidy, ConnType, Dial
<1> QED
  BY <1>9, <1>10, <1>11, <1>12 DEF WInv, Sound

LEMMA DialsFailKeeps ==
  ASSUME WInv(World), NEW o \in Ops, DialsFail(o)
  PROVE  WInv(World)' /\ Stays
<1> DEFINE s == [World EXCEPT !.ops[o] = NoOp]
<1>1. \A c \in Conns : World.conns[c].op # o
  BY DEF DialsFail, Of
<1>2. /\ Sound(s, Nobody) /\ s.desk = World.desk
      /\ Retried(World) /\ ~Dials(World, o, "reconnect") => Retried(s)
  BY <1>1, EndKeeps DEF WInv
<1>3. Become(IF ops[o].kind = "pair" THEN s
             ELSE ScheduleReconnect([s EXCEPT !.desk.host = "offline"], ops[o].secret)) /\ box' = box
  BY DEF DialsFail
<1>4. /\ ops[o].at = "dial" /\ ops[o].secret \in Secrets /\ ops[o].secret # None
      /\ ops[o].kind \in {"pair", "reconnect"}
  BY WorldIs DEF DialsFail, WInv, Sound, Typed, OpType, Secret
<1> HIDE DEF s
<1>5. CASE ops[o].kind = "pair"
  <2>1. WInv(s)
    BY <1>2, <1>5, WorldIs DEF WInv, Dials
  <2> QED
    BY <1>2, <1>3, <1>5, <2>1, BecomeKeeps, WorldIs DEF Become, Stays
<1>6. CASE ops[o].kind = "reconnect"
  <2>1. s.desk.row # None
    BY <1>2, <1>4, <1>6, WorldIs DEF WInv, Sound, Kept, Dials
  <2>2. LET u == ScheduleReconnect([s EXCEPT !.desk.host = "offline"], ops[o].secret)
        IN WInv(u) /\ u.desk.row = s.desk.row
    BY <1>2, <1>4, <2>1, ScheduleKeeps DEF WInv
  <2> QED
    BY <1>3, <1>6, <2>1, <2>2, BecomeKeeps DEF Become, Stays
<1> QED
  BY <1>4, <1>5, <1>6

(* The connection that wins is mounted, the others of its call are hung up. *)
LEMMA WelcomedKeeps ==
  ASSUME WInv(World), NEW c \in Conns, Welcomed(c)
  PROVE  WInv(World)' /\ Stays
<1> DEFINE o == conns[c].op
           grant == conns[c].grant
           h == HangUp(World, Of(World, o) \ {c})
           won == [h EXCEPT !.conns[c] = [@ EXCEPT !.op = Nobody, !.inbox = Tail(conns[c].inbox)],
                            !.ops[o] = [@ EXCEPT !.at = "attached", !.secret = grant]]
           stored == IF ops[o].kind = "pair" THEN Remember(won, grant) ELSE won
           mounted == Mount(stored, c)
<1>1. \/ Become(mounted)
      \/ Become([HangUp(mounted, {c}) EXCEPT !.desk.client = Nobody])
  BY DEF Welcomed
<1>0. box' = box
  BY DEF Welcomed
<1>2. /\ ops \in [Ops -> OpType] /\ conns \in [Conns -> ConnType] /\ desk \in DeskType
      /\ conns[c].client = "open" /\ o \in Ops /\ ops[o].at = "dial"
      /\ conns[c].inbox # << >> /\ Head(conns[c].inbox) = "welcome"
  BY WorldIs, NobodyIsNoCall DEF Welcomed, WInv, Sound, Typed, ConnType
<1>3. conns[c].inbox \in Seq({"welcome", "close"} \cup Errors)
  BY <1>2 DEF ConnType
<1>4. /\ Len(conns[c].inbox) \in Nat /\ Len(conns[c].inbox) > 0 /\ Head(conns[c].inbox) = conns[c].inbox[1]
      /\ Tail(conns[c].inbox) \in Seq({"welcome", "close"} \cup Errors)
      /\ Len(Tail(conns[c].inbox)) = Len(conns[c].inbox) - 1
      /\ \A i \in 1 .. Len(conns[c].inbox) - 1 : Tail(conns[c].inbox)[i] = conns[c].inbox[i + 1]
  BY <1>2, <1>3
<1>5. grant \in Secrets /\ grant # None /\ conns[c].server # "hello"
  BY <1>2, <1>4, WorldIs DEF WInv, Sound, Answered, ConnType, Meant
<1>6. desk.client # c /\ (desk.client # Nobody => conns[desk.client].op = Nobody)
  BY <1>2, WorldIs, NobodyIsNoCall DEF WInv, Sound, Mounted
<1>7. Sound(h, Nobody) /\ h.desk = desk /\ h.ops = ops
      /\ \A d \in Conns : h.conns[d] = IF d \in Of(World, o) \ {c} THEN Hung(conns[d]) ELSE conns[d]
  <2>1. World.desk.client \notin Of(World, o) \ {c}
    BY <1>2, <1>6, WorldIs, NobodyIsNoCall DEF Of
  <2>2. Sound(h, Nobody)
    BY <2>1, HangUpKeeps DEF WInv
  <2>3. /\ h.desk = World.desk /\ h.ops = World.ops
        /\ \A d \in Conns : h.conns[d] = IF d \in Of(World, o) \ {c} THEN Hung(World.conns[d]) ELSE World.conns[d]
    BY HangUpIs DEF WInv, Sound
  <2> QED
    BY <2>2, <2>3, WorldIs
<1> HIDE DEF h
<1>8. h.conns[c] = conns[c]
  BY <1>7
<1>9. /\ Typed(won) /\ won.desk = desk
      /\ \A d \in Conns \ {c} : won.conns[d] = h.conns[d]
      /\ won.conns[c].op = Nobody /\ won.conns[c].client = "open" /\ won.conns[c].server = conns[c].server
      /\ won.conns[c].grant = grant /\ won.conns[c].inbox = Tail(conns[c].inbox)
      /\ \A p \in Ops \ {o} : won.ops[p] = ops[p]
      /\ won.ops[o].at = "attached" /\ won.ops[o].secret = grant /\ won.ops[o].kind = ops[o].kind
  <2> DEFINE r == [conns[c] EXCEPT !.op = Nobody, !.inbox = Tail(conns[c].inbox)]
             q == [ops[o] EXCEPT !.at = "attached", !.secret = grant]
  <2>1. /\ r \in ConnType /\ r.op = Nobody /\ r.client = "open" /\ r.server = conns[c].server /\ r.grant = grant
          /\ r.inbox = Tail(conns[c].inbox)
    BY <1>2, <1>4 DEF ConnType
  <2>2. /\ q \in OpType /\ q.at = "attached" /\ q.secret = grant /\ q.kind = ops[o].kind
    BY <1>2, <1>5 DEF OpType
  <2>3. h \in [desk : DeskType, ops : [Ops -> OpType], conns : [Conns -> ConnType]]
    BY <1>7 DEF Sound, Typed
  <2>4. won = [desk |-> desk, ops |-> [ops EXCEPT ![o] = q], conns |-> [h.conns EXCEPT ![c] = r]]
    <3>1. [h.conns[c] EXCEPT !.op = Nobody, !.inbox = Tail(conns[c].inbox)] = r
      BY <1>8
    <3>2. [h.ops[o] EXCEPT !.at = "attached", !.secret = grant] = q
      BY <1>7
    <3>3. won = [h EXCEPT !.conns[c] = r, !.ops[o] = q]
      BY <3>1, <3>2
    <3> HIDE DEF q, r, won
    <3> QED
      BY <1>7, <2>3, <3>3
  <2> HIDE DEF q, r
  <2>5. [ops EXCEPT ![o] = q] \in [Ops -> OpType] /\ [h.conns EXCEPT ![c] = r] \in [Conns -> ConnType]
    BY <1>2, <2>1, <2>2, <2>3
  <2> HIDE DEF won
  <2> QED
    BY <1>2, <2>1, <2>2, <2>3, <2>4, <2>5 DEF Typed
<1> HIDE DEF won
<1>10. Kept(won) /\ Secret(won)
  BY <1>2, <1>5, <1>7, <1>9 DEF Sound, Kept, Secret, Dials
<1>11. Mounted(won)
  BY <1>2, <1>6, <1>7, <1>9 DEF Sound, Mounted, DeskType, Nobody
<1>12. Answered(won)
  <2>1. \A i \in 1 .. Len(conns[c].inbox) : Meant(conns[c].inbox[i], grant, box.unpaired)
    BY <1>2, WorldIs DEF WInv, Sound, Answered
  <2>2. \A i \in 1 .. Len(Tail(conns[c].inbox)) : Meant(Tail(conns[c].inbox)[i], grant, box.unpaired)
    <3> TAKE i \in 1 .. Len(Tail(conns[c].inbox))
    <3>1. i + 1 \in 1 .. Len(conns[c].inbox) /\ i \in 1 .. Len(conns[c].inbox) - 1
      BY <1>4
    <3> QED
      BY <1>4, <2>1, <3>1
  <2> QED
    BY <1>5, <1>7, <1>9, <2>2 DEF Sound, Answered
<1>13. Tidy(won, c)
  <2>1. \A d \in Conns \ {c} : h.conns[d].client = "open" => h.conns[d].op # o
    BY <1>2, <1>7, HungType, WorldIs DEF Of
  <2> QED
    BY <1>7, <1>9, <2>1, NobodyIsNoCall DEF Sound, Tidy, Typed, ConnType
<1>14. Sound(won, c) /\ (ops[o].kind # "pair" => won.desk.row # None)
  <2>1. ops[o].kind # "pair" => Dials(World, o, "reconnect")
    BY <1>2, WorldIs DEF WInv, Sound, Secret, Dials
  <2>2. ops[o].kind # "pair" => desk.row # None
    BY <1>2, <2>1, WorldIs DEF WInv, Sound, Kept
  <2> QED
    BY <1>9, <1>10, <1>11, <1>12, <1>13, <2>2 DEF Sound
<1>15. /\ Sound(stored, c) /\ stored.desk.row # None /\ stored.desk.client # c
       /\ stored.conns[c].client = "open" /\ stored.conns[c].op = Nobody
  BY <1>5, <1>6, <1>9, <1>14, RememberKeeps
<1> HIDE DEF stored
<1>16. WInv(mounted) /\ mounted.desk.client = c /\ mounted.desk.host = "online" /\ mounted.desk.row # None
  BY <1>15, MountKeeps
<1> HIDE DEF mounted
<1>17. CASE Become(mounted)
  BY <1>0, <1>16, <1>17, BecomeKeeps DEF Become, Stays
<1>18. CASE Become([HangUp(mounted, {c}) EXCEPT !.desk.client = Nobody])
  <2> DEFINE u == [HangUp(mounted, {c}) EXCEPT !.desk.client = Nobody]
  <2>1. Sound(u, Nobody) /\ u.desk.host = "online" /\ u.desk.row # None
    BY <1>16, DropClient, NobodyIsNoCall DEF WInv
  <2> HIDE DEF u
  <2>2. WInv(u)
    BY <2>1 DEF WInv, Retried
  <2>3. Become(u)
    BY <1>18 DEF u
  <2> QED
    BY <1>0, <2>1, <2>2, <2>3, BecomeKeeps DEF Become, Stays
<1> QED
  BY <1>1, <1>17, <1>18

LEMMA RefusedKeeps ==
  ASSUME WInv(World), NEW c \in Conns, Refused(c)
  PROVE  WInv(World)' /\ Stays
<1> DEFINE u == HangUp(World, {c})
<1>1. World.desk.client \notin {c}
  BY WorldIs, NobodyIsNoCall DEF Refused, WInv, Sound, Mounted
<1>2. Sound(u, Nobody) /\ u.desk = World.desk /\ u.ops = World.ops
  BY <1>1, HangUpKeeps, HangUpIs DEF WInv, Sound
<1>3. Become(u) /\ box' = box
  BY DEF Refused
<1> HIDE DEF u
<1>4. WInv(u)
  BY <1>2 DEF WInv, Retried, Dials
<1> QED
  BY <1>2, <1>3, <1>4, BecomeKeeps, WorldIs DEF Become, Stays

LEMMA LoseKeeps ==
  ASSUME WInv(World), Lose
  PROVE  WInv(World)' /\ (Stays \/ conns[desk.client].grant \in box.unpaired)
<1> DEFINE inbox == conns[desk.client].inbox
<1>1. Become(OnClosed(World, Head(inbox))) /\ desk.client \in Conns /\ inbox # << >> /\ box' = box
  BY WorldIs, NobodyIsNoCall DEF Lose, WInv, Sound, Typed, DeskType
<1>2. /\ WInv(OnClosed(World, Head(inbox)))
      /\ Head(inbox) # "revoked" => OnClosed(World, Head(inbox)).desk.row = desk.row
  BY <1>1, WorldIs, NobodyIsNoCall, OnClosedKeeps DEF WInv
<1>3. inbox \in Seq({"welcome", "close"} \cup Errors)
  BY <1>1, WorldIs DEF WInv, Sound, Typed, ConnType
<1>4. Head(inbox) = inbox[1] /\ 1 \in 1 .. Len(inbox)
  BY <1>1, <1>3
<1>5. Meant(Head(inbox), conns[desk.client].grant, box.unpaired)
  BY <1>1, <1>4, WorldIs DEF WInv, Sound, Answered
<1> QED
  BY <1>1, <1>2, <1>5, BecomeKeeps DEF Become, Stays, Meant

LEMMA AttachedKeeps ==
  ASSUME WInv(World), NEW o \in Ops, Attached(o)
  PROVE  WInv(World)' /\ Stays
<1> DEFINE s == [World EXCEPT !.ops[o] = NoOp]
<1>1. \A c \in Conns : World.conns[c].client = "open" => World.conns[c].op # o
  BY WorldIs, NobodyIsNoCall DEF Attached, WInv, Sound, Tidy, Mounted
<1>2. Sound(s, Nobody) /\ Retried(s) /\ s.desk = World.desk
  BY <1>1, EndKeeps, WorldIs DEF WInv, Attached, Dials
<1>3. Become(IF ops[o].kind = "reconnect" THEN Remember(s, ops[o].secret) ELSE s) /\ box' = box
  BY DEF Attached
<1> HIDE DEF s
<1>4. ops[o].secret \in Secrets /\ ops[o].secret # None
  BY WorldIs DEF Attached, WInv, Sound, Typed, OpType, Secret
<1>5. WInv(s) /\ WInv(Remember(s, ops[o].secret)) /\ Remember(s, ops[o].secret).desk.row # None
  BY <1>2, <1>4, RememberKeeps DEF WInv
<1> QED
  BY <1>2, <1>3, <1>5, BecomeKeeps, WorldIs DEF Become, Stays

LEMMA ForgetEndsKeeps ==
  ASSUME WInv(World), NEW o \in Ops, ForgetEnds(o)
  PROVE  WInv(World)' /\ Stays
<1> DEFINE h == HangUp(World, Of(World, o))
           u == [h EXCEPT !.ops[o] = NoOp]
<1>1. World.desk.client \notin Of(World, o)
  BY WorldIs, NobodyIsNoCall DEF WInv, Sound, Mounted, Of
<1>2. /\ Sound(h, Nobody) /\ h.desk = World.desk /\ h.ops = World.ops
      /\ \A c \in Conns : h.conns[c] = IF c \in Of(World, o) THEN Hung(World.conns[c]) ELSE World.conns[c]
  BY <1>1, HangUpKeeps, HangUpIs DEF WInv, Sound
<1> HIDE DEF h
<1>3. \A c \in Conns : h.conns[c].client = "open" => h.conns[c].op # o
  BY <1>2, HungType DEF Of, WInv, Sound, Typed
<1>4. Retried(h) /\ ~Dials(h, o, "reconnect")
  BY <1>2, WorldIs DEF WInv, Retried, Dials, ForgetEnds
<1>5. WInv(u) /\ u.desk = World.desk
  BY <1>2, <1>3, <1>4, EndKeeps DEF WInv
<1>6. Become(u) /\ box' = box
  BY DEF ForgetEnds, h
<1> QED
  BY <1>5, <1>6, BecomeKeeps, WorldIs DEF Become, Stays

-----------------------------------------------------------------------------
(* The other computer *)

(* What the server says to a hello it has read; its words are no welcome   *)
(* unless they come with a grant.                                          *)
LEMMA ServeKeeps ==
  ASSUME WInv(World), NEW c \in Conns, conns[c].server = "hello", desk' = desk, ops' = ops,
         NEW server \in {"session", "gone"}, NEW grant \in Secrets,
         NEW frames \in {<<"welcome">>, <<"rejected", "close">>},
         frames = <<"welcome">> => grant # None, Serve(c, server, grant, frames), box'.unpaired = box.unpaired
  PROVE  WInv(World)'
<1> DEFINE new == IF conns[c].client = "open"
                  THEN [conns[c] EXCEPT !.server = server, !.grant = grant, !.inbox = conns[c].inbox \o frames]
                  ELSE NoConn
<1>1. conns' = [conns EXCEPT ![c] = new]
  BY DEF Serve
<1>2. conns \in [Conns -> ConnType] /\ conns[c] \in ConnType /\ conns[c].inbox = << >>
  BY WorldIs DEF WInv, Sound, Typed, Answered
<1>3. conns[c].inbox \o frames = frames /\ frames \in Seq({"welcome", "close"} \cup Errors)
  <2>1. frames \in Seq({"welcome", "close"} \cup Errors)
    <3>1. CASE frames = <<"welcome">>
      BY <3>1
    <3>2. CASE frames = <<"rejected", "close">>
      BY <3>2 DEF Errors
    <3> QED
      BY <3>1, <3>2
  <2> QED
    BY <1>2, <2>1
<1>4. CASE conns[c].client = "open"
  <2>1. /\ new \in ConnType /\ new.client = "open" /\ new.op = conns[c].op /\ new.server = server
        /\ new.grant = grant /\ new.inbox = frames
    BY <1>2, <1>3, <1>4 DEF ConnType
  <2>2. \A i \in 1 .. Len(frames) : Meant(frames[i], grant, box'.unpaired)
    <3>1. CASE frames = <<"welcome">>
      BY <3>1 DEF Meant
    <3>2. CASE frames = <<"rejected", "close">>
      BY <3>2 DEF Meant
    <3> QED
      BY <3>1, <3>2
  <2> HIDE DEF new
  <2>3. conns' \in [Conns -> ConnType] /\ conns'[c] = new /\ \A d \in Conns \ {c} : conns'[d] = conns[d]
    BY <1>1, <1>2, <2>1
  <2> QED
    BY <1>2, <1>4, <2>1, <2>2, <2>3, ConnsKeep, WorldIs DEF WInv, Sound, Answered
<1>5. CASE conns[c].client # "open"
  <2>1. /\ new \in ConnType /\ new.client = "none" /\ new.server = "gone" /\ new.inbox = << >> /\ Len(new.inbox) = 0
    BY <1>5, NoConnType DEF NoConn
  <2> HIDE DEF new
  <2>2. conns' \in [Conns -> ConnType] /\ conns'[c] = new /\ \A d \in Conns \ {c} : conns'[d] = conns[d]
    BY <1>1, <1>2, <2>1
  <2> QED
    BY <1>2, <1>5, <2>1, <2>2, ConnsKeep, WorldIs DEF WInv, Sound, Answered
<1> QED
  BY <1>4, <1>5

LEMMA HelloArrivesKeeps ==
  ASSUME WInv(World), Rest, NEW c \in Conns, HelloArrives(c)
  PROVE  WInv(World)'
<1>1. conns[c].server = "hello" /\ conns[c].auth # None /\ desk' = desk /\ ops' = ops
      /\ box'.unpaired = box.unpaired
  BY WorldIs DEF HelloArrives, WInv, Sound, Answered, Rest
<1>2. None \in Secrets /\ box.grant \in Secrets /\ box.issued + 1 \in Secrets /\ box.issued + 1 # None
  BY DEF Rest, Secrets, None
<1>3. CASE conns[c].auth = box.grant /\ Serve(c, "session", box.grant, <<"welcome">>)
  BY <1>1, <1>2, <1>3, ServeKeeps
<1>4. CASE Serve(c, "session", box.issued + 1, <<"welcome">>)
  BY <1>1, <1>2, <1>4, ServeKeeps
<1>5. CASE Serve(c, "gone", None, <<"rejected", "close">>)
  BY <1>1, <1>2, <1>5, ServeKeeps
<1> QED
  BY <1>3, <1>4, <1>5 DEF HelloArrives

LEMMA LockedKeeps ==
  ASSUME WInv(World), NEW c \in Conns, Locked(c)
  PROVE  WInv(World)'
<1>1. conns[c].server = "hello" /\ desk' = desk /\ ops' = ops /\ box' = box /\ None \in Secrets
  BY DEF Locked, Secrets
<1>2. Serve(c, "gone", None, <<"rejected", "close">>)
  BY DEF Locked
<1> QED
  BY <1>1, <1>2, ServeKeeps

(* The last frames for a client, none of them a welcome. *)
Ended(conn, inbox) == [conn EXCEPT !.server = "gone", !.leave = FALSE, !.inbox = inbox]

LEMMA Meaning ==
  ASSUME NEW grant, NEW unpaired
  PROVE  /\ <<"close">> \in Seq({"welcome", "close"} \cup Errors)
         /\ <<"revoked", "close">> \in Seq({"welcome", "close"} \cup Errors)
         /\ <<"kicked", "close">> \in Seq({"welcome", "close"} \cup Errors)
         /\ \A i \in 1 .. Len(<<"close">>) : Meant(<<"close">>[i], grant, unpaired)
         /\ \A i \in 1 .. Len(<<"kicked", "close">>) : Meant(<<"kicked", "close">>[i], grant, unpaired)
         /\ grant \in unpaired =>
              \A i \in 1 .. Len(<<"revoked", "close">>) : Meant(<<"revoked", "close">>[i], grant, unpaired)
BY DEF Errors, Meant

LEMMA LastFrames ==
  ASSUME NEW conn \in ConnType, NEW unpaired, NEW kept \in {conn.inbox, << >>},
         NEW extra \in Seq({"welcome", "close"} \cup Errors),
         \A i \in 1 .. Len(extra) : Meant(extra[i], conn.grant, unpaired),
         \A i \in 1 .. Len(conn.inbox) : Meant(conn.inbox[i], conn.grant, unpaired)
  PROVE  LET new == Ended(conn, kept \o extra) IN
         /\ new \in ConnType /\ new.client = conn.client /\ new.op = conn.op /\ new.server = "gone"
         /\ \A i \in 1 .. Len(new.inbox) : Meant(new.inbox[i], new.grant, unpaired)
<1> DEFINE new == Ended(conn, kept \o extra)
           Frames == {"welcome", "close"} \cup Errors
<1>1. kept \in Seq(Frames) /\ \A i \in 1 .. Len(kept) : Meant(kept[i], conn.grant, unpaired)
  <2>1. CASE kept = conn.inbox
    BY <2>1 DEF ConnType
  <2>2. CASE kept = << >>
    BY <2>2
  <2> QED
    BY <2>1, <2>2
<1>2. kept \o extra \in Seq(Frames) /\ \A i \in 1 .. Len(kept \o extra) : Meant((kept \o extra)[i], conn.grant, unpaired)
  BY <1>1
<1>3. /\ new \in ConnType /\ new.client = conn.client /\ new.op = conn.op /\ new.server = "gone"
      /\ new.grant = conn.grant /\ new.inbox = kept \o extra
  BY <1>2 DEF ConnType, Ended
<1> QED
  BY <1>2, <1>3

LEMMA DropSessionsKeeps ==
  ASSUME WInv(World), desk' = desk, ops' = ops, NEW grant, NEW error \in {"revoked", "kicked"},
         DropSessions(grant, error), box.unpaired \subseteq box'.unpaired,
         error = "revoked" => grant \in box'.unpaired
  PROVE  WInv(World)'
<1>1. PICK told \in BOOLEAN :
        conns' = [c \in Conns |->
                    IF conns[c].server # "session" \/ conns[c].grant # grant THEN conns[c]
                    ELSE IF conns[c].client # "open" THEN NoConn
                    ELSE [conns[c] EXCEPT !.server = "gone", !.leave = FALSE,
                            !.inbox = @ \o (IF told THEN <<error, "close">> ELSE <<"close">>)]]
  BY DEF DropSessions
<1>2. conns \in [Conns -> ConnType] /\ Answered(World)
  BY WorldIs DEF WInv, Sound, Typed
<1>3. ASSUME NEW c \in Conns
      PROVE  /\ conns'[c] \in ConnType
             /\ (conns[c].client = "open") <=> (conns'[c].client = "open")
             /\ conns[c].client = "open" => conns'[c].op = conns[c].op
             /\ conns'[c].server = "hello" => conns'[c].auth # None /\ conns'[c].inbox = << >>
             /\ \A i \in 1 .. Len(conns'[c].inbox) : Meant(conns'[c].inbox[i], conns'[c].grant, box'.unpaired)
  <2>1. CASE conns'[c] = conns[c]
    BY <1>2, <2>1, WorldIs DEF Answered, Meant
  <2>2. CASE conns'[c] = NoConn /\ conns[c].client # "open"
    <3>1. NoConn.client = "none" /\ NoConn.server = "gone" /\ Len(NoConn.inbox) = 0
      BY DEF NoConn
    <3> QED
      BY <2>2, <3>1, NoConnType
  <2>3. CASE conns[c].grant = grant /\ conns'[c] = Ended(conns[c], conns[c].inbox \o (IF told THEN <<error, "close">> ELSE <<"close">>))
    <3> DEFINE gone == box'.unpaired
               extra == IF told THEN <<error, "close">> ELSE <<"close">>
    <3>1. extra \in Seq({"welcome", "close"} \cup Errors) /\ \A i \in 1 .. Len(extra) : Meant(extra[i], conns[c].grant, gone)
      BY <2>3, Meaning
    <3>2. \A i \in 1 .. Len(conns[c].inbox) : Meant(conns[c].inbox[i], conns[c].grant, gone)
      BY <1>2, WorldIs DEF Answered, Meant
    <3>3. conns[c] \in ConnType
      BY <1>2
    <3> HIDE DEF extra
    <3> DEFINE v == Ended(conns[c], conns[c].inbox \o extra)
    <3>4. conns'[c] = v
      BY <2>3 DEF extra
    <3>5. conns[c].inbox \in {conns[c].inbox, << >>}
      OBVIOUS
    <3>6. /\ v \in ConnType /\ v.client = conns[c].client /\ v.op = conns[c].op /\ v.server = "gone"
          /\ \A i \in 1 .. Len(v.inbox) : Meant(v.inbox[i], v.grant, gone)
      <4> HIDE DEF gone
      <4> QED
        BY <3>1, <3>2, <3>3, <3>5, LastFrames
    <3> HIDE DEF v
    <3> QED
      BY <3>4, <3>6
  <2> QED
    BY <1>1, <2>1, <2>2, <2>3 DEF Ended
<1>4. conns' \in [Conns -> ConnType]
  BY <1>1, <1>3
<1> QED
  BY <1>3, <1>4, ConnsKeep

LEMMA CutKeeps ==
  ASSUME WInv(World), NEW c \in Conns, Cut(c)
  PROVE  WInv(World)'
<1>1. PICK kept \in {<< >>, conns[c].inbox} :
        conns' = [conns EXCEPT ![c] = [conns[c] EXCEPT !.server = "gone", !.leave = FALSE, !.inbox = Append(kept, "close")]]
  BY DEF Cut
<1>2. conns \in [Conns -> ConnType] /\ conns[c] \in ConnType /\ Answered(World)
  BY WorldIs DEF WInv, Sound, Typed
<1>7. desk' = desk /\ ops' = ops /\ box' = box
  BY DEF Cut
<1>3. Append(kept, "close") = kept \o <<"close">>
  BY <1>2 DEF ConnType
<1> DEFINE gone == box'.unpaired
           new == Ended(conns[c], kept \o <<"close">>)
<1>4. /\ new \in ConnType /\ new.client = conns[c].client /\ new.op = conns[c].op /\ new.server = "gone"
      /\ \A i \in 1 .. Len(new.inbox) : Meant(new.inbox[i], new.grant, gone)
  <2>1. \A i \in 1 .. Len(conns[c].inbox) : Meant(conns[c].inbox[i], conns[c].grant, gone)
    BY <1>2, <1>7, WorldIs DEF Answered
  <2>2. kept \in {conns[c].inbox, << >>}
    OBVIOUS
  <2>3. /\ <<"close">> \in Seq({"welcome", "close"} \cup Errors)
        /\ \A i \in 1 .. Len(<<"close">>) : Meant(<<"close">>[i], conns[c].grant, gone)
    BY Meaning
  <2>4. conns[c] \in ConnType
    BY <1>2
  <2> HIDE DEF new, gone
  <2> QED
    BY <2>1, <2>2, <2>3, <2>4, LastFrames DEF new
<1>5. conns' = [conns EXCEPT ![c] = new]
  BY <1>1, <1>3 DEF Ended
<1> HIDE DEF new
<1>6. conns' \in [Conns -> ConnType] /\ conns'[c] = new /\ \A d \in Conns \ {c} : conns'[d] = conns[d]
  BY <1>2, <1>4, <1>5
<1> QED
  BY <1>2, <1>4, <1>6, <1>7, ConnsKeep, WorldIs DEF Answered

LEMMA UnpairGrantKeeps ==
  ASSUME WInv(World), Rest, NEW grant, UnpairGrant(grant)
  PROVE  WInv(World)'
<1>1. desk' = desk /\ ops' = ops /\ DropSessions(grant, "revoked")
      /\ box'.unpaired = box.unpaired \cup {grant}
  BY DEF UnpairGrant, Rest
<1> QED
  BY <1>1, DropSessionsKeeps

LEMMA DisconnectGrantKeeps ==
  ASSUME WInv(World), DisconnectGrant
  PROVE  WInv(World)'
<1>1. desk' = desk /\ ops' = ops /\ DropSessions(box.grant, "kicked") /\ box' = box
  BY DEF DisconnectGrant
<1> QED
  BY <1>1, DropSessionsKeeps

-----------------------------------------------------------------------------
(* The invariant *)

LEMMA CountedInput ==
  ASSUME Rest, Input
  PROVE  count' \in [inputs : 0 .. MaxInputs, faults : 0 .. MaxFaults]
BY AttachAssumption DEF Rest, Input

LEMMA CountedFault ==
  ASSUME Rest, count.faults < MaxFaults, count' = [count EXCEPT !.faults = @ + 1]
  PROVE  count' \in [inputs : 0 .. MaxInputs, faults : 0 .. MaxFaults]
BY AttachAssumption DEF Rest

LEMMA UnpairGrantTypes ==
  ASSUME Rest, NEW grant \in Secrets, UnpairGrant(grant)
  PROVE  box' \in [grant : Secrets, issued : Nat, unpaired : SUBSET Secrets]
<1>1. None \in Secrets
  BY DEF Secrets
<1> QED
  BY <1>1 DEF Rest, UnpairGrant

LEMMA HelloArrivesTypes ==
  ASSUME Rest, NEW c \in Conns, HelloArrives(c)
  PROVE  Rest'
<1>1. box.issued + 1 \in Secrets /\ box.issued + 1 \in Nat
  BY DEF Rest, Secrets
<1>2. box' = box \/ box' = [box EXCEPT !.grant = box.issued + 1, !.issued = box.issued + 1]
  BY DEF HelloArrives, Rest
<1>3. count' = count
  BY DEF HelloArrives
<1>4. box' \in [grant : Secrets, issued : Nat, unpaired : SUBSET Secrets]
  BY <1>1, <1>2 DEF Rest
<1> QED
  BY <1>3, <1>4 DEF Rest

LEMMA Initially ==
  ASSUME Init
  PROVE  IInv
<1>1. NoConn.client = "none" /\ NoConn.server = "gone" /\ Len(NoConn.inbox) = 0 /\ NoOp.kind = "none" /\ NoOp.at = "done"
  BY DEF NoConn, NoOp
<1>2. None \in Secrets
  BY DEF Secrets
<1>3. Typed(World)
  BY <1>2, NoConnType DEF Init, World, Typed, DeskType
<1>4. WInv(World)
  BY <1>1, <1>3, WorldIs DEF Init, WInv, Sound, Kept, Secret, Mounted, Answered, Tidy, Retried, Dials
<1>5. Rest
  BY <1>2, AttachAssumption DEF Init, Rest
<1> QED
  BY <1>4, <1>5 DEF IInv

LEMMA Inductive ==
  ASSUME IInv, [Next]_vars
  PROVE  IInv'
<1> USE DEF IInv
<1>1. ASSUME NEW o \in Ops, Dial(o) \/ DialsFail(o) \/ Attached(o) \/ ForgetEnds(o)
      PROVE  IInv'
  <2>1. WInv(World)'
    BY <1>1, DialKeeps, DialsFailKeeps, AttachedKeeps, ForgetEndsKeeps
  <2>2. UNCHANGED <<box, count>>
    BY <1>1 DEF Dial, DialsFail, Attached, ForgetEnds
  <2> QED
    BY <2>1, <2>2 DEF Rest
<1>2. CASE Fire \/ Lose
  <2>1. WInv(World)'
    BY <1>2, FireKeeps, LoseKeeps
  <2>2. UNCHANGED <<box, count>>
    BY <1>2 DEF Fire, Lose
  <2> QED
    BY <2>1, <2>2 DEF Rest
<1>3. ASSUME NEW c \in Conns, Welcomed(c) \/ Refused(c)
      PROVE  IInv'
  <2>1. WInv(World)'
    BY <1>3, WelcomedKeeps, RefusedKeeps
  <2>2. UNCHANGED <<box, count>>
    BY <1>3 DEF Welcomed, Refused
  <2> QED
    BY <2>1, <2>2 DEF Rest
<1>4. ASSUME NEW c \in Conns, HelloArrives(c)
      PROVE  IInv'
  BY <1>4, HelloArrivesKeeps, HelloArrivesTypes
<1>5. ASSUME NEW c \in Conns, LeaveArrives(c)
      PROVE  IInv'
  <2>1. UnpairGrant(conns[c].grant) /\ count' = count
    BY <1>5 DEF LeaveArrives
  <2>2. conns[c].grant \in Secrets
    BY WorldIs DEF WInv, Sound, Typed, ConnType
  <2> QED
    BY <2>1, <2>2, UnpairGrantKeeps, UnpairGrantTypes DEF Rest
<1>6. CASE Pair \/ CancelPair \/ Forget \/ Restart \/ DisconnectGrant
  <2>1. WInv(World)'
    BY <1>6, PairKeeps, CancelPairKeeps, ForgetKeeps, RestartKeeps, DisconnectGrantKeeps
  <2>2. Input /\ box' = box
    BY <1>6 DEF Pair, CancelPair, Forget, Restart, DisconnectGrant
  <2> QED
    BY <2>1, <2>2, CountedInput DEF Rest
<1>7. CASE Unpair
  <2>1. UnpairGrant(box.grant) /\ Input /\ box.grant \in Secrets
    BY <1>7 DEF Unpair, Rest
  <2> QED
    BY <2>1, UnpairGrantKeeps, UnpairGrantTypes, CountedInput DEF Rest
<1>8. ASSUME NEW c \in Conns, Cut(c) \/ Locked(c)
      PROVE  IInv'
  <2>1. WInv(World)'
    BY <1>8, CutKeeps, LockedKeeps
  <2>2. count' \in [inputs : 0 .. MaxInputs, faults : 0 .. MaxFaults] /\ box' = box
    BY <1>8, CountedFault DEF Cut, Locked
  <2> QED
    BY <2>1, <2>2 DEF Rest
<1>9. CASE UNCHANGED vars
  BY <1>9 DEF vars, World, Rest, WInv, Sound, Typed, Kept, Secret, Mounted, Answered, Tidy, Retried, Dials
<1> QED
  BY <1>1, <1>2, <1>3, <1>4, <1>5, <1>6, <1>7, <1>8, <1>9 DEF Next, Calls, Reads, Users

THEOREM Invariance == Spec => []IInv
<1>1. Init => IInv
  BY Initially
<1>2. IInv /\ [Next]_vars => IInv'
  BY Inductive
<1> QED
  BY <1>1, <1>2, PTL DEF Spec

(* Every entry of the service, of a call, of a connection and of the other *)
(* computer has its type.                                                  *)
THEOREM AttachTypeCorrect == Spec => []TypeOK
<1>1. IInv => TypeOK
  BY WorldIs DEF IInv, WInv, Sound, Typed, Rest, TypeOK
<1> QED
  BY <1>1, Invariance, PTL

(* A machine that is listed is stored, and one shown offline is being      *)
(* dialled or has its timer, whatever of pair, reconnect, forget, restart  *)
(* and the other computer's removals comes between the steps of another.   *)
THEOREM ListedStays == Spec => []ListedIsKept
<1>1. IInv => ListedIsKept
  BY WorldIs DEF IInv, WInv, Sound, Typed, DeskType, Kept, Retried, Dials, ListedIsKept, RegisteredIsStored, OfflineIsRetried
<1> QED
  BY <1>1, Invariance, PTL

(* Every connection that is still open is the mounted one, or a call waits *)
(* for it: no race, cancellation or replacement leaves one behind.         *)
THEOREM NothingLeaks == Spec => []NoLeaks
<1>1. IInv => NoLeaks
  BY WorldIs, NobodyIsNoCall DEF IInv, WInv, Sound, Tidy, NoLeaks
<1> QED
  BY <1>1, Invariance, PTL

LEMMA RowStays ==
  ASSUME IInv, Next
  PROVE  Stays \/ Forget \/ (desk.client # Nobody /\ conns[desk.client].grant \in box.unpaired)
<1> USE DEF IInv
<1>1. ASSUME NEW o \in Ops, Dial(o) \/ DialsFail(o) \/ Attached(o) \/ ForgetEnds(o)
      PROVE  Stays
  BY <1>1, DialsFailKeeps, AttachedKeeps, ForgetEndsKeeps DEF Dial, Stays
<1>2. CASE Fire
  BY <1>2, FireKeeps
<1>3. CASE Lose
  BY <1>3, LoseKeeps DEF Lose
<1>4. ASSUME NEW c \in Conns, Welcomed(c) \/ Refused(c) \/ HelloArrives(c) \/ LeaveArrives(c)
      PROVE  Stays
  BY <1>4, WelcomedKeeps, RefusedKeeps DEF HelloArrives, LeaveArrives, UnpairGrant, Stays
<1>5. CASE Pair \/ CancelPair \/ Restart
  BY <1>5, PairKeeps, CancelPairKeeps, RestartKeeps
<1>6. CASE Unpair \/ DisconnectGrant
  BY <1>6 DEF Unpair, UnpairGrant, DisconnectGrant, Stays
<1>7. ASSUME NEW c \in Conns, Cut(c) \/ Locked(c)
      PROVE  Stays
  BY <1>7 DEF Cut, Locked, Stays
<1> QED
  BY <1>1, <1>2, <1>3, <1>4, <1>5, <1>6, <1>7 DEF Next, Calls, Reads, Users

(* A stored machine is dropped only by its user's Forget, or while it is   *)
(* connected with a grant that the other computer has removed: every other *)
(* error, loss, cancellation and restart leaves its row.                   *)
THEOREM RowsSurvive == Spec => OnlyRevokesForget
<1> DEFINE A == desk.row # None /\ desk'.row = None =>
                  Forget \/ (desk.client # Nobody /\ conns[desk.client].grant \in box.unpaired)
<1>1. IInv /\ [Next]_vars => [A]_vars
  BY RowStays DEF Stays
<1> QED
  BY <1>1, Invariance, PTL DEF Spec, OnlyRevokesForget
=============================================================================
