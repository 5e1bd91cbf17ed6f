------------------------- MODULE TurnRuntimeProofs -------------------------
(***************************************************************************)
(* TurnRuntime for every number of conversations, turns, tool calls,       *)
(* retries, queued sends and notices.  IInv is inductive; the invariants   *)
(* and the action property follow from it.                                 *)
(***************************************************************************)
EXTENDS TurnRuntime, SequenceTheorems, TLAPS

-----------------------------------------------------------------------------
(* The inductive invariant *)

\* startTurn has not registered the turn.
Unregistered == {"free", "queued", "dropped", "images"}

\* What one turn's record satisfies by itself.
Coherent(r) ==
  /\ r.stage = "parked" <=> r.pending # {}
  /\ r.stage = "parked" => r.phase = "awaiting-user" /\ ~r.cancelled
  /\ r.stage \in {"tool", "parked", "refused"} => r.toolCount < MaxCalls
  /\ r.stage \in Unregistered =>
       ~r.stopTimer /\ ~r.cancelled /\ ~r.checkpoint /\ r.fin = "no"
  /\ r.stage # "free" => r.conv \in Conversations
  /\ r.stage = "free" => r.parent = 0

\* What the record of a registered turn satisfies: its loop runs, or it was
\* stopped and the timer behind the Stop will finish it.
Driven(r) ==
  /\ r.fin = "no"
  /\ r.stage \in {"prepare", "model", "tool", "parked", "refused", "backoff"} \/ r.stopTimer
  /\ r.cancelled => r.stopTimer

\* Once a tool has run, no step goes back behind it or tries again.
CountsUp(r, s) ==
  \/ r.toolCount = 0
  \/ s.toolCount \in {r.toolCount, r.toolCount + 1} /\ s.attempts = r.attempts

TurnsTypeOK ==
  /\ turns \in [Conversations -> Turns \cup {NoTurn}]
  /\ turn \in [Turns -> Turn]
  /\ pendingCancels \subseteq Conversations
  /\ queue \in [Conversations -> Seq(Turns)]
  /\ up \in BOOLEAN

TurnsCoherent == \A t \in Turns : Coherent(turn[t])

RegisteredAreDriven ==
  \A c \in Conversations : turns[c] # NoTurn =>
    turn[turns[c]].conv = c /\ Driven(turn[turns[c]])

\* A waiting send is in its own conversation's queue, once.
QueuedOnce ==
  \A c \in Conversations : \A i \in 1..Len(queue[c]) :
    /\ turn[queue[c][i]].stage = "queued"
    /\ turn[queue[c][i]].conv = c
    /\ \A j \in 1..Len(queue[c]) : queue[c][i] = queue[c][j] => i = j

TurnsInv ==
  /\ TurnsTypeOK
  /\ TurnsCoherent
  /\ StopMarkersHaveATurn
  /\ RegisteredAreDriven
  /\ QueuedOnce

TreeTypeOK ==
  /\ pendingNotices \in [Conversations -> Nat]
  /\ messages \in [Conversations -> Seq(Message)]
  /\ leaf \in [Conversations -> Nat]

\* A parent is stored before its child, and the leaf is stored.
Rooted(ms, l) ==
  /\ l <= Len(ms)
  /\ \A i \in 1..Len(ms) : ms[i].parent < i

\* A reply hangs under the prompt of its turn.
RepliesOf(ms, tn) ==
  \A i \in 1..Len(ms) : ms[i].role = "assistant" =>
    /\ ms[i].turn \in Turns
    /\ tn[ms[i].turn].stage \notin Unregistered
    /\ ms[i].parent = tn[ms[i].turn].parent

\* The prompt of a turn is stored.
PromptsStored ==
  \A t \in Turns : turn[t].conv \in Conversations =>
    turn[t].parent <= Len(messages[turn[t].conv])

TreeInv ==
  /\ TreeTypeOK
  /\ \A c \in Conversations : Rooted(messages[c], leaf[c])
  /\ \A c \in Conversations : RepliesOf(messages[c], turn)
  /\ PromptsStored

IInv == TurnsInv /\ TreeInv

-----------------------------------------------------------------------------
(* Steps of one turn, as far as the turns, their loops and the queue go *)

\* A turn that has a loop moves on: the registered turns stay registered.
LEMMA LoopStep ==
  ASSUME TurnsInv, NEW t \in Turns, NEW r \in Turn,
         Step(t, r), r.conv = turn[t].conv, r.stage # "queued", turn[t].stage # "queued",
         Coherent(r), Owns(t) => Driven(r),
         UNCHANGED <<turns, pendingCancels, queue>>, up' \in BOOLEAN
  PROVE  TurnsInv'
<1> USE DEF TurnsInv, Step
<1>1. turn' \in [Turns -> Turn]
  BY DEF TurnsTypeOK
<1>2. \A u \in Turns : turn'[u] = IF u = t THEN r ELSE turn[u]
  BY DEF TurnsTypeOK
<1>3. TurnsTypeOK'
  BY <1>1 DEF TurnsTypeOK
<1>4. TurnsCoherent'
  BY <1>2 DEF TurnsCoherent
<1>5. StopMarkersHaveATurn'
  BY DEF StopMarkersHaveATurn, Registered
<1>6. RegisteredAreDriven'
  <2> SUFFICES ASSUME NEW c \in Conversations, turns[c] # NoTurn
               PROVE  turn'[turns[c]].conv = c /\ Driven(turn'[turns[c]])
    BY DEF RegisteredAreDriven, Driven
  <2>1. turns[c] \in Turns
    BY DEF TurnsTypeOK
  <2>2. turn[turns[c]].conv = c /\ Driven(turn[turns[c]])
    BY DEF RegisteredAreDriven
  <2>3. CASE turns[c] = t
    BY <1>2, <2>1, <2>2, <2>3 DEF Owns
  <2>4. CASE turns[c] # t
    BY <1>2, <2>1, <2>2, <2>4
  <2> QED BY <2>3, <2>4
<1>7. QueuedOnce'
  <2> SUFFICES ASSUME NEW c \in Conversations, NEW i \in 1..Len(queue[c])
               PROVE  /\ turn'[queue[c][i]].stage = "queued"
                      /\ turn'[queue[c][i]].conv = c
                      /\ \A j \in 1..Len(queue[c]) : queue[c][i] = queue[c][j] => i = j
    BY DEF QueuedOnce
  <2>1. queue[c][i] \in Turns
    BY ElementOfSeq DEF TurnsTypeOK
  <2> QED BY <1>2, <2>1 DEF QueuedOnce
<1> QED BY <1>3, <1>4, <1>5, <1>6, <1>7

\* No conversation has registered a turn that startTurn has yet to register.
LEMMA UnregisteredIsNotOwned ==
  ASSUME TurnsInv, NEW t \in Turns, turn[t].stage \in Unregistered, NEW c \in Conversations
  PROVE  turns[c] # t
<1> SUFFICES ASSUME turns[c] = t
             PROVE  FALSE
  OBVIOUS
<1>1. Driven(turn[t])
  BY SlotsAssumption DEF TurnsInv, RegisteredAreDriven
<1>2. Coherent(turn[t])
  BY DEF TurnsInv, TurnsCoherent
<1> QED BY <1>1, <1>2 DEF Driven, Coherent, Unregistered

\* Any change of the turns' records that keeps the registered ones driven.
LEMMA RecordsChange ==
  ASSUME TurnsInv, turn' \in [Turns -> Turn], TurnsCoherent',
         turns' = turns, pendingCancels' \subseteq {c \in Conversations : Registered(c)},
         queue' \in [Conversations -> Seq(Turns)], QueuedOnce', up' \in BOOLEAN,
         \A t \in Turns : Owns(t) => turn'[t].conv = turn[t].conv /\ Driven(turn'[t])
  PROVE  TurnsInv'
<1>1. TurnsTypeOK'
  BY DEF TurnsInv, TurnsTypeOK
<1>2. StopMarkersHaveATurn'
  BY DEF StopMarkersHaveATurn, Registered
<1>3. RegisteredAreDriven'
  <2> SUFFICES ASSUME NEW c \in Conversations, turns[c] # NoTurn
               PROVE  turn'[turns[c]].conv = c /\ Driven(turn'[turns[c]])
    BY DEF RegisteredAreDriven, Driven
  <2>1. turns[c] \in Turns /\ turn[turns[c]].conv = c
    BY DEF TurnsInv, TurnsTypeOK, RegisteredAreDriven
  <2>2. Owns(turns[c])
    BY <2>1 DEF Owns
  <2> QED BY <2>1, <2>2
<1> QED BY <1>1, <1>2, <1>3 DEF TurnsInv

\* A turn that is not registered yet moves on, or gives up.
LEMMA StartStep ==
  ASSUME TurnsInv, NEW t \in Turns, NEW r \in Turn,
         turn[t].stage \in Unregistered \ {"queued"}, Step(t, r), r.stage # "queued",
         Coherent(r), pendingCancels' \subseteq pendingCancels,
         UNCHANGED <<turns, queue>>, up' \in BOOLEAN
  PROVE  TurnsInv'
<1>1. turn' \in [Turns -> Turn] /\ \A u \in Turns : turn'[u] = IF u = t THEN r ELSE turn[u]
  BY DEF Step, TurnsInv, TurnsTypeOK
<1>2. TurnsCoherent'
  BY <1>1 DEF TurnsInv, TurnsCoherent
<1>3. QueuedOnce'
  <2> SUFFICES ASSUME NEW c \in Conversations, NEW i \in 1..Len(queue[c])
               PROVE  /\ turn'[queue[c][i]].stage = "queued"
                      /\ turn'[queue[c][i]].conv = c
                      /\ \A j \in 1..Len(queue[c]) : queue[c][i] = queue[c][j] => i = j
    BY DEF QueuedOnce
  <2>1. queue[c][i] \in Turns
    BY ElementOfSeq DEF TurnsInv, TurnsTypeOK
  <2> QED BY <1>1, <2>1 DEF TurnsInv, QueuedOnce
<1>4. ~Owns(t)
  BY UnregisteredIsNotOwned DEF Owns
<1>5. \A u \in Turns : Owns(u) => turn'[u].conv = turn[u].conv /\ Driven(turn'[u])
  <2> SUFFICES ASSUME NEW u \in Turns, Owns(u)
               PROVE  turn'[u].conv = turn[u].conv /\ Driven(turn'[u])
    OBVIOUS
  <2>1. u # t /\ u # NoTurn
    BY <1>4, SlotsAssumption
  <2> QED BY <1>1, <2>1 DEF Owns, TurnsInv, RegisteredAreDriven
<1>6. pendingCancels' \subseteq {c \in Conversations : Registered(c)}
  BY DEF TurnsInv, TurnsTypeOK, StopMarkersHaveATurn
<1>7. queue' \in [Conversations -> Seq(Turns)]
  BY DEF TurnsInv, TurnsTypeOK
<1> QED BY <1>1, <1>2, <1>3, <1>5, <1>6, <1>7, RecordsChange

\* finish: the registered turn leaves the map, any other only stops its loop.
LEMMA FinishStep ==
  ASSUME TurnsInv, NEW t \in Turns, NEW r \in Turn, NEW outcome \in Outcomes,
         Finish(t, r, outcome), r.conv = turn[t].conv, r.stage \notin Unregistered,
         turn[t].stage # "queued", Coherent(r), queue' = queue, up' \in BOOLEAN
  PROVE  TurnsInv'
<1>1. CASE ~Owns(t)
  BY <1>1, LoopStep DEF Finish, Unregistered
<1>2. CASE Owns(t)
  <2> DEFINE c == turn[t].conv
             s == [r EXCEPT !.fin = "sealing", !.checkpoint = FALSE,
                            !.outcome = IF r.cancelled THEN "cancelled" ELSE outcome]
  <2>1. /\ turns' = [turns EXCEPT ![c] = NoTurn]
        /\ pendingCancels' = pendingCancels \ {c}
        /\ turn' = [turn EXCEPT ![t] = s]
        /\ c \in Conversations /\ turns[c] = t
    BY <1>2 DEF Finish, Step, Owns
  <2>2. s \in Turn /\ s.stage = r.stage /\ s.conv = c
    BY DEF Turn, Outcomes
  <2>3. Coherent(s)
    BY DEF Coherent, Turn
  <2> HIDE DEF s
  <2>4. turn' \in [Turns -> Turn] /\ \A u \in Turns : turn'[u] = IF u = t THEN s ELSE turn[u]
    BY <2>1, <2>2 DEF TurnsInv, TurnsTypeOK
  <2>5. \A d \in Conversations : turns'[d] = IF d = c THEN NoTurn ELSE turns[d]
    BY <2>1 DEF TurnsInv, TurnsTypeOK
  <2>6. TurnsTypeOK'
    BY <2>1, <2>4 DEF TurnsInv, TurnsTypeOK
  <2>7. TurnsCoherent'
    BY <2>3, <2>4 DEF TurnsInv, TurnsCoherent
  <2>8. StopMarkersHaveATurn'
    BY <2>1, <2>5, <2>6 DEF TurnsInv, StopMarkersHaveATurn, Registered, TurnsTypeOK
  <2>9. RegisteredAreDriven'
    <3> SUFFICES ASSUME NEW d \in Conversations, turns'[d] # NoTurn
                 PROVE  turn'[turns'[d]].conv = d /\ Driven(turn'[turns'[d]])
      BY DEF RegisteredAreDriven, Driven
    <3>1. turns'[d] = turns[d] /\ turns[d] \in Turns /\ d # c
      BY <2>5 DEF TurnsInv, TurnsTypeOK
    <3>2. turn[turns[d]].conv = d /\ Driven(turn[turns[d]])
      BY <3>1 DEF TurnsInv, RegisteredAreDriven
    <3> QED BY <2>4, <3>1, <3>2
  <2>10. QueuedOnce'
    <3> SUFFICES ASSUME NEW d \in Conversations, NEW i \in 1..Len(queue[d])
                 PROVE  /\ turn'[queue[d][i]].stage = "queued"
                        /\ turn'[queue[d][i]].conv = d
                        /\ \A j \in 1..Len(queue[d]) : queue[d][i] = queue[d][j] => i = j
      BY DEF QueuedOnce
    <3>1. queue[d][i] \in Turns
      BY ElementOfSeq DEF TurnsInv, TurnsTypeOK
    <3> QED BY <2>4, <3>1 DEF TurnsInv, QueuedOnce
  <2> QED BY <2>6, <2>7, <2>8, <2>9, <2>10 DEF TurnsInv
<1> QED BY <1>1, <1>2

-----------------------------------------------------------------------------
(* Each action keeps TurnsInv *)

\* A slot's record once its prompt is accepted.
LEMMA Accepted ==
  ASSUME TurnsInv, NEW t \in Turns, turn[t].stage \in {"free", "queued"},
         NEW c \in Conversations, NEW parent \in Nat
  PROVE  /\ StartedTurn(t, c, parent) \in Turn
         /\ Coherent(StartedTurn(t, c, parent))
         /\ StartedTurn(t, c, parent).stage \in {"dropped", "images"}
         /\ StartedTurn(t, c, parent).conv = c
         /\ StartedTurn(t, c, parent).parent = parent
         /\ StartedTurn(t, c, parent).fin = turn[t].fin
         /\ CountsUp(turn[t], StartedTurn(t, c, parent))
<1> DEFINE s == StartedTurn(t, c, parent)
<1>1. turn[t] \in Turn /\ Coherent(turn[t])
  BY DEF TurnsInv, TurnsTypeOK, TurnsCoherent
<1>2. /\ s \in Turn /\ s.stage \in {"dropped", "images"} /\ s.conv = c /\ s.parent = parent
      /\ s.fin = turn[t].fin /\ CountsUp(turn[t], s)
  BY <1>1 DEF StartedTurn, Turn, Stages, CountsUp
<1>3. /\ s.pending = turn[t].pending /\ s.stopTimer = turn[t].stopTimer
      /\ s.cancelled = turn[t].cancelled /\ s.checkpoint = turn[t].checkpoint
  BY <1>1 DEF StartedTurn, Turn
<1> HIDE DEF s
<1>4. Coherent(s)
  BY <1>1, <1>2, <1>3 DEF Coherent, Unregistered
<1> QED BY <1>2, <1>4 DEF s

LEMMA AcceptedKeepsTurns ==
  ASSUME TurnsInv, NEW t \in Turns, NEW c \in Conversations, NEW parent \in Nat, Free(t),
         Step(t, StartedTurn(t, c, parent)), pendingCancels' = pendingCancels \ {c},
         UNCHANGED <<turns, queue, up>>
  PROVE  TurnsInv'
<1>1. turn[t].stage = "free"
  BY DEF Free, Turns
<1>2. up' \in BOOLEAN
  BY DEF TurnsInv, TurnsTypeOK
<1> QED BY <1>1, <1>2, Accepted, StartStep DEF Unregistered

LEMMA EnqueueKeepsTurns ==
  ASSUME TurnsInv, NEW t \in Turns, NEW c \in Conversations, Enqueue(c, t)
  PROVE  TurnsInv'
<1> DEFINE full == Len(queue[c]) >= QueueMax
           r == [turn[t] EXCEPT !.conv = c, !.stage = IF full THEN "dropped" ELSE "queued"]
<1>1. turn[t].stage = "free"
  BY DEF Enqueue, Free, Turns
<1>2. turn[t] \in Turn /\ Coherent(turn[t]) /\ queue[c] \in Seq(Turns)
  BY DEF TurnsInv, TurnsTypeOK, TurnsCoherent
<1>3. /\ r \in Turn /\ Coherent(r)
      /\ r.stage = (IF full THEN "dropped" ELSE "queued") /\ r.conv = c
  BY <1>1, <1>2 DEF Turn, Coherent, Stages, Unregistered
<1>4. /\ turn' = [turn EXCEPT ![t] = r]
      /\ queue' = [queue EXCEPT ![c] = IF full THEN @ ELSE Append(@, t)]
      /\ UNCHANGED <<turns, pendingCancels, up>>
  BY DEF Enqueue, Step
<1>5. up' \in BOOLEAN
  BY <1>4 DEF TurnsInv, TurnsTypeOK
<1> HIDE DEF r
<1>6. CASE full
  BY <1>1, <1>3, <1>4, <1>5, <1>6, StartStep DEF Step, Unregistered, TurnsInv, TurnsTypeOK
<1>7. CASE ~full
  <2>1. turn' \in [Turns -> Turn] /\ \A u \in Turns : turn'[u] = IF u = t THEN r ELSE turn[u]
    BY <1>3, <1>4 DEF TurnsInv, TurnsTypeOK
  <2>2. TurnsCoherent'
    BY <2>1, <1>3 DEF TurnsInv, TurnsCoherent
  <2>3. Append(queue[c], t) \in Seq(Turns)
    BY <1>2, AppendProperties
  <2>4. queue' \in [Conversations -> Seq(Turns)]
    BY <1>4, <1>7, <2>3 DEF TurnsInv, TurnsTypeOK
  <2>5. \A u \in Turns : Owns(u) => turn'[u].conv = turn[u].conv /\ Driven(turn'[u])
    <3>1. ~Owns(t)
      BY <1>1, UnregisteredIsNotOwned DEF Owns, Unregistered
    <3> QED BY <3>1, <2>1, SlotsAssumption DEF Owns, TurnsInv, RegisteredAreDriven
  <2>6. QueuedOnce'
    <3> SUFFICES ASSUME NEW d \in Conversations, NEW i \in 1..Len(queue'[d])
                 PROVE  /\ turn'[queue'[d][i]].stage = "queued"
                        /\ turn'[queue'[d][i]].conv = d
                        /\ \A j \in 1..Len(queue'[d]) : queue'[d][i] = queue'[d][j] => i = j
      BY DEF QueuedOnce
    <3>1. \A e \in Conversations : \A j \in 1..Len(queue[e]) :
            queue[e][j] \in Turns /\ queue[e][j] # t
      BY <1>1, ElementOfSeq DEF TurnsInv, TurnsTypeOK, QueuedOnce
    <3>2. CASE d # c
      BY <3>1, <3>2, <1>4, <2>1 DEF TurnsInv, TurnsTypeOK, QueuedOnce
    <3>3. CASE d = c
      <4>1. /\ queue'[c] = Append(queue[c], t)
            /\ Len(queue[c]) \in Nat
            /\ Len(queue'[c]) = Len(queue[c]) + 1
            /\ \A j \in 1..Len(queue[c]) : queue'[c][j] = queue[c][j]
            /\ queue'[c][Len(queue[c]) + 1] = t
        BY <1>2, <1>4, <1>7, AppendProperties, LenProperties DEF TurnsInv, TurnsTypeOK
      <4>2. CASE i = Len(queue[c]) + 1
        <5>1. \A j \in 1..Len(queue'[c]) : j = i \/ j \in 1..Len(queue[c])
          BY <4>1, <4>2
        <5> QED BY <4>1, <4>2, <5>1, <3>1, <3>3, <2>1, <1>3, <1>7
      <4>3. CASE i \in 1..Len(queue[c])
        <5>1. \A j \in 1..Len(queue'[c]) : j = Len(queue[c]) + 1 \/ j \in 1..Len(queue[c])
          BY <4>1
        <5> QED BY <4>1, <4>3, <5>1, <3>1, <3>3, <2>1 DEF TurnsInv, QueuedOnce
      <4> QED BY <4>1, <4>2, <4>3, <3>3
    <3> QED BY <3>2, <3>3
  <2>7. pendingCancels' \subseteq {d \in Conversations : Registered(d)}
    BY <1>4 DEF TurnsInv, TurnsTypeOK, StopMarkersHaveATurn
  <2> QED BY <1>4, <1>5, <2>1, <2>2, <2>4, <2>5, <2>6, <2>7, RecordsChange
<1> QED BY <1>6, <1>7

LEMMA RegisterKeepsTurns ==
  ASSUME TurnsInv, NEW t \in Turns, Register(t)
  PROVE  TurnsInv'
<1> DEFINE c == turn[t].conv
           r == [turn[t] EXCEPT !.stage = "prepare"]
<1>1. /\ turn[t].stage = "images" /\ c \notin pendingCancels
      /\ turns' = [turns EXCEPT ![c] = t]
      /\ turn' = [turn EXCEPT ![t] = r]
      /\ UNCHANGED <<pendingCancels, queue, up>>
  BY DEF Register, At, Step
<1>2. turn[t] \in Turn /\ Coherent(turn[t])
  BY DEF TurnsInv, TurnsTypeOK, TurnsCoherent
<1>3. c \in Conversations
  BY <1>1, <1>2 DEF Coherent
<1>4. r \in Turn /\ Coherent(r) /\ Driven(r) /\ r.conv = c /\ r.stage = "prepare"
  BY <1>1, <1>2 DEF Turn, Coherent, Driven, Stages, Unregistered
<1> HIDE DEF r
<1>5. turn' \in [Turns -> Turn] /\ \A u \in Turns : turn'[u] = IF u = t THEN r ELSE turn[u]
  BY <1>1, <1>4 DEF TurnsInv, TurnsTypeOK
<1>6. \A d \in Conversations : turns'[d] = IF d = c THEN t ELSE turns[d]
  BY <1>1 DEF TurnsInv, TurnsTypeOK
<1>7. TurnsTypeOK'
  BY <1>1, <1>5 DEF TurnsInv, TurnsTypeOK
<1>8. TurnsCoherent'
  BY <1>4, <1>5 DEF TurnsInv, TurnsCoherent
<1>9. StopMarkersHaveATurn'
  BY <1>1, <1>3, <1>6, SlotsAssumption
  DEF TurnsInv, TurnsTypeOK, StopMarkersHaveATurn, Registered
<1>10. RegisteredAreDriven'
  <2> SUFFICES ASSUME NEW d \in Conversations, turns'[d] # NoTurn
               PROVE  turn'[turns'[d]].conv = d /\ Driven(turn'[turns'[d]])
    BY DEF RegisteredAreDriven, Driven
  <2>1. CASE d = c
    BY <2>1, <1>4, <1>5, <1>6
  <2>2. CASE d # c
    <3>1. turns'[d] = turns[d] /\ turns[d] \in Turns
      BY <2>2, <1>6 DEF TurnsInv, TurnsTypeOK
    <3>2. turns[d] # t
      BY <1>1, UnregisteredIsNotOwned DEF Unregistered
    <3> QED BY <3>1, <3>2, <1>5 DEF TurnsInv, RegisteredAreDriven
  <2> QED BY <2>1, <2>2
<1>11. QueuedOnce'
  <2> SUFFICES ASSUME NEW d \in Conversations, NEW i \in 1..Len(queue[d])
               PROVE  /\ turn'[queue[d][i]].stage = "queued"
                      /\ turn'[queue[d][i]].conv = d
                      /\ \A j \in 1..Len(queue[d]) : queue[d][i] = queue[d][j] => i = j
    BY <1>1 DEF QueuedOnce
  <2>1. queue[d][i] \in Turns
    BY ElementOfSeq DEF TurnsInv, TurnsTypeOK
  <2> QED BY <1>1, <1>5, <2>1 DEF TurnsInv, QueuedOnce
<1> QED BY <1>7, <1>8, <1>9, <1>10, <1>11 DEF TurnsInv

LEMMA StopBeforeRegisterKeepsTurns ==
  ASSUME TurnsInv, NEW t \in Turns, StopBeforeRegister(t)
  PROVE  TurnsInv'
<1> DEFINE r == [turn[t] EXCEPT !.stage = "dropped"]
<1>1. turn[t].stage = "images" /\ turn[t] \in Turn /\ Coherent(turn[t])
  BY DEF StopBeforeRegister, At, TurnsInv, TurnsTypeOK, TurnsCoherent
<1>2. r \in Turn /\ Coherent(r) /\ r.stage = "dropped"
  BY <1>1 DEF Turn, Coherent, Stages, Unregistered
<1>3. /\ Step(t, r) /\ pendingCancels' = pendingCancels \ {turn[t].conv}
      /\ UNCHANGED <<turns, queue>> /\ up' \in BOOLEAN
  BY DEF StopBeforeRegister, TurnsInv, TurnsTypeOK
<1> HIDE DEF r
<1> QED BY <1>1, <1>2, <1>3, StartStep DEF Unregistered

\* Stop reaches registered turns only.
LEMMA StoppedAreOwned ==
  ASSUME TurnsInv, NEW c \in Conversations
  PROVE  \A t \in Stopped(c) : t \in Turns /\ Owns(t)
BY DEF Stopped, Registered, Owns, TurnsInv, TurnsTypeOK, RegisteredAreDriven

LEMMA StopTurnIsDriven ==
  ASSUME NEW r \in Turn, Coherent(r), Driven(r)
  PROVE  /\ StopTurn(r) \in Turn /\ Coherent(StopTurn(r)) /\ Driven(StopTurn(r))
         /\ StopTurn(r).conv = r.conv /\ StopTurn(r).parent = r.parent
         /\ StopTurn(r).fin = r.fin /\ StopTurn(r).stage \notin Unregistered
         /\ CountsUp(r, StopTurn(r))
BY DEF StopTurn, Turn, Coherent, Driven, Stages, Phases, Unregistered, CountsUp

LEMMA CancelKeepsTurns ==
  ASSUME TurnsInv, NEW c \in Conversations, Cancel(c)
  PROVE  TurnsInv'
<1>1. \A t \in Turns : turn[t] \in Turn /\ Coherent(turn[t]) /\ (Owns(t) => Driven(turn[t]))
  BY SlotsAssumption DEF TurnsInv, TurnsTypeOK, TurnsCoherent, RegisteredAreDriven, Owns
<1>2. \A t \in Turns : turn'[t] =
        IF t \in Stopped(c) THEN StopTurn(turn[t])
        ELSE IF turn[t].stage = "queued" /\ turn[t].conv = c
             THEN [turn[t] EXCEPT !.stage = "dropped"]
             ELSE turn[t]
  BY DEF Cancel
<1>3. \A t \in Turns : turn[t].stage = "queued" => ~Owns(t)
  BY UnregisteredIsNotOwned DEF Owns, Unregistered
<1>4. \A t \in Turns : /\ turn'[t] \in Turn /\ Coherent(turn'[t]) /\ turn'[t].conv = turn[t].conv
                       /\ Owns(t) => Driven(turn'[t])
  <2> SUFFICES ASSUME NEW t \in Turns
               PROVE  /\ turn'[t] \in Turn /\ Coherent(turn'[t])
                      /\ turn'[t].conv = turn[t].conv
                      /\ Owns(t) => Driven(turn'[t])
    OBVIOUS
  <2>1. CASE t \in Stopped(c)
    BY <2>1, <1>1, <1>2, StoppedAreOwned, StopTurnIsDriven
  <2>2. CASE t \notin Stopped(c) /\ turn[t].stage = "queued" /\ turn[t].conv = c
    <3>1. turn'[t] = [turn[t] EXCEPT !.stage = "dropped"] /\ ~Owns(t)
      BY <2>2, <1>2, <1>3
    <3> QED BY <2>2, <3>1, <1>1 DEF Coherent, Turn, Stages, Unregistered
  <2>3. CASE t \notin Stopped(c) /\ ~(turn[t].stage = "queued" /\ turn[t].conv = c)
    BY <2>3, <1>1, <1>2
  <2> QED BY <2>1, <2>2, <2>3
<1>5. turn' \in [Turns -> Turn]
  <2>1. DOMAIN turn' = Turns /\ turn' = [t \in DOMAIN turn' |-> turn'[t]]
    BY DEF Cancel
  <2> QED BY <1>4, <2>1
<1>6. TurnsCoherent'
  BY <1>4 DEF TurnsCoherent
<1>7. /\ turns' = turns /\ up' = up /\ queue' = [queue EXCEPT ![c] = <<>>]
      /\ pendingCancels' = MarkersAfterStop(c)
  BY DEF Cancel
<1>8. pendingCancels' \subseteq {d \in Conversations : Registered(d)}
  BY <1>7 DEF MarkersAfterStop, TurnsInv, TurnsTypeOK, StopMarkersHaveATurn
<1>9. queue' \in [Conversations -> Seq(Turns)] /\ up' \in BOOLEAN
  BY <1>7, EmptySeq DEF TurnsInv, TurnsTypeOK
<1>10. QueuedOnce'
  <2> SUFFICES ASSUME NEW d \in Conversations, NEW i \in 1..Len(queue'[d])
               PROVE  /\ turn'[queue'[d][i]].stage = "queued"
                      /\ turn'[queue'[d][i]].conv = d
                      /\ \A j \in 1..Len(queue'[d]) : queue'[d][i] = queue'[d][j] => i = j
    BY DEF QueuedOnce
  <2>1. CASE d = c
    <3>1. queue'[d] = <<>> /\ Len(queue'[d]) = 0
      BY <2>1, <1>7, EmptySeq DEF TurnsInv, TurnsTypeOK
    <3> QED BY <3>1
  <2>2. CASE d # c
    <3>1. queue'[d] = queue[d]
      BY <2>2, <1>7 DEF TurnsInv, TurnsTypeOK
    <3>2. queue[d][i] \in Turns /\ turn[queue[d][i]].stage = "queued" /\ turn[queue[d][i]].conv = d
      BY <3>1, ElementOfSeq DEF TurnsInv, TurnsTypeOK, QueuedOnce
    <3>3. turn'[queue[d][i]] = turn[queue[d][i]]
      BY <2>2, <3>2, <1>2, <1>3, StoppedAreOwned
    <3> QED BY <3>1, <3>2, <3>3 DEF TurnsInv, QueuedOnce
  <2> QED BY <2>1, <2>2
<1> QED BY <1>4, <1>5, <1>6, <1>7, <1>8, <1>9, <1>10, RecordsChange

\* A waiting send that an `end` takes from its queue: its prompt is stored last.
StartedByEnd(u, ms) ==
  /\ turn[u].stage = "queued" /\ turn'[u].stage \in {"dropped", "images"}
  /\ turn'[u].fin = turn[u].fin /\ turn'[u].conv = turn[u].conv /\ CountsUp(turn[u], turn'[u])
  /\ turn[u].conv \in Ready /\ turn'[u].parent = Len(ms[turn[u].conv]) + 1

LEMMA EmitEndKeepsTurns ==
  ASSUME TurnsInv, TreeTypeOK, NEW c \in Conversations, NEW t \in Turns, NEW r \in Turn,
         turn[t].stage # "queued", r.stage # "queued", r.conv = turn[t].conv, Coherent(r),
         ~Owns(t),
         NEW ms \in [Conversations -> Seq(Message)], NEW lf \in [Conversations -> Nat],
         NEW k \in Nat, NEW tn, tn = [turn EXCEPT ![t] = r], EmitEnd(c, tn, ms, lf, k),
         UNCHANGED <<turns, up>>
  PROVE  /\ TurnsInv'
         /\ \A u \in Turns : turn'[u] = (IF u = t THEN r ELSE turn[u]) \/ StartedByEnd(u, ms)
<1> DEFINE heads == {Head(queue[d]) : d \in Ready}
           ms1 == [d \in Conversations |->
                     IF d \in Ready THEN Append(ms[d], UserMessage(Head(queue[d]), lf[d])) ELSE ms[d]]
<1>1. \A u \in Turns : turn'[u] = IF u \in heads
                                  THEN StartedTurn(u, tn[u].conv, Len(ms1[tn[u].conv]))
                                  ELSE tn[u]
  BY DEF EmitEnd
<1>2. turn' = [u \in DOMAIN turn' |-> turn'[u]] /\ DOMAIN turn' = Turns
  BY DEF EmitEnd
<1>3. queue' = [d \in Conversations |-> TakeReady(d)] /\ pendingCancels' = pendingCancels \ Ready
  BY DEF EmitEnd
<1>4. \A u \in Turns : tn[u] = IF u = t THEN r ELSE turn[u]
  BY DEF TurnsInv, TurnsTypeOK
<1>5. \A d \in Conversations : queue[d] # <<>> =>
        /\ Len(queue[d]) \in Nat \ {0} /\ Head(queue[d]) = queue[d][1]
        /\ Head(queue[d]) \in Turns /\ turn[Head(queue[d])].stage = "queued"
        /\ turn[Head(queue[d])].conv = d
  <2> SUFFICES ASSUME NEW d \in Conversations, queue[d] # <<>>
               PROVE  /\ Len(queue[d]) \in Nat \ {0} /\ Head(queue[d]) = queue[d][1]
                      /\ Head(queue[d]) \in Turns /\ turn[Head(queue[d])].stage = "queued"
                      /\ turn[Head(queue[d])].conv = d
    OBVIOUS
  <2>1. queue[d] \in Seq(Turns)
    BY DEF TurnsInv, TurnsTypeOK
  <2>2. Len(queue[d]) \in Nat \ {0} /\ Head(queue[d]) \in Turns /\ Head(queue[d]) = queue[d][1]
    BY <2>1, EmptySeq, HeadTailProperties
  <2> QED BY <2>2 DEF TurnsInv, QueuedOnce
<1>6. \A d \in Conversations :
        Len(ms1[d]) \in Nat /\ (d \in Ready => Len(ms1[d]) = Len(ms[d]) + 1)
  <2> SUFFICES ASSUME NEW d \in Conversations
               PROVE  Len(ms1[d]) \in Nat /\ (d \in Ready => Len(ms1[d]) = Len(ms[d]) + 1)
    OBVIOUS
  <2>1. CASE d \in Ready
    <3>1. UserMessage(Head(queue[d]), lf[d]) \in Message
      BY <1>5, <2>1 DEF UserMessage, Message, Ready
    <3> QED BY <2>1, <3>1, AppendProperties, LenProperties
  <2>2. CASE d \notin Ready
    BY <2>2, LenProperties
  <2> QED BY <2>1, <2>2
<1>7. \A u \in Turns : u \in heads =>
        turn[u].stage = "queued" /\ u # t /\ tn[u] = turn[u] /\ turn[u].conv \in Ready
  BY <1>4, <1>5 DEF Ready
<1> HIDE DEF ms1, heads
<1>8. \A u \in Turns : u \in heads =>
        /\ turn'[u] \in Turn /\ Coherent(turn'[u])
        /\ StartedByEnd(u, ms)
  <2> SUFFICES ASSUME NEW u \in Turns, u \in heads
               PROVE  /\ turn'[u] \in Turn /\ Coherent(turn'[u])
                      /\ StartedByEnd(u, ms)
    OBVIOUS
  <2>1. turn'[u] = StartedTurn(u, turn[u].conv, Len(ms1[turn[u].conv]))
    BY <1>1, <1>7
  <2>2. turn[u].conv \in Conversations
    BY <1>7 DEF Ready
  <2>3. turn[u].stage \in {"free", "queued"} /\ Len(ms1[turn[u].conv]) \in Nat
    BY <2>2, <1>6, <1>7
  <2> DEFINE s == StartedTurn(u, turn[u].conv, Len(ms1[turn[u].conv]))
  <2>4. /\ s \in Turn /\ Coherent(s) /\ s.stage \in {"dropped", "images"}
        /\ s.conv = turn[u].conv /\ s.fin = turn[u].fin /\ CountsUp(turn[u], s)
        /\ s.parent = Len(ms1[turn[u].conv])
    BY <2>2, <2>3, Accepted
  <2> HIDE DEF s
  <2>5. turn'[u] = s
    BY <2>1 DEF s
  <2> QED BY <1>6, <1>7, <2>2, <2>4, <2>5 DEF StartedByEnd
<1>9. \A u \in Turns : u \notin heads => turn'[u] = IF u = t THEN r ELSE turn[u]
  BY <1>1, <1>4
<1>10. turn' \in [Turns -> Turn] /\ TurnsCoherent'
  <2>1. \A u \in Turns : turn'[u] \in Turn /\ Coherent(turn'[u])
    BY <1>8, <1>9 DEF TurnsInv, TurnsTypeOK, TurnsCoherent
  <2> QED BY <1>2, <2>1 DEF TurnsCoherent
<1>11. \A u \in Turns : Owns(u) => turn'[u].conv = turn[u].conv /\ Driven(turn'[u])
  <2> SUFFICES ASSUME NEW u \in Turns, Owns(u)
               PROVE  turn'[u].conv = turn[u].conv /\ Driven(turn'[u])
    OBVIOUS
  <2>1. u # t /\ u \notin heads
    BY <1>7, UnregisteredIsNotOwned DEF Owns, Unregistered
  <2> QED BY <2>1, <1>9, SlotsAssumption, ZenonT(40) DEF Owns, TurnsInv, RegisteredAreDriven
<1>12. \A d \in Conversations : d \in Ready =>
         /\ queue'[d] \in Seq(Turns) /\ Len(queue'[d]) = Len(queue[d]) - 1
         /\ \A i \in 1..Len(queue'[d]) : queue'[d][i] = queue[d][i + 1]
  <2> SUFFICES ASSUME NEW d \in Conversations, d \in Ready
               PROVE  /\ queue'[d] \in Seq(Turns) /\ Len(queue'[d]) = Len(queue[d]) - 1
                      /\ \A i \in 1..Len(queue'[d]) : queue'[d][i] = queue[d][i + 1]
    OBVIOUS
  <2>1. queue[d] \in Seq(Turns) /\ queue[d] # <<>> /\ queue'[d] = Tail(queue[d])
    BY <1>3 DEF TurnsInv, TurnsTypeOK, Ready, TakeReady
  <2> QED BY <2>1, HeadTailProperties
<1>13. \A d \in Conversations : d \notin Ready => queue'[d] = queue[d]
  BY <1>3 DEF TakeReady
<1>14. queue' \in [Conversations -> Seq(Turns)]
  <2>1. \A d \in Conversations : queue'[d] \in Seq(Turns)
    BY <1>12, <1>13 DEF TurnsInv, TurnsTypeOK
  <2> QED BY <1>3, <2>1
<1>15. \A d \in Conversations : \A i \in 1..Len(queue[d]) :
         /\ queue[d][i] \in Turns
         /\ queue[d][i] \in heads => d \in Ready /\ i = 1
  <2> SUFFICES ASSUME NEW d \in Conversations, NEW i \in 1..Len(queue[d])
               PROVE  /\ queue[d][i] \in Turns
                      /\ queue[d][i] \in heads => d \in Ready /\ i = 1
    OBVIOUS
  <2>1. queue[d][i] \in Turns /\ turn[queue[d][i]].conv = d
    BY ElementOfSeq DEF TurnsInv, TurnsTypeOK, QueuedOnce
  <2>2. ASSUME NEW e \in Ready, queue[d][i] = Head(queue[e])
        PROVE  d = e /\ i = 1
    <3>1. e \in Conversations /\ queue[e] # <<>>
      BY DEF Ready
    <3>2. d = e /\ queue[d][i] = queue[d][1] /\ 1 \in 1..Len(queue[d])
      BY <1>5, <2>1, <2>2, <3>1
    <3> QED BY <3>2 DEF TurnsInv, QueuedOnce
  <2> QED BY <2>1, <2>2 DEF heads
<1>16. QueuedOnce'
  <2> SUFFICES ASSUME NEW d \in Conversations, NEW i \in 1..Len(queue'[d])
               PROVE  /\ turn'[queue'[d][i]].stage = "queued"
                      /\ turn'[queue'[d][i]].conv = d
                      /\ \A j \in 1..Len(queue'[d]) : queue'[d][i] = queue'[d][j] => i = j
    BY DEF QueuedOnce
  <2>1. CASE d \in Ready
    <3>1. Len(queue[d]) \in Nat /\ Len(queue'[d]) = Len(queue[d]) - 1
      BY <1>5, <1>12, <2>1 DEF Ready
    <3>2. \A j \in 1..Len(queue'[d]) : j + 1 \in 1..Len(queue[d]) /\ queue'[d][j] = queue[d][j + 1]
      <4>1. \A j \in 1..Len(queue'[d]) : queue'[d][j] = queue[d][j + 1]
        BY <1>12, <2>1
      <4>2. \A j \in 1..Len(queue'[d]) : j + 1 \in 1..Len(queue[d])
        BY <3>1
      <4> QED BY <4>1, <4>2
    <3>3. queue[d][i + 1] \in Turns /\ queue[d][i + 1] \notin heads
      BY <1>15, <3>2
    <3>4. turn[queue[d][i + 1]].stage = "queued" /\ turn[queue[d][i + 1]].conv = d
      BY <3>2 DEF TurnsInv, QueuedOnce
    <3>5. turn'[queue'[d][i]].stage = "queued" /\ turn'[queue'[d][i]].conv = d
      BY <1>9, <3>2, <3>3, <3>4
    <3>6. ASSUME NEW j \in 1..Len(queue'[d]), queue'[d][i] = queue'[d][j]
          PROVE  i = j
      <4>1. queue[d][i + 1] = queue[d][j + 1] /\ i + 1 \in 1..Len(queue[d]) /\ j + 1 \in 1..Len(queue[d])
        BY <3>2, <3>6
      <4>2. i + 1 = j + 1
        BY <4>1 DEF TurnsInv, QueuedOnce
      <4> QED BY <4>2
    <3> QED BY <3>5, <3>6
  <2>2. CASE d \notin Ready
    <3>1. /\ queue'[d] = queue[d] /\ i \in 1..Len(queue[d])
          /\ queue[d][i] \in Turns /\ queue[d][i] \notin heads
      BY <2>2, <1>13, <1>15
    <3>2. turn[queue[d][i]].stage = "queued" /\ turn[queue[d][i]].conv = d
      BY <3>1 DEF TurnsInv, QueuedOnce
    <3>3. \A j \in 1..Len(queue[d]) : queue[d][i] = queue[d][j] => i = j
      BY <3>1 DEF TurnsInv, QueuedOnce
    <3>4. turn'[queue[d][i]].stage = "queued" /\ turn'[queue[d][i]].conv = d
      BY <1>9, <3>1, <3>2
    <3> QED BY <3>1, <3>3, <3>4
  <2> QED BY <2>1, <2>2
<1>17. pendingCancels' \subseteq {d \in Conversations : Registered(d)}
  BY <1>3 DEF TurnsInv, TurnsTypeOK, StopMarkersHaveATurn
<1>18. up' \in BOOLEAN
  BY DEF TurnsInv, TurnsTypeOK
<1>19. TurnsInv'
  BY <1>10, <1>11, <1>14, <1>16, <1>17, <1>18, RecordsChange
<1>20. \A u \in Turns : turn'[u] = (IF u = t THEN r ELSE turn[u]) \/ StartedByEnd(u, ms)
  BY <1>8, <1>9
<1> QED BY <1>19, <1>20

LEMMA EmitFatalRecord ==
  ASSUME TurnsInv, NEW t \in Turns, turn[t].stage = "images"
  PROVE  LET r == [turn[t] EXCEPT !.stage = "ended"]
         IN /\ r \in Turn /\ Coherent(r) /\ r.stage = "ended" /\ r.conv = turn[t].conv
            /\ r.parent = turn[t].parent /\ r.fin = turn[t].fin /\ CountsUp(turn[t], r)
            /\ [turn EXCEPT ![t].stage = "ended"] = [turn EXCEPT ![t] = r]
            /\ turn[t].conv \in Conversations /\ ~Owns(t)
<1>1. turn[t] \in Turn /\ Coherent(turn[t])
  BY DEF TurnsInv, TurnsTypeOK, TurnsCoherent
<1>2. turn[t].conv \in Conversations
  BY <1>1 DEF Coherent
<1>3. ~Owns(t)
  BY UnregisteredIsNotOwned DEF Owns, Unregistered
<1> QED BY <1>1, <1>2, <1>3 DEF Turn, Stages, Coherent, TurnsInv, TurnsTypeOK, Unregistered, CountsUp

LEMMA FlushedRecord ==
  ASSUME TurnsInv, NEW t \in Turns, turn[t].fin = "flushing"
  PROVE  LET r == [turn[t] EXCEPT !.fin = "done"]
         IN /\ r \in Turn /\ Coherent(r) /\ r.stage = turn[t].stage /\ r.conv = turn[t].conv
            /\ r.parent = turn[t].parent /\ r.fin = "done" /\ CountsUp(turn[t], r)
            /\ [turn EXCEPT ![t].fin = "done"] = [turn EXCEPT ![t] = r]
            /\ turn[t].conv \in Conversations /\ ~Owns(t)
            /\ turn[t].stage \notin Unregistered
<1>1. turn[t] \in Turn /\ Coherent(turn[t])
  BY DEF TurnsInv, TurnsTypeOK, TurnsCoherent
<1>2. turn[t].stage \notin Unregistered /\ turn[t].conv \in Conversations
  BY <1>1 DEF Coherent, Unregistered
<1>3. ~Owns(t)
  BY SlotsAssumption DEF Owns, TurnsInv, RegisteredAreDriven, Driven
<1> QED BY <1>1, <1>2, <1>3 DEF Turn, Coherent, TurnsInv, TurnsTypeOK, Unregistered, CountsUp

-----------------------------------------------------------------------------
(* The tree *)

\* A stored reply keeps its turn.
KeepsReplies ==
  \A u \in Turns : turn[u].stage \notin Unregistered =>
    turn'[u].stage \notin Unregistered /\ turn'[u].parent = turn[u].parent

KeepsPrompts == \A u \in Turns : turn'[u].conv = turn[u].conv /\ turn'[u].parent = turn[u].parent

LEMMA AppendNode ==
  ASSUME NEW ms \in Seq(Message), NEW m \in Message, NEW tn, NEW l \in Nat,
         Rooted(ms, l), RepliesOf(ms, tn), m.parent <= Len(ms),
         m.role = "assistant" => /\ m.turn \in Turns
                                 /\ tn[m.turn].stage \notin Unregistered
                                 /\ m.parent = tn[m.turn].parent
  PROVE  /\ Append(ms, m) \in Seq(Message) /\ Len(Append(ms, m)) = Len(ms) + 1
         /\ Len(ms) \in Nat
         /\ Rooted(Append(ms, m), Len(ms) + 1) /\ RepliesOf(Append(ms, m), tn)
<1>1. /\ Append(ms, m) \in Seq(Message) /\ Len(Append(ms, m)) = Len(ms) + 1
      /\ \A i \in 1..Len(ms) : Append(ms, m)[i] = ms[i]
      /\ Append(ms, m)[Len(ms) + 1] = m
      /\ Len(ms) \in Nat
  BY AppendProperties, LenProperties
<1>2. \A i \in 1..Len(Append(ms, m)) : i \in 1..Len(ms) \/ i = Len(ms) + 1
  BY <1>1
<1>3. Rooted(Append(ms, m), Len(ms) + 1)
  <2> SUFFICES ASSUME NEW i \in 1..Len(Append(ms, m))
               PROVE  Append(ms, m)[i].parent < i
    BY <1>1 DEF Rooted
  <2>1. CASE i \in 1..Len(ms)
    BY <1>1, <2>1 DEF Rooted
  <2>2. CASE i = Len(ms) + 1
    BY <1>1, <2>2 DEF Message
  <2> QED BY <1>2, <2>1, <2>2
<1>4. RepliesOf(Append(ms, m), tn)
  BY <1>1, <1>2 DEF RepliesOf
<1> QED BY <1>1, <1>3, <1>4

LEMMA ReplaceNode ==
  ASSUME NEW ms \in Seq(Message), NEW m \in Message, NEW tn, NEW l \in Nat,
         Rooted(ms, l), RepliesOf(ms, tn), m.parent <= Len(ms),
         m.role = "assistant", m.turn \in Turns,
         tn[m.turn].stage \notin Unregistered, m.parent = tn[m.turn].parent
  PROVE  /\ ReplaceMessage(ms, m) \in Seq(Message)
         /\ Len(ReplaceMessage(ms, m)) >= Len(ms)
         /\ LeafAfterReplace(ms, l, m) \in Nat
         /\ Rooted(ReplaceMessage(ms, m), LeafAfterReplace(ms, l, m))
         /\ RepliesOf(ReplaceMessage(ms, m), tn)
<1>1. Len(ms) \in Nat /\ DOMAIN ms = 1..Len(ms) /\ \A i \in 1..Len(ms) : ms[i] \in Message
  BY LenProperties, ElementOfSeq
<1>2. CASE ReplyAt(ms, m.turn) = {}
  BY <1>1, <1>2, AppendNode DEF ReplaceMessage, LeafAfterReplace
<1>3. CASE ReplyAt(ms, m.turn) # {}
  <2> DEFINE rs == [i \in 1..Len(ms) |-> IF i \in ReplyAt(ms, m.turn) THEN m ELSE ms[i]]
  <2>1. ReplaceMessage(ms, m) = rs /\ LeafAfterReplace(ms, l, m) = l
    BY <1>1, <1>3 DEF ReplaceMessage, LeafAfterReplace
  <2>2. rs \in Seq(Message) /\ Len(rs) = Len(ms)
    BY <1>1
  <2>3. \A i \in ReplyAt(ms, m.turn) : i \in 1..Len(ms) /\ ms[i].parent = m.parent
    BY <1>1 DEF ReplyAt, RepliesOf
  <2>4. Rooted(rs, l)
    BY <2>2, <2>3 DEF Rooted
  <2>5. RepliesOf(rs, tn)
    BY <2>2, <2>3 DEF RepliesOf
  <2> QED BY <1>1, <2>1, <2>2, <2>4, <2>5, SMTT(30)
<1> QED BY <1>2, <1>3

LEMMA NoticeNodes ==
  ASSUME NEW ms \in Seq(Message), NEW tn, NEW l \in Nat, NEW k \in Nat,
         Rooted(ms, l), RepliesOf(ms, tn)
  PROVE  LET ns == ms \o NoticeChain(Len(ms), l, k)
         IN /\ ns \in Seq(Message) /\ Len(ns) = Len(ms) + k /\ Len(ms) \in Nat
            /\ Rooted(ns, IF k = 0 THEN l ELSE Len(ms) + k) /\ RepliesOf(ns, tn)
<1> DEFINE ch == NoticeChain(Len(ms), l, k)
           ns == ms \o ch
<1>1. Len(ms) \in Nat
  BY LenProperties
<1>2. \A i \in 1..k : ch[i] = Notice(IF i = 1 THEN l ELSE Len(ms) + i - 1)
  BY DEF NoticeChain
<1>3. \A p \in Nat : /\ Notice(p) \in Message /\ Notice(p).parent = p
                     /\ Notice(p).role = "system"
  BY DEF Notice, Message
<1>4. \A i \in 1..k : /\ ch[i] \in Message /\ ch[i].role = "system"
                      /\ ch[i].parent < Len(ms) + i
  <2> SUFFICES ASSUME NEW i \in 1..k
               PROVE  /\ ch[i] \in Message /\ ch[i].role = "system"
                      /\ ch[i].parent < Len(ms) + i
    OBVIOUS
  <2> DEFINE p == IF i = 1 THEN l ELSE Len(ms) + i - 1
  <2>1. p \in Nat /\ p < Len(ms) + i
    BY <1>1 DEF Rooted
  <2> QED BY <1>2, <1>3, <2>1
<1>5. ch \in Seq(Message) /\ Len(ch) = k
  <2>1. ch = [i \in 1..k |-> ch[i]]
    BY DEF NoticeChain
  <2> HIDE DEF ch
  <2>2. ch \in [1..k -> Message]
    BY <1>4, <2>1
  <2> QED BY <2>2
<1> HIDE DEF ch
<1>6. /\ ns \in Seq(Message) /\ Len(ns) = Len(ms) + k
      /\ \A i \in 1..(Len(ms) + k) : ns[i] = IF i <= Len(ms) THEN ms[i] ELSE ch[i - Len(ms)]
  BY <1>5, ConcatProperties
<1> HIDE DEF ns
<1>7. Rooted(ns, IF k = 0 THEN l ELSE Len(ms) + k)
  <2>1. ASSUME NEW i \in 1..Len(ns)
        PROVE  ns[i].parent < i
    <3>1. CASE i <= Len(ms)
      BY <1>1, <1>6, <3>1 DEF Rooted
    <3>2. CASE i > Len(ms)
      <4>1. i - Len(ms) \in 1..k /\ ns[i] = ch[i - Len(ms)]
        BY <1>1, <1>6, <3>2
      <4>2. ch[i - Len(ms)].parent < Len(ms) + (i - Len(ms))
        BY <1>4, <4>1
      <4> QED BY <1>1, <4>1, <4>2
    <3> QED BY <1>1, <3>1, <3>2
  <2> QED BY <1>1, <1>6, <2>1 DEF Rooted
<1>8. RepliesOf(ns, tn)
  <2> SUFFICES ASSUME NEW i \in 1..Len(ns), ns[i].role = "assistant"
               PROVE  /\ ns[i].turn \in Turns
                      /\ tn[ns[i].turn].stage \notin Unregistered
                      /\ ns[i].parent = tn[ns[i].turn].parent
    BY DEF RepliesOf
  <2>1. CASE i <= Len(ms)
    BY <1>1, <1>6, <2>1 DEF RepliesOf
  <2>2. CASE i > Len(ms)
    <3>1. i - Len(ms) \in 1..k /\ ns[i] = ch[i - Len(ms)]
      BY <1>1, <1>6, <2>2
    <3> QED BY <1>4, <3>1
  <2> QED BY <1>1, <2>1, <2>2
<1> QED BY <1>1, <1>6, <1>7, <1>8 DEF ns, ch

LEMMA TreeUnchanged ==
  ASSUME TreeInv, KeepsReplies, KeepsPrompts, UNCHANGED <<messages, leaf>>,
         pendingNotices' \in [Conversations -> Nat]
  PROVE  TreeInv'
<1>1. TreeTypeOK' /\ \A c \in Conversations : Rooted(messages'[c], leaf'[c])
  BY DEF TreeInv, TreeTypeOK
<1>2. \A c \in Conversations : RepliesOf(messages'[c], turn')
  BY DEF TreeInv, RepliesOf, KeepsReplies
<1>3. PromptsStored'
  BY DEF TreeInv, PromptsStored, KeepsPrompts
<1> QED BY <1>1, <1>2, <1>3 DEF TreeInv

LEMMA PersistStep ==
  ASSUME TurnsInv, TreeInv, NEW t \in Turns, turn[t].stage \notin Unregistered,
         NEW seal \in Outcomes \cup {"none", "partial"}, Persist(t, seal),
         KeepsReplies, KeepsPrompts, UNCHANGED pendingNotices
  PROVE  TreeInv'
<1> DEFINE c == turn[t].conv
           m == Reply(t, seal)
<1>1. turn[t] \in Turn /\ c \in Conversations
  BY DEF TurnsInv, TurnsTypeOK, TurnsCoherent, Coherent, Unregistered
<1>2. /\ m \in Message /\ m.role = "assistant" /\ m.turn = t /\ m.parent = turn[t].parent
      /\ m.parent <= Len(messages[c])
  BY <1>1 DEF Reply, Message, Turn, TreeInv, PromptsStored
<1>3. /\ messages' = [messages EXCEPT ![c] = ReplaceMessage(@, m)]
      /\ leaf' = [leaf EXCEPT ![c] = LeafAfterReplace(messages[c], @, m)]
  BY DEF Persist
<1>4. /\ messages[c] \in Seq(Message) /\ leaf[c] \in Nat
      /\ Rooted(messages[c], leaf[c]) /\ RepliesOf(messages[c], turn)
  BY <1>1 DEF TreeInv, TreeTypeOK
<1> HIDE DEF m, c
<1>5. /\ ReplaceMessage(messages[c], m) \in Seq(Message)
      /\ Len(ReplaceMessage(messages[c], m)) >= Len(messages[c])
      /\ LeafAfterReplace(messages[c], leaf[c], m) \in Nat
      /\ Rooted(ReplaceMessage(messages[c], m), LeafAfterReplace(messages[c], leaf[c], m))
      /\ RepliesOf(ReplaceMessage(messages[c], m), turn)
  BY <1>2, <1>4, ReplaceNode
<1>6. \A d \in Conversations :
        /\ messages'[d] = IF d = c THEN ReplaceMessage(messages[c], m) ELSE messages[d]
        /\ leaf'[d] = IF d = c THEN LeafAfterReplace(messages[c], leaf[c], m) ELSE leaf[d]
  BY <1>3 DEF TreeInv, TreeTypeOK
<1>7. TreeTypeOK'
  BY <1>3, <1>5 DEF TreeInv, TreeTypeOK
<1>8. \A d \in Conversations : Rooted(messages'[d], leaf'[d]) /\ RepliesOf(messages'[d], turn)
  BY <1>5, <1>6 DEF TreeInv
<1>9. \A d \in Conversations : RepliesOf(messages'[d], turn')
  BY <1>8 DEF RepliesOf, KeepsReplies
<1>10. PromptsStored'
  <2> SUFFICES ASSUME NEW u \in Turns, turn'[u].conv \in Conversations
               PROVE  turn'[u].parent <= Len(messages'[turn'[u].conv])
    BY DEF PromptsStored
  <2>1. /\ turn'[u].conv = turn[u].conv /\ turn'[u].parent = turn[u].parent
        /\ turn[u].parent \in Nat
    BY DEF KeepsPrompts, TurnsInv, TurnsTypeOK, Turn
  <2>2. PICK d \in Conversations : d = turn[u].conv
    BY <2>1
  <2>3. turn[u].parent <= Len(messages[d])
    BY <2>2 DEF TreeInv, PromptsStored
  <2>4. messages[d] \in Seq(Message) /\ messages'[d] \in Seq(Message)
    BY <1>7 DEF TreeInv, TreeTypeOK
  <2>5. Len(messages[d]) \in Nat /\ Len(messages'[d]) \in Nat
    BY <2>4, LenProperties
  <2>6. Len(messages'[d]) >= Len(messages[d])
    BY <2>5, <1>5, <1>6
  <2> QED BY <2>1, <2>2, <2>3, <2>5, <2>6
<1> QED BY <1>7, <1>8, <1>9, <1>10 DEF TreeInv

LEMMA EmitEndKeepsTree ==
  ASSUME TurnsInv, TreeInv, NEW c \in Conversations, NEW t \in Turns, NEW r \in Turn,
         turn[t].stage # "queued", r.conv = turn[t].conv, r.parent = turn[t].parent,
         NEW ms \in [Conversations -> Seq(Message)], NEW lf \in [Conversations -> Nat],
         NEW k \in Nat,
         \A d \in Conversations : /\ Len(messages[d]) <= Len(ms[d])
                                  /\ Rooted(ms[d], lf[d])
                                  /\ RepliesOf(ms[d], [turn EXCEPT ![t] = r]),
         EmitEnd(c, [turn EXCEPT ![t] = r], ms, lf, k),
         \A u \in Turns : turn'[u] = (IF u = t THEN r ELSE turn[u]) \/ StartedByEnd(u, ms),
         \A d \in Conversations : queue[d] # <<>> => Head(queue[d]) \in Turns,
         pendingNotices' \in [Conversations -> Nat]
  PROVE  TreeInv'
<1> DEFINE tn == [turn EXCEPT ![t] = r]
           ms1 == [d \in Conversations |->
                     IF d \in Ready THEN Append(ms[d], UserMessage(Head(queue[d]), lf[d])) ELSE ms[d]]
           lf1 == [d \in Conversations |-> IF d \in Ready THEN Len(ms1[d]) ELSE lf[d]]
<1>1. /\ messages' = [ms1 EXCEPT ![c] = @ \o NoticeChain(Len(@), lf1[c], k)]
      /\ leaf' = [lf1 EXCEPT ![c] = IF k = 0 THEN @ ELSE Len(ms1[c]) + k]
  BY DEF EmitEnd
<1>2. \A u \in Turns : tn[u] = IF u = t THEN r ELSE turn[u]
  BY DEF TurnsInv, TurnsTypeOK
<1>3. \A d \in Conversations : RepliesOf(ms[d], turn')
  <2>1. \A u \in Turns : tn[u].stage \notin Unregistered => turn'[u] = tn[u]
    BY <1>2 DEF StartedByEnd, Unregistered
  <2> HIDE DEF tn
  <2>2. \A d \in Conversations : RepliesOf(ms[d], tn)
    BY DEF tn
  <2> SUFFICES ASSUME NEW d \in Conversations, NEW i \in 1..Len(ms[d]),
                      ms[d][i].role = "assistant"
               PROVE  /\ ms[d][i].turn \in Turns
                      /\ turn'[ms[d][i].turn].stage \notin Unregistered
                      /\ ms[d][i].parent = turn'[ms[d][i].turn].parent
    BY DEF RepliesOf
  <2>3. /\ ms[d][i].turn \in Turns
        /\ tn[ms[d][i].turn].stage \notin Unregistered
        /\ ms[d][i].parent = tn[ms[d][i].turn].parent
    BY <2>2 DEF RepliesOf
  <2> QED BY <2>1, <2>3
<1>4. \A d \in Conversations :
        /\ ms1[d] \in Seq(Message) /\ lf1[d] \in Nat /\ Len(ms[d]) \in Nat
        /\ Len(ms1[d]) = IF d \in Ready THEN Len(ms[d]) + 1 ELSE Len(ms[d])
        /\ Rooted(ms1[d], lf1[d]) /\ RepliesOf(ms1[d], turn')
  <2> SUFFICES ASSUME NEW d \in Conversations
               PROVE  /\ ms1[d] \in Seq(Message) /\ lf1[d] \in Nat /\ Len(ms[d]) \in Nat
                      /\ Len(ms1[d]) = IF d \in Ready THEN Len(ms[d]) + 1 ELSE Len(ms[d])
                      /\ Rooted(ms1[d], lf1[d]) /\ RepliesOf(ms1[d], turn')
    OBVIOUS
  <2>1. ms[d] \in Seq(Message) /\ lf[d] \in Nat /\ Len(ms[d]) \in Nat
    BY LenProperties
  <2>2. CASE d \in Ready
    <3> DEFINE m == UserMessage(Head(queue[d]), lf[d])
    <3>1. Head(queue[d]) \in Turns
      BY <2>2 DEF Ready
    <3>2. m \in Message /\ m.role = "user" /\ m.parent = lf[d] /\ lf[d] <= Len(ms[d])
      BY <2>1, <3>1 DEF UserMessage, Message, Rooted
    <3>3. ms1[d] = Append(ms[d], m) /\ lf1[d] = Len(ms1[d])
      BY <2>2
    <3> HIDE DEF m, ms1, lf1
    <3>4. /\ Append(ms[d], m) \in Seq(Message) /\ Len(Append(ms[d], m)) = Len(ms[d]) + 1
          /\ Rooted(Append(ms[d], m), Len(ms[d]) + 1) /\ RepliesOf(Append(ms[d], m), turn')
      BY <2>1, <3>2, <1>3, AppendNode
    <3> QED BY <2>1, <2>2, <3>3, <3>4
  <2>3. CASE d \notin Ready
    BY <2>1, <2>3, <1>3
  <2> QED BY <2>2, <2>3
<1>5. DOMAIN ms1 = Conversations /\ DOMAIN lf1 = Conversations
  OBVIOUS
<1> HIDE DEF ms1, lf1
<1>6. /\ messages' = [d \in Conversations |->
                        IF d = c THEN ms1[c] \o NoticeChain(Len(ms1[c]), lf1[c], k) ELSE ms1[d]]
      /\ leaf' = [d \in Conversations |->
                        IF d = c THEN IF k = 0 THEN lf1[c] ELSE Len(ms1[c]) + k ELSE lf1[d]]
  BY <1>1, <1>5, <1>4
<1>7. \A d \in Conversations :
        /\ messages'[d] \in Seq(Message) /\ leaf'[d] \in Nat
        /\ Len(messages'[d]) >= Len(ms1[d])
        /\ Rooted(messages'[d], leaf'[d]) /\ RepliesOf(messages'[d], turn')
  <2> SUFFICES ASSUME NEW d \in Conversations
               PROVE  /\ messages'[d] \in Seq(Message) /\ leaf'[d] \in Nat
                      /\ Len(messages'[d]) >= Len(ms1[d])
                      /\ Rooted(messages'[d], leaf'[d]) /\ RepliesOf(messages'[d], turn')
    OBVIOUS
  <2>1. CASE d = c
    <3> DEFINE ns == ms1[c] \o NoticeChain(Len(ms1[c]), lf1[c], k)
               nl == IF k = 0 THEN lf1[c] ELSE Len(ms1[c]) + k
    <3>1. messages'[c] = ns /\ leaf'[c] = nl
      BY <1>6
    <3>2. /\ ns \in Seq(Message) /\ Len(ns) = Len(ms1[c]) + k /\ Len(ms1[c]) \in Nat
          /\ Rooted(ns, IF k = 0 THEN lf1[c] ELSE Len(ms1[c]) + k) /\ RepliesOf(ns, turn')
      BY <1>4, NoticeNodes
    <3>3. nl \in Nat
      BY <1>4, <3>2
    <3> HIDE DEF ns
    <3> QED BY <2>1, <3>1, <3>2, <3>3
  <2>2. CASE d # c
    <3>1. messages'[d] = ms1[d] /\ leaf'[d] = lf1[d]
      BY <2>2, <1>6
    <3>2. Len(ms1[d]) \in Nat
      BY <1>4, LenProperties
    <3> QED BY <3>1, <3>2, <1>4
  <2> QED BY <2>1, <2>2
<1>8. TreeTypeOK'
  BY <1>6, <1>7 DEF TreeTypeOK
<1>9. PromptsStored'
  <2> SUFFICES ASSUME NEW u \in Turns, turn'[u].conv \in Conversations
               PROVE  turn'[u].parent <= Len(messages'[turn'[u].conv])
    BY DEF PromptsStored
  <2>1. turn'[u].conv = turn[u].conv
    BY DEF StartedByEnd
  <2>2. PICK d \in Conversations : d = turn[u].conv
    BY <2>1
  <2>3. messages[d] \in Seq(Message) /\ messages'[d] \in Seq(Message) /\ ms1[d] \in Seq(Message)
    BY <1>4, <1>7 DEF TreeInv, TreeTypeOK
  <2>4. Len(messages[d]) \in Nat /\ Len(messages'[d]) \in Nat /\ Len(ms1[d]) \in Nat
    BY <2>3, LenProperties
  <2>5. Len(ms[d]) \in Nat /\ Len(messages[d]) <= Len(ms[d]) /\ Len(ms1[d]) <= Len(messages'[d])
    BY <1>4, <1>7
  <2>6. Len(ms1[d]) = IF d \in Ready THEN Len(ms[d]) + 1 ELSE Len(ms[d])
    BY <1>4
  <2>7. CASE StartedByEnd(u, ms)
    <3>1. d \in Ready /\ turn'[u].parent = Len(ms[d]) + 1
      BY <2>2, <2>7 DEF StartedByEnd
    <3> QED BY <2>1, <2>2, <2>4, <2>5, <2>6, <3>1
  <2>8. CASE turn'[u] = IF u = t THEN r ELSE turn[u]
    <3>1. turn'[u].parent = turn[u].parent /\ turn[u].parent \in Nat
      BY <2>8 DEF TurnsInv, TurnsTypeOK, Turn
    <3>2. turn[u].parent <= Len(messages[d])
      BY <2>2 DEF TreeInv, PromptsStored
    <3>3. Len(messages[d]) <= Len(messages'[d])
      BY <2>4, <2>5, <2>6
    <3>4. turn[u].parent <= Len(messages'[d])
      BY <2>4, <3>1, <3>2, <3>3
    <3> QED BY <2>1, <2>2, <3>1, <3>4
  <2> QED BY <2>7, <2>8
<1> QED BY <1>7, <1>8, <1>9 DEF TreeInv

\* A prompt or a notice is stored, and the leaf moves to it.
LEMMA AppendStep ==
  ASSUME TreeInv, NEW c \in Conversations, NEW m \in Message, m.role # "assistant",
         m.parent <= Len(messages[c]),
         messages' = [messages EXCEPT ![c] = Append(@, m)],
         leaf' = [leaf EXCEPT ![c] = Len(messages[c]) + 1],
         KeepsReplies, pendingNotices' \in [Conversations -> Nat],
         \A u \in Turns : \/ turn'[u].conv = turn[u].conv /\ turn'[u].parent = turn[u].parent
                          \/ turn'[u].conv = c /\ turn'[u].parent <= Len(messages[c]) + 1,
         turn \in [Turns -> Turn]
  PROVE  TreeInv'
<1>1. /\ messages[c] \in Seq(Message) /\ leaf[c] \in Nat
      /\ Rooted(messages[c], leaf[c]) /\ RepliesOf(messages[c], turn)
  BY DEF TreeInv, TreeTypeOK
<1>2. /\ Append(messages[c], m) \in Seq(Message)
      /\ Len(Append(messages[c], m)) = Len(messages[c]) + 1 /\ Len(messages[c]) \in Nat
      /\ Rooted(Append(messages[c], m), Len(messages[c]) + 1)
      /\ RepliesOf(Append(messages[c], m), turn)
  BY <1>1, AppendNode
<1>3. \A d \in Conversations :
        /\ messages'[d] = IF d = c THEN Append(messages[c], m) ELSE messages[d]
        /\ leaf'[d] = IF d = c THEN Len(messages[c]) + 1 ELSE leaf[d]
  BY DEF TreeInv, TreeTypeOK
<1>4. TreeTypeOK'
  <2>1. \A d \in Conversations : messages'[d] \in Seq(Message) /\ leaf'[d] \in Nat
    BY <1>2, <1>3 DEF TreeInv, TreeTypeOK
  <2>2. /\ messages' = [d \in Conversations |-> messages'[d]]
        /\ leaf' = [d \in Conversations |-> leaf'[d]]
    BY DEF TreeInv, TreeTypeOK
  <2> QED BY <2>1, <2>2 DEF TreeTypeOK
<1>5. \A d \in Conversations : Rooted(messages'[d], leaf'[d]) /\ RepliesOf(messages'[d], turn)
  BY <1>2, <1>3 DEF TreeInv
<1>6. \A d \in Conversations : RepliesOf(messages'[d], turn')
  BY <1>5 DEF RepliesOf, KeepsReplies
<1>7. PromptsStored'
  <2> SUFFICES ASSUME NEW u \in Turns, NEW d \in Conversations, d = turn'[u].conv
               PROVE  turn'[u].parent <= Len(messages'[d])
    BY DEF PromptsStored
  <2>1. messages[d] \in Seq(Message) /\ messages'[d] \in Seq(Message)
    BY <1>4 DEF TreeInv, TreeTypeOK
  <2>2. Len(messages[d]) \in Nat /\ Len(messages'[d]) \in Nat
    BY <2>1, LenProperties
  <2>3. Len(messages'[d]) = IF d = c THEN Len(messages[d]) + 1 ELSE Len(messages[d])
    <3>1. d = c => Len(messages'[d]) = Len(messages[d]) + 1
      BY <1>2, <1>3
    <3>2. d # c => messages'[d] = messages[d]
      BY <1>3
    <3> QED BY <3>1, <3>2
  <2>4. CASE turn'[u].conv = turn[u].conv /\ turn'[u].parent = turn[u].parent
    <3>1. turn[u].parent <= Len(messages[d]) /\ turn[u].parent \in Nat
      BY <2>4 DEF TreeInv, PromptsStored, Turn
    <3> QED BY <2>2, <2>3, <2>4, <3>1
  <2>5. CASE turn'[u].conv = c /\ turn'[u].parent <= Len(messages[c]) + 1
    BY <2>3, <2>5
  <2> QED BY <2>4, <2>5
<1> QED BY <1>4, <1>5, <1>6, <1>7 DEF TreeInv

\* The leaf moves to a stored node, or to the root.
LEMMA MoveLeaf ==
  ASSUME TreeInv, NEW c \in Conversations, NEW p \in Nat, p <= Len(messages[c]),
         messages' = messages, leaf' = [leaf EXCEPT ![c] = p], KeepsReplies,
         \A u \in Turns : \/ turn'[u].conv = turn[u].conv /\ turn'[u].parent = turn[u].parent
                          \/ turn'[u].conv = c /\ turn'[u].parent <= Len(messages[c]),
         pendingNotices' \in [Conversations -> Nat]
  PROVE  TreeInv'
<1>1. \A d \in Conversations : leaf'[d] = IF d = c THEN p ELSE leaf[d]
  BY DEF TreeInv, TreeTypeOK
<1>2. TreeTypeOK'
  BY DEF TreeInv, TreeTypeOK
<1>3. \A d \in Conversations : Rooted(messages'[d], leaf'[d])
  BY <1>1 DEF TreeInv, Rooted
<1>4. \A d \in Conversations : RepliesOf(messages'[d], turn')
  BY DEF TreeInv, RepliesOf, KeepsReplies
<1>5. PromptsStored'
  BY DEF TreeInv, PromptsStored
<1> QED BY <1>2, <1>3, <1>4, <1>5 DEF TreeInv

\* Positions the user picks: the parent above one is a stored node or the root.
LEMMA PickedParent ==
  ASSUME TreeInv, NEW c \in Conversations, NEW i \in DOMAIN messages[c]
  PROVE  /\ i \in 1..Len(messages[c]) /\ Len(messages[c]) \in Nat
         /\ messages[c][i].parent \in Nat /\ messages[c][i].parent <= Len(messages[c])
<1>1. messages[c] \in Seq(Message)
  BY DEF TreeInv, TreeTypeOK
<1>2. i \in 1..Len(messages[c]) /\ Len(messages[c]) \in Nat
  BY <1>1, LenProperties
<1>3. messages[c][i] \in Message
  BY <1>1, <1>2, ElementOfSeq
<1>4. messages[c][i].parent < i
  BY <1>2 DEF TreeInv, Rooted
<1> QED BY <1>2, <1>3, <1>4 DEF Message

-----------------------------------------------------------------------------
(* Each action keeps IInv *)

LEMMA RunKeeps ==
  ASSUME IInv, NEW c \in Conversations, NEW t \in Turns, NEW parent \in Nat,
         Free(t), Run(c, t, parent), parent <= Len(messages[c])
  PROVE  IInv'
<1> DEFINE n == Len(messages[c]) + 1
<1>1. messages[c] \in Seq(Message) /\ Len(messages[c]) \in Nat
  BY LenProperties DEF IInv, TreeInv, TreeTypeOK
<1>2. turn[t].stage = "free"
  BY DEF Free, Turns
<1>3. /\ Step(t, StartedTurn(t, c, n)) /\ pendingCancels' = pendingCancels \ {c}
      /\ messages' = [messages EXCEPT ![c] = Append(@, UserMessage(t, parent))]
      /\ leaf' = [leaf EXCEPT ![c] = n]
      /\ UNCHANGED <<turns, pendingNotices, queue, up>>
  BY DEF Run
<1>4. TurnsInv'
  BY <1>1, <1>3, AcceptedKeepsTurns DEF IInv
<1>5. StartedTurn(t, c, n).conv = c /\ StartedTurn(t, c, n).parent = n
  BY <1>1, <1>2, Accepted DEF IInv
<1>6. \A u \in Turns : turn'[u] = IF u = t THEN StartedTurn(t, c, n) ELSE turn[u]
  BY <1>3 DEF Step, IInv, TurnsInv, TurnsTypeOK
<1>7. KeepsReplies
  BY <1>2, <1>6 DEF KeepsReplies, Unregistered
<1>8. \A u \in Turns : \/ turn'[u].conv = turn[u].conv /\ turn'[u].parent = turn[u].parent
                       \/ turn'[u].conv = c /\ turn'[u].parent <= Len(messages[c]) + 1
  BY <1>1, <1>5, <1>6
<1>9. /\ UserMessage(t, parent) \in Message /\ UserMessage(t, parent).role # "assistant"
      /\ UserMessage(t, parent).parent = parent
  BY DEF UserMessage, Message
<1>10. TreeInv'
  BY <1>3, <1>7, <1>8, <1>9, AppendStep DEF IInv, TurnsInv, TurnsTypeOK, TreeInv, TreeTypeOK
<1> QED BY <1>4, <1>10 DEF IInv

LEMMA SendNowKeeps ==
  ASSUME IInv, NEW c \in Conversations, NEW t \in Turns, SendNow(c, t)
  PROVE  IInv'
<1>1. leaf[c] \in Nat /\ leaf[c] <= Len(messages[c])
  BY DEF IInv, TreeInv, TreeTypeOK, Rooted
<1> QED BY <1>1, RunKeeps DEF SendNow

LEMMA EditKeeps ==
  ASSUME IInv, NEW c \in Conversations, NEW t \in Turns, NEW i \in DOMAIN messages[c],
         EditUserMessage(c, t, i)
  PROVE  IInv'
BY PickedParent, RunKeeps DEF EditUserMessage, IInv

LEMMA RegenerateKeeps ==
  ASSUME IInv, NEW c \in Conversations, NEW t \in Turns, NEW i \in DOMAIN messages[c],
         Regenerate(c, t, i)
  PROVE  IInv'
<1> DEFINE p == IF messages[c][i].role = "assistant" THEN messages[c][i].parent ELSE i
<1>1. p \in Nat /\ p <= Len(messages[c])
  BY PickedParent DEF IInv
<1>2. /\ Free(t) /\ leaf' = [leaf EXCEPT ![c] = p] /\ Step(t, StartedTurn(t, c, p))
      /\ pendingCancels' = pendingCancels \ {c}
      /\ UNCHANGED <<turns, pendingNotices, queue, messages, up>>
  BY DEF Regenerate
<1> HIDE DEF p
<1>3. turn[t].stage = "free"
  BY <1>2 DEF Free, Turns
<1>4. TurnsInv'
  BY <1>1, <1>2, AcceptedKeepsTurns DEF IInv
<1>5. StartedTurn(t, c, p).conv = c /\ StartedTurn(t, c, p).parent = p
  BY <1>1, <1>3, Accepted DEF IInv
<1>6. \A u \in Turns : turn'[u] = IF u = t THEN StartedTurn(t, c, p) ELSE turn[u]
  BY <1>2 DEF Step, IInv, TurnsInv, TurnsTypeOK
<1>7. KeepsReplies
  BY <1>3, <1>6 DEF KeepsReplies, Unregistered
<1>8. \A u \in Turns : \/ turn'[u].conv = turn[u].conv /\ turn'[u].parent = turn[u].parent
                       \/ turn'[u].conv = c /\ turn'[u].parent <= Len(messages[c])
  BY <1>1, <1>5, <1>6
<1>9. TreeInv'
  BY <1>1, <1>2, <1>7, <1>8, MoveLeaf DEF IInv, TreeInv, TreeTypeOK
<1> QED BY <1>4, <1>9 DEF IInv

\* An action that leaves the turns alone.
LEMMA TurnsUnchanged ==
  ASSUME TurnsInv, UNCHANGED <<turns, turn, pendingCancels, queue>>, up' \in BOOLEAN
  PROVE  TurnsInv' /\ KeepsReplies /\ KeepsPrompts
<1>1. TurnsInv'
  BY DEF TurnsInv, TurnsTypeOK, TurnsCoherent, StopMarkersHaveATurn, Registered,
         RegisteredAreDriven, Driven, QueuedOnce
<1>2. KeepsReplies /\ KeepsPrompts
  BY DEF KeepsReplies, KeepsPrompts
<1> QED BY <1>1, <1>2

LEMMA ForkKeeps ==
  ASSUME IInv, NEW c \in Conversations, NEW i \in DOMAIN messages[c] \cup {0}, Fork(c, i)
  PROVE  IInv'
<1> DEFINE p == IF i # 0 /\ messages[c][i].role = "user" THEN messages[c][i].parent ELSE i
<1>1. p \in Nat /\ p <= Len(messages[c])
  <2>1. Len(messages[c]) \in Nat
    BY LenProperties DEF IInv, TreeInv, TreeTypeOK
  <2> QED BY <2>1, PickedParent DEF IInv
<1>2. /\ leaf' = [leaf EXCEPT ![c] = p]
      /\ UNCHANGED <<turns, turn, pendingCancels, pendingNotices, queue, messages, up>>
  BY DEF Fork
<1> HIDE DEF p
<1>3. TurnsInv' /\ KeepsReplies /\ KeepsPrompts
  BY <1>2, TurnsUnchanged DEF IInv, TurnsInv, TurnsTypeOK
<1>4. TreeInv'
  BY <1>1, <1>2, <1>3, MoveLeaf DEF IInv, TreeInv, TreeTypeOK
<1> QED BY <1>3, <1>4 DEF IInv

LEMMA AppendNoticeKeeps ==
  ASSUME IInv, NEW c \in Conversations, AppendNotice(c)
  PROVE  IInv'
<1>1. TurnsInv' /\ KeepsReplies /\ KeepsPrompts
  BY TurnsUnchanged DEF AppendNotice, IInv, TurnsInv, TurnsTypeOK
<1>2. CASE Registered(c)
  <2>1. pendingNotices' \in [Conversations -> Nat] /\ UNCHANGED <<messages, leaf>>
    BY <1>2 DEF AppendNotice, IInv, TreeInv, TreeTypeOK
  <2> QED BY <1>1, <2>1, TreeUnchanged DEF IInv
<1>3. CASE ~Registered(c)
  <2>1. leaf[c] \in Nat /\ leaf[c] <= Len(messages[c])
    BY DEF IInv, TreeInv, TreeTypeOK, Rooted
  <2>2. /\ Notice(leaf[c]) \in Message /\ Notice(leaf[c]).role # "assistant"
        /\ Notice(leaf[c]).parent = leaf[c]
    BY <2>1 DEF Notice, Message
  <2>3. /\ messages' = [messages EXCEPT ![c] = Append(@, Notice(leaf[c]))]
        /\ leaf' = [leaf EXCEPT ![c] = Len(messages[c]) + 1]
        /\ UNCHANGED pendingNotices
    BY <1>3 DEF AppendNotice
  <2>4. \A u \in Turns : turn'[u].conv = turn[u].conv /\ turn'[u].parent = turn[u].parent
    BY <1>1 DEF KeepsPrompts
  <2>5. pendingNotices' \in [Conversations -> Nat] /\ turn \in [Turns -> Turn] /\ TreeInv
    BY <2>3 DEF IInv, TreeInv, TreeTypeOK, TurnsInv, TurnsTypeOK
  <2>6. TreeInv'
    BY <1>1, <2>1, <2>2, <2>3, <2>4, <2>5, AppendStep
  <2> QED BY <1>1, <2>6 DEF IInv
<1> QED BY <1>2, <1>3

LEMMA EnqueueKeeps ==
  ASSUME IInv, NEW c \in Conversations, NEW t \in Turns, Enqueue(c, t)
  PROVE  IInv'
<1>1. turn[t].stage = "free"
  BY DEF Enqueue, Free, Turns
<1>2. TurnsInv'
  BY EnqueueKeepsTurns DEF IInv
<1>3. turn[t] \in Turn /\ turn[t].parent = 0
  BY <1>1 DEF IInv, TurnsInv, TurnsTypeOK, TurnsCoherent, Coherent
<1>4. \A u \in Turns : u # t => turn'[u] = turn[u]
  BY DEF Enqueue, Step, IInv, TurnsInv, TurnsTypeOK
<1>5. turn'[t].conv = c /\ turn'[t].parent = 0
  BY <1>3 DEF Enqueue, Step, IInv, TurnsInv, TurnsTypeOK, Turn
<1>6. KeepsReplies
  BY <1>1, <1>4 DEF KeepsReplies, Unregistered
<1>7. leaf[c] \in Nat /\ messages[c] \in Seq(Message) /\ UNCHANGED <<messages, leaf, pendingNotices>>
  BY DEF Enqueue, IInv, TreeInv, TreeTypeOK
<1>8. Len(messages[c]) \in Nat
  BY <1>7, LenProperties
<1>9. \A d \in Conversations : leaf[d] <= Len(messages[d])
  BY DEF IInv, TreeInv, Rooted
<1>10. leaf' = [leaf EXCEPT ![c] = leaf[c]]
  BY <1>7 DEF IInv, TreeInv, TreeTypeOK
<1>11. \A u \in Turns : \/ turn'[u].conv = turn[u].conv /\ turn'[u].parent = turn[u].parent
                        \/ turn'[u].conv = c /\ turn'[u].parent <= Len(messages[c])
  BY <1>4, <1>5, <1>8
<1>12. TreeInv'
  BY <1>6, <1>7, <1>9, <1>10, <1>11, MoveLeaf DEF IInv, TreeInv, TreeTypeOK
<1> QED BY <1>2, <1>12 DEF IInv

LEMMA CancelKeeps ==
  ASSUME IInv, NEW c \in Conversations, Cancel(c)
  PROVE  IInv'
<1>1. TurnsInv'
  BY CancelKeepsTurns DEF IInv
<1>2. \A t \in Turns : turn[t] \in Turn /\ Coherent(turn[t]) /\ (Owns(t) => Driven(turn[t]))
  BY SlotsAssumption DEF IInv, TurnsInv, TurnsTypeOK, TurnsCoherent, RegisteredAreDriven, Owns
<1>3. \A t \in Turns : /\ turn'[t].conv = turn[t].conv /\ turn'[t].parent = turn[t].parent
                       /\ turn[t].stage \notin Unregistered => turn'[t].stage \notin Unregistered
  <2> SUFFICES ASSUME NEW t \in Turns
               PROVE  /\ turn'[t].conv = turn[t].conv /\ turn'[t].parent = turn[t].parent
                      /\ turn[t].stage \notin Unregistered => turn'[t].stage \notin Unregistered
    OBVIOUS
  <2>1. CASE t \in Stopped(c)
    <3>1. turn'[t] = StopTurn(turn[t]) /\ Driven(turn[t])
      BY <2>1, <1>2, StoppedAreOwned DEF Cancel, IInv
    <3> QED BY <3>1, <1>2, StopTurnIsDriven
  <2>2. CASE t \notin Stopped(c)
    BY <2>2, <1>2 DEF Cancel, Turn, Unregistered
  <2> QED BY <2>1, <2>2
<1>4. KeepsReplies /\ KeepsPrompts
  BY <1>3 DEF KeepsReplies, KeepsPrompts
<1>5. UNCHANGED <<messages, leaf>> /\ pendingNotices' \in [Conversations -> Nat]
  BY DEF Cancel, IInv, TreeInv, TreeTypeOK
<1> QED BY <1>1, <1>4, <1>5, TreeUnchanged DEF IInv

\* A step of one turn's loop that may write its reply.
LEMMA LoopKeeps ==
  ASSUME IInv, NEW t \in Turns, NEW r \in Turn, Step(t, r),
         r.conv = turn[t].conv, r.parent = turn[t].parent, r.stage \notin Unregistered,
         turn[t].stage \notin Unregistered, Coherent(r), Owns(t) => Driven(r),
         UNCHANGED <<turns, pendingCancels, queue, up, pendingNotices>>,
         UNCHANGED <<messages, leaf>>
           \/ \E seal \in Outcomes \cup {"none", "partial"} : Persist(t, seal)
  PROVE  IInv'
<1>1. TurnsInv'
  BY LoopStep DEF IInv, TurnsInv, TurnsTypeOK, Unregistered
<1>2. \A u \in Turns : turn'[u] = IF u = t THEN r ELSE turn[u]
  BY DEF Step, IInv, TurnsInv, TurnsTypeOK
<1>3. KeepsReplies /\ KeepsPrompts
  BY <1>2 DEF KeepsReplies, KeepsPrompts
<1>4. pendingNotices' \in [Conversations -> Nat]
  BY DEF IInv, TreeInv, TreeTypeOK
<1>5. CASE UNCHANGED <<messages, leaf>>
  BY <1>1, <1>3, <1>4, <1>5, TreeUnchanged DEF IInv
<1>6. ASSUME NEW seal \in Outcomes \cup {"none", "partial"}, Persist(t, seal)
      PROVE  IInv'
  BY <1>1, <1>3, <1>6, PersistStep DEF IInv
<1> QED BY <1>5, <1>6

\* finish, without a write.
LEMMA FinishKeeps ==
  ASSUME IInv, NEW t \in Turns, NEW r \in Turn, NEW outcome \in Outcomes,
         Finish(t, r, outcome), r.conv = turn[t].conv, r.parent = turn[t].parent,
         r.stage \notin Unregistered, turn[t].stage \notin Unregistered, Coherent(r),
         UNCHANGED <<queue, up, pendingNotices, messages, leaf>>
  PROVE  IInv'
<1>1. TurnsInv'
  BY FinishStep DEF IInv, TurnsInv, TurnsTypeOK, Unregistered
<1>2. \A u \in Turns : /\ turn'[u].conv = turn[u].conv /\ turn'[u].parent = turn[u].parent
                       /\ u # t => turn'[u] = turn[u]
                       /\ turn'[t].stage = r.stage
  <2>1. turn \in [Turns -> Turn]
    BY DEF IInv, TurnsInv, TurnsTypeOK
  <2>2. /\ \A u \in Turns : u # t => turn'[u] = turn[u]
        /\ turn'[t].conv = r.conv /\ turn'[t].parent = r.parent /\ turn'[t].stage = r.stage
    <3>1. CASE Owns(t)
      <4> DEFINE s == [r EXCEPT !.fin = "sealing", !.checkpoint = FALSE,
                                !.outcome = IF r.cancelled THEN "cancelled" ELSE outcome]
      <4>1. turn' = [turn EXCEPT ![t] = s]
        BY <3>1 DEF Finish, Step
      <4>2. s.conv = r.conv /\ s.parent = r.parent /\ s.stage = r.stage
        BY DEF Turn
      <4> HIDE DEF s
      <4> QED BY <2>1, <4>1, <4>2
    <3>2. CASE ~Owns(t)
      BY <2>1, <3>2 DEF Finish, Step
    <3> QED BY <3>1, <3>2
  <2> QED BY <2>2
<1>3. KeepsReplies /\ KeepsPrompts
  BY <1>2 DEF KeepsReplies, KeepsPrompts
<1>4. pendingNotices' \in [Conversations -> Nat]
  BY DEF IInv, TreeInv, TreeTypeOK
<1> QED BY <1>1, <1>3, <1>4, TreeUnchanged DEF IInv

\* What IInv says of one turn.
LEMMA OneTurn ==
  ASSUME IInv, NEW t \in Turns
  PROVE  turn[t] \in Turn /\ Coherent(turn[t]) /\ (Owns(t) => Driven(turn[t]))
BY SlotsAssumption DEF IInv, TurnsInv, TurnsTypeOK, TurnsCoherent, RegisteredAreDriven, Owns

LEMMA AnswerTargetsArePending ==
  ASSUME IInv, NEW c \in Conversations, NEW id \in CallIds
  PROVE  \A t \in AnswerTargets(c, id) : t \in Turns /\ turn[t].pending # {}
BY DEF AnswerTargets

LEMMA AnswerKeeps ==
  ASSUME IInv, NEW c \in Conversations, NEW id \in CallIds, NEW accepted \in BOOLEAN,
         Answer(c, id, accepted)
  PROVE  IInv'
<1>1. PICK t \in AnswerTargets(c, id) : Step(t, Resolved(turn[t], accepted))
  BY DEF Answer
<1>2. t \in Turns /\ turn[t].pending # {}
  BY AnswerTargetsArePending
<1> DEFINE r == Resolved(turn[t], accepted)
<1>3. /\ turn[t] \in Turn /\ Coherent(turn[t]) /\ (Owns(t) => Driven(turn[t]))
      /\ turn[t].stage = "parked"
  BY <1>2, OneTurn DEF Coherent
<1>4. /\ r \in Turn /\ Coherent(r) /\ (Owns(t) => Driven(r))
      /\ r.conv = turn[t].conv /\ r.parent = turn[t].parent /\ r.stage \notin Unregistered
      /\ turn[t].stage \notin Unregistered
  BY <1>3 DEF Resolved, Turn, Coherent, Driven, Stages, Phases, Unregistered
<1> HIDE DEF r
<1>5. UNCHANGED <<turns, pendingCancels, queue, up, pendingNotices, messages, leaf>> /\ Step(t, r)
  BY <1>1 DEF Answer, r
<1> QED BY <1>2, <1>4, <1>5, LoopKeeps

LEMMA RegisterKeeps ==
  ASSUME IInv, NEW t \in Turns, Register(t) \/ StopBeforeRegister(t)
  PROVE  IInv'
<1>1. TurnsInv'
  BY RegisterKeepsTurns, StopBeforeRegisterKeepsTurns DEF IInv
<1>2. turn[t].stage = "images" /\ turn[t] \in Turn
  BY OneTurn DEF Register, StopBeforeRegister, At
<1>3. \A u \in Turns : turn'[u].conv = turn[u].conv /\ turn'[u].parent = turn[u].parent
                       /\ (u # t => turn'[u] = turn[u])
  BY <1>2 DEF Register, StopBeforeRegister, Step, IInv, TurnsInv, TurnsTypeOK, Turn
<1>4. KeepsReplies /\ KeepsPrompts
  BY <1>2, <1>3 DEF KeepsReplies, KeepsPrompts, Unregistered
<1>5. UNCHANGED <<messages, leaf>> /\ pendingNotices' \in [Conversations -> Nat]
  BY DEF Register, StopBeforeRegister, IInv, TreeInv, TreeTypeOK
<1> QED BY <1>1, <1>4, <1>5, TreeUnchanged DEF IInv

\* An `end` that a turn t emits while it is in the record r.
LEMMA EmitEndKeeps ==
  ASSUME IInv, NEW t \in Turns, NEW r \in Turn, NEW ms \in [Conversations -> Seq(Message)],
         NEW lf \in [Conversations -> Nat], NEW k \in Nat,
         turn[t].stage # "queued", r.stage # "queued", Coherent(r), ~Owns(t),
         r.conv = turn[t].conv, r.parent = turn[t].parent, turn[t].conv \in Conversations,
         \A d \in Conversations : /\ Len(messages[d]) <= Len(ms[d])
                                  /\ Rooted(ms[d], lf[d])
                                  /\ RepliesOf(ms[d], [turn EXCEPT ![t] = r]),
         EmitEnd(turn[t].conv, [turn EXCEPT ![t] = r], ms, lf, k),
         pendingNotices' \in [Conversations -> Nat], UNCHANGED <<turns, up>>
  PROVE  IInv' /\ \A u \in Turns : turn'[u] = (IF u = t THEN r ELSE turn[u]) \/ StartedByEnd(u, ms)
<1>1. TreeTypeOK
  BY DEF IInv, TreeInv
<1> DEFINE c == turn[t].conv
           tn == [turn EXCEPT ![t] = r]
<1>0. EmitEnd(c, tn, ms, lf, k) /\ c \in Conversations /\ TurnsInv /\ tn = [turn EXCEPT ![t] = r]
  BY DEF IInv
<1> HIDE DEF c, tn
<1>2. /\ TurnsInv'
      /\ \A u \in Turns : turn'[u] = (IF u = t THEN r ELSE turn[u]) \/ StartedByEnd(u, ms)
  BY <1>0, <1>1, EmitEndKeepsTurns, ZenonT(60)
<1>3. \A d \in Conversations : queue[d] # <<>> => Head(queue[d]) \in Turns
  BY HeadTailProperties DEF IInv, TurnsInv, TurnsTypeOK
<1>4. TreeInv'
  BY <1>2, <1>3, EmitEndKeepsTree DEF IInv
<1> QED BY <1>2, <1>4 DEF IInv

LEMMA EmitFatalKeeps ==
  ASSUME IInv, NEW t \in Turns, EmitFatal(t)
  PROVE  /\ IInv'
         /\ \A u \in Turns : turn'[u].fin = turn[u].fin /\ CountsUp(turn[u], turn'[u])
<1> DEFINE c == turn[t].conv
           r == [turn[t] EXCEPT !.stage = "ended"]
           m == [Reply(t, "error") EXCEPT !.text = TRUE]
           tn == [turn EXCEPT ![t] = r]
           ms == [messages EXCEPT ![c] = Append(@, m)]
           lf == [leaf EXCEPT ![c] = Len(messages[c]) + 1]
<1>1. turn[t].stage = "images" /\ turn[t] \in Turn
  BY OneTurn DEF EmitFatal, At
<1>2. /\ r \in Turn /\ Coherent(r) /\ r.stage = "ended" /\ r.conv = c
      /\ r.parent = turn[t].parent /\ r.fin = turn[t].fin /\ CountsUp(turn[t], r)
      /\ [turn EXCEPT ![t].stage = "ended"] = tn
      /\ c \in Conversations /\ ~Owns(t)
  BY <1>1, EmitFatalRecord DEF IInv
<1>3. EmitEnd(c, tn, ms, lf, 0) /\ UNCHANGED <<turns, pendingNotices, up>>
  BY <1>2 DEF EmitFatal
<1>4. /\ m \in Message /\ m.role = "assistant" /\ m.turn = t /\ m.parent = turn[t].parent
      /\ m.parent <= Len(messages[c])
  BY <1>1, <1>2 DEF Reply, Message, Turn, Outcomes, IInv, TreeInv, PromptsStored
<1>5. \A u \in Turns : tn[u] = IF u = t THEN r ELSE turn[u]
  BY DEF IInv, TurnsInv, TurnsTypeOK
<1>6. \A d \in Conversations :
        /\ messages[d] \in Seq(Message) /\ leaf[d] \in Nat /\ Len(messages[d]) \in Nat
        /\ Rooted(messages[d], leaf[d]) /\ RepliesOf(messages[d], tn)
  <2>1. \A d \in Conversations : /\ messages[d] \in Seq(Message) /\ leaf[d] \in Nat
                                 /\ Rooted(messages[d], leaf[d])
                                 /\ RepliesOf(messages[d], turn)
    BY DEF IInv, TreeInv, TreeTypeOK
  <2>2. \A u \in Turns : turn[u].stage \notin Unregistered => tn[u] = turn[u]
    BY <1>1, <1>5 DEF Unregistered
  <2> HIDE DEF tn
  <2>3. \A d \in Conversations : RepliesOf(messages[d], tn)
    BY <2>1, <2>2 DEF RepliesOf
  <2>4. \A d \in Conversations : Len(messages[d]) \in Nat
    BY <2>1, LenProperties
  <2> QED BY <2>1, <2>3, <2>4
<1>7. tn[t].stage \notin Unregistered /\ tn[t].parent = turn[t].parent
  BY <1>2, <1>5 DEF Unregistered
<1>8. /\ messages \in [Conversations -> Seq(Message)] /\ leaf \in [Conversations -> Nat]
      /\ pendingNotices \in [Conversations -> Nat]
  BY DEF IInv, TreeInv, TreeTypeOK
<1> HIDE DEF tn, m
<1>9. /\ Append(messages[c], m) \in Seq(Message)
      /\ Len(Append(messages[c], m)) = Len(messages[c]) + 1
      /\ Rooted(Append(messages[c], m), Len(messages[c]) + 1)
      /\ RepliesOf(Append(messages[c], m), tn)
  BY <1>2, <1>4, <1>6, <1>7, AppendNode
<1>10. \A d \in Conversations :
         /\ ms[d] = IF d = c THEN Append(messages[c], m) ELSE messages[d]
         /\ lf[d] = IF d = c THEN Len(messages[c]) + 1 ELSE leaf[d]
  BY <1>8
<1>11. ms \in [Conversations -> Seq(Message)] /\ lf \in [Conversations -> Nat]
  <2>1. \A d \in Conversations : ms[d] \in Seq(Message) /\ lf[d] \in Nat
    BY <1>6, <1>9, <1>10
  <2>2. ms = [d \in Conversations |-> ms[d]] /\ lf = [d \in Conversations |-> lf[d]]
    BY <1>8
  <2> HIDE DEF ms, lf
  <2> QED BY <2>1, <2>2
<1>12. \A d \in Conversations : /\ Len(messages[d]) <= Len(ms[d])
                                /\ Rooted(ms[d], lf[d]) /\ RepliesOf(ms[d], tn)
  <2> SUFFICES ASSUME NEW d \in Conversations
               PROVE  /\ Len(messages[d]) <= Len(ms[d])
                      /\ Rooted(ms[d], lf[d]) /\ RepliesOf(ms[d], tn)
    OBVIOUS
  <2>0. Len(messages[d]) \in Nat
    BY <1>6
  <2> HIDE DEF ms, lf, c
  <2>1. CASE d = c
    <3>1. ms[d] = Append(messages[c], m) /\ lf[d] = Len(messages[c]) + 1
      BY <2>1, <1>10
    <3>2. Len(ms[d]) = Len(messages[d]) + 1
      BY <2>1, <3>1, <1>9
    <3>3. Len(messages[d]) <= Len(ms[d])
      BY <2>0, <3>2
    <3>4. Rooted(ms[d], lf[d]) /\ RepliesOf(ms[d], tn)
      BY <3>1, <1>9
    <3> QED BY <3>3, <3>4
  <2>2. CASE d # c
    <3>1. ms[d] = messages[d] /\ lf[d] = leaf[d]
      BY <2>2, <1>10
    <3> QED BY <2>0, <3>1, <1>6
  <2> QED BY <2>1, <2>2
<1>13. pendingNotices' \in [Conversations -> Nat] /\ UNCHANGED <<turns, up>>
  BY <1>3, <1>8
<1>14. turn[t].stage # "queued" /\ r.stage # "queued"
  BY <1>1, <1>2
<1> HIDE DEF ms, lf, r
<1>15. IInv' /\ \A u \in Turns : turn'[u] = (IF u = t THEN r ELSE turn[u]) \/ StartedByEnd(u, ms)
  BY <1>2, <1>3, <1>11, <1>12, <1>13, <1>14, EmitEndKeeps DEF tn
<1>16. \A u \in Turns : CountsUp(turn[u], turn[u])
  BY OneTurn DEF Turn, CountsUp
<1> QED BY <1>2, <1>15, <1>16 DEF StartedByEnd

LEMMA FlushedKeeps ==
  ASSUME IInv, NEW t \in Turns, Flushed(t)
  PROVE  /\ IInv'
         /\ \A u \in Turns : turn'[u].fin = IF u = t THEN "done" ELSE turn[u].fin
         /\ \A u \in Turns : CountsUp(turn[u], turn'[u])
<1> DEFINE c == turn[t].conv
           r == [turn[t] EXCEPT !.fin = "done"]
           tn == [turn EXCEPT ![t] = r]
<1>1. turn[t].fin = "flushing" /\ turn[t] \in Turn
  BY OneTurn DEF Flushed
<1>2. /\ r \in Turn /\ Coherent(r) /\ r.stage = turn[t].stage /\ r.conv = c
      /\ r.parent = turn[t].parent /\ r.fin = "done" /\ CountsUp(turn[t], r)
      /\ [turn EXCEPT ![t].fin = "done"] = tn
      /\ c \in Conversations /\ ~Owns(t) /\ turn[t].stage \notin Unregistered
  BY <1>1, FlushedRecord DEF IInv
<1>3. /\ EmitEnd(c, tn, messages, leaf, pendingNotices[c])
      /\ pendingNotices' = [pendingNotices EXCEPT ![c] = 0] /\ UNCHANGED <<turns, up>>
  BY <1>2 DEF Flushed
<1>4. \A u \in Turns : tn[u] = IF u = t THEN r ELSE turn[u]
  BY DEF IInv, TurnsInv, TurnsTypeOK
<1>5. /\ messages \in [Conversations -> Seq(Message)] /\ leaf \in [Conversations -> Nat]
      /\ pendingNotices \in [Conversations -> Nat]
      /\ \A d \in Conversations : Rooted(messages[d], leaf[d]) /\ RepliesOf(messages[d], turn)
  BY DEF IInv, TreeInv, TreeTypeOK
<1>6. \A d \in Conversations : Len(messages[d]) \in Nat
  BY <1>5, LenProperties
<1>7. \A d \in Conversations : RepliesOf(messages[d], tn)
  <2>1. \A u \in Turns : tn[u].stage = turn[u].stage /\ tn[u].parent = turn[u].parent
    BY <1>2, <1>4
  <2> HIDE DEF tn
  <2> QED BY <1>5, <2>1 DEF RepliesOf
<1>8. pendingNotices[c] \in Nat /\ pendingNotices' \in [Conversations -> Nat]
  BY <1>2, <1>3, <1>5
<1>9. turn[t].stage # "queued" /\ r.stage # "queued"
  BY <1>2 DEF Unregistered
<1>10. \A d \in Conversations : /\ Len(messages[d]) <= Len(messages[d])
                                /\ Rooted(messages[d], leaf[d])
                                /\ RepliesOf(messages[d], tn)
  <2> HIDE DEF tn
  <2>1. \A d \in Conversations : Len(messages[d]) <= Len(messages[d])
    BY <1>6
  <2> QED BY <1>5, <1>7, <2>1
<1> HIDE DEF r
<1>11. /\ IInv'
       /\ \A u \in Turns : turn'[u] = (IF u = t THEN r ELSE turn[u]) \/ StartedByEnd(u, messages)
  BY <1>2, <1>3, <1>5, <1>8, <1>9, <1>10, EmitEndKeeps
<1>12. \A u \in Turns : CountsUp(turn[u], turn[u])
  BY OneTurn DEF Turn, CountsUp
<1> QED BY <1>1, <1>2, <1>9, <1>11, <1>12 DEF StartedByEnd

\* askUser parks a turn with a card of its current call, unless it was stopped.
LEMMA AskUserRecord ==
  ASSUME NEW r \in Turn, Coherent(r), r.stage \in {"model", "tool"}, r.toolCount < MaxCalls
  PROVE  /\ AskUser(r) \in Turn /\ Coherent(AskUser(r))
         /\ AskUser(r).stage \in {"parked", "refused"}
         /\ AskUser(r).conv = r.conv /\ AskUser(r).parent = r.parent /\ AskUser(r).fin = r.fin
         /\ Driven(r) => Driven(AskUser(r))
<1>1. MaxCalls \in Nat /\ r.toolCount + 1 \in CallIds
  BY BoundsAssumption DEF CallIds, Turn
<1>2. CASE r.cancelled
  <2>1. AskUser(r) = [r EXCEPT !.stage = "refused"]
    BY <1>2 DEF AskUser
  <2> QED BY <2>1 DEF Turn, Stages, Coherent, Driven, Unregistered
<1>3. CASE ~r.cancelled
  <2> DEFINE s == [r EXCEPT !.stage = "parked", !.phase = "awaiting-user",
                            !.pending = @ \cup {r.toolCount + 1}]
  <2>1. AskUser(r) = s
    BY <1>3 DEF AskUser
  <2>2. /\ s \in Turn /\ s.stage = "parked" /\ s.conv = r.conv /\ s.parent = r.parent
        /\ s.fin = r.fin /\ Coherent(s) /\ (Driven(r) => Driven(s))
    BY <1>1, <1>3 DEF Turn, Stages, Phases, Coherent, Driven, Unregistered
  <2> HIDE DEF s
  <2> QED BY <2>1, <2>2
<1> QED BY <1>2, <1>3

\* The steps of a loop that leave the maps and the tree alone.
LEMMA QuietLoopKeeps ==
  ASSUME IInv, NEW t \in Turns,
         Prepared(t) \/ StreamText(t) \/ CallTool(t) \/ ToolAsks(t) \/ Retry(t)
  PROVE  IInv'
<1>1. /\ turn[t] \in Turn /\ Coherent(turn[t]) /\ (Owns(t) => Driven(turn[t]))
      /\ MaxCalls \in Nat /\ RetryLimit \in Nat
  BY OneTurn, BoundsAssumption
<1>2. UNCHANGED <<turns, pendingCancels, queue, up, pendingNotices, messages, leaf>>
  BY DEF Prepared, StreamText, CallTool, ToolAsks, Retry
<1>3. ASSUME NEW r \in Turn, Step(t, r), r.conv = turn[t].conv, r.parent = turn[t].parent,
             r.stage \notin Unregistered, turn[t].stage \notin Unregistered,
             Coherent(r), Owns(t) => Driven(r)
      PROVE  IInv'
  BY <1>2, <1>3, LoopKeeps
<1>4. CASE Prepared(t)
  <2> DEFINE r == [turn[t] EXCEPT !.stage =
                     IF turn[t].cancelled \/ ~Owns(t) THEN "ended" ELSE "model"]
  <2>1. Step(t, r) /\ turn[t].stage = "prepare"
    BY <1>4 DEF Prepared, At
  <2>2. /\ r \in Turn /\ r.conv = turn[t].conv /\ r.parent = turn[t].parent
        /\ r.stage \notin Unregistered /\ turn[t].stage \notin Unregistered
        /\ Coherent(r) /\ (Owns(t) => Driven(r))
    BY <1>1, <2>1 DEF Turn, Stages, Coherent, Driven, Unregistered
  <2> HIDE DEF r
  <2> QED BY <1>3, <2>1, <2>2
<1>5. CASE StreamText(t)
  <2> DEFINE r == [turn[t] EXCEPT !.phase = "streaming", !.draft = TRUE, !.checkpoint = TRUE]
  <2>1. Step(t, r) /\ turn[t].stage = "model"
    BY <1>5 DEF StreamText, At
  <2>2. /\ r \in Turn /\ r.conv = turn[t].conv /\ r.parent = turn[t].parent
        /\ r.stage \notin Unregistered /\ turn[t].stage \notin Unregistered
        /\ Coherent(r) /\ (Owns(t) => Driven(r))
    BY <1>1, <2>1 DEF Turn, Phases, Coherent, Driven, Unregistered
  <2> HIDE DEF r
  <2> QED BY <1>3, <2>1, <2>2
<1>6. CASE CallTool(t)
  <2> DEFINE d == [turn[t] EXCEPT !.draft = TRUE]
  <2>1. /\ turn[t].stage = "model" /\ ~turn[t].cancelled /\ turn[t].toolCount < MaxCalls
        /\ Step(t, [d EXCEPT !.stage = "tool"]) \/ Step(t, AskUser(d))
             \/ Step(t, [d EXCEPT !.stage = "refused"])
    BY <1>6 DEF CallTool, At
  <2>2. /\ d \in Turn /\ d.stage = "model" /\ d.conv = turn[t].conv /\ d.parent = turn[t].parent
        /\ ~d.cancelled /\ d.toolCount = turn[t].toolCount /\ Coherent(d)
        /\ Owns(t) => Driven(d)
    BY <1>1, <2>1 DEF Turn, Coherent, Driven, Unregistered
  <2> HIDE DEF d
  <2>3. ASSUME NEW s \in {"tool", "refused"}
        PROVE  /\ [d EXCEPT !.stage = s] \in Turn
               /\ [d EXCEPT !.stage = s].conv = turn[t].conv
               /\ [d EXCEPT !.stage = s].parent = turn[t].parent
               /\ [d EXCEPT !.stage = s].stage = s
               /\ Coherent([d EXCEPT !.stage = s]) /\ (Owns(t) => Driven([d EXCEPT !.stage = s]))
    BY <1>1, <2>1, <2>2 DEF Turn, Stages, Coherent, Driven, Unregistered
  <2>4. CASE Step(t, [d EXCEPT !.stage = "tool"])
    <3> DEFINE r == [d EXCEPT !.stage = "tool"]
    <3>1. /\ r \in Turn /\ r.conv = turn[t].conv /\ r.parent = turn[t].parent
          /\ r.stage \notin Unregistered /\ turn[t].stage \notin Unregistered
          /\ Coherent(r) /\ (Owns(t) => Driven(r))
      BY <2>1, <2>3 DEF Unregistered
    <3> HIDE DEF r
    <3> QED BY <1>3, <2>4, <3>1 DEF r
  <2>5. CASE Step(t, [d EXCEPT !.stage = "refused"])
    <3> DEFINE r == [d EXCEPT !.stage = "refused"]
    <3>1. /\ r \in Turn /\ r.conv = turn[t].conv /\ r.parent = turn[t].parent
          /\ r.stage \notin Unregistered /\ turn[t].stage \notin Unregistered
          /\ Coherent(r) /\ (Owns(t) => Driven(r))
      BY <2>1, <2>3 DEF Unregistered
    <3> HIDE DEF r
    <3> QED BY <1>3, <2>5, <3>1 DEF r
  <2>6. CASE Step(t, AskUser(d))
    <3>1. /\ AskUser(d) \in Turn /\ AskUser(d).stage \in {"parked", "refused"}
          /\ AskUser(d).conv = turn[t].conv /\ AskUser(d).parent = turn[t].parent
          /\ Coherent(AskUser(d)) /\ (Owns(t) => Driven(AskUser(d)))
      BY <2>1, <2>2, AskUserRecord
    <3> QED BY <1>3, <2>1, <2>6, <3>1 DEF Unregistered
  <2> QED BY <2>1, <2>4, <2>5, <2>6
<1>7. CASE ToolAsks(t)
  <2> DEFINE r == AskUser(turn[t])
  <2>1. Step(t, r) /\ turn[t].stage = "tool" /\ turn[t].toolCount < MaxCalls
    BY <1>1, <1>7 DEF ToolAsks, At, Coherent
  <2>2. /\ r \in Turn /\ r.conv = turn[t].conv /\ r.parent = turn[t].parent
        /\ r.stage \notin Unregistered /\ turn[t].stage \notin Unregistered
        /\ Coherent(r) /\ (Owns(t) => Driven(r))
    BY <1>1, <2>1, AskUserRecord DEF Unregistered
  <2> HIDE DEF r
  <2> QED BY <1>3, <2>1, <2>2
<1>8. CASE Retry(t)
  <2> DEFINE r == [turn[t] EXCEPT !.stage = "backoff", !.attempts = @ + 1, !.draft = FALSE,
                                  !.toolCount = 0, !.phase = "recovering"]
  <2>1. Step(t, r) /\ turn[t].stage = "model" /\ turn[t].attempts < RetryLimit
    BY <1>8 DEF Retry, At, MayRetry
  <2>2. turn[t].attempts + 1 \in 0..RetryLimit
    BY <1>1, <2>1 DEF Turn
  <2>3. 0 \in 0..MaxCalls /\ "backoff" \in Stages /\ "recovering" \in Phases
    BY <1>1 DEF Stages, Phases
  <2>4. r \in Turn
    BY <1>1, <2>2, <2>3 DEF Turn
  <2>5. /\ r.stage = "backoff" /\ r.conv = turn[t].conv /\ r.parent = turn[t].parent
        /\ r.pending = turn[t].pending /\ r.fin = turn[t].fin
        /\ r.cancelled = turn[t].cancelled /\ r.stopTimer = turn[t].stopTimer
    BY <1>1 DEF Turn
  <2> HIDE DEF r
  <2>6. /\ r.stage \notin Unregistered /\ turn[t].stage \notin Unregistered
        /\ Coherent(r) /\ (Owns(t) => Driven(r))
    BY <1>1, <2>1, <2>5 DEF Coherent, Driven, Unregistered
  <2> QED BY <1>3, <2>1, <2>4, <2>5, <2>6
<1> QED BY <1>4, <1>5, <1>6, <1>7, <1>8

\* The steps that write the reply.
LEMMA WritingLoopKeeps ==
  ASSUME IInv, NEW t \in Turns, StreamCheckpoint(t) \/ ToolEnds(t) \/ Finalized(t)
  PROVE  IInv'
<1>1. turn[t] \in Turn /\ Coherent(turn[t]) /\ (Owns(t) => Driven(turn[t]))
  BY OneTurn
<1>2. UNCHANGED <<turns, pendingCancels, queue, up, pendingNotices>>
  BY DEF StreamCheckpoint, ToolEnds, Finalized
<1>3. UNCHANGED <<messages, leaf>>
        \/ \E seal \in Outcomes \cup {"none", "partial"} : Persist(t, seal)
  <2>1. turn[t].outcome \in Outcomes \cup {"none", "partial"}
    BY <1>1 DEF Turn
  <2> QED BY <2>1 DEF StreamCheckpoint, ToolEnds, Finalized
<1>4. ASSUME NEW r \in Turn, Step(t, r), r.conv = turn[t].conv, r.parent = turn[t].parent,
             r.stage \notin Unregistered, turn[t].stage \notin Unregistered,
             Coherent(r), Owns(t) => Driven(r)
      PROVE  IInv'
  BY <1>2, <1>3, <1>4, LoopKeeps
<1>5. CASE StreamCheckpoint(t)
  <2> DEFINE r == [turn[t] EXCEPT !.checkpoint = FALSE]
  <2>1. Step(t, r) /\ turn[t].checkpoint
    BY <1>5 DEF StreamCheckpoint
  <2>2. /\ r \in Turn /\ r.conv = turn[t].conv /\ r.parent = turn[t].parent
        /\ r.stage \notin Unregistered /\ turn[t].stage \notin Unregistered
        /\ Coherent(r) /\ (Owns(t) => Driven(r))
    BY <1>1, <2>1 DEF Turn, Coherent, Driven, Unregistered
  <2> HIDE DEF r
  <2> QED BY <1>4, <2>1, <2>2
<1>6. CASE ToolEnds(t)
  <2> DEFINE r == [turn[t] EXCEPT !.stage = "model", !.toolCount = @ + 1, !.checkpoint = FALSE,
                                  !.phase = IF turn[t].cancelled THEN @ ELSE "streaming"]
  <2>1. Step(t, r) /\ turn[t].stage \in {"tool", "refused"} /\ turn[t].toolCount < MaxCalls
    BY <1>1, <1>6 DEF ToolEnds, Coherent
  <2>2. turn[t].toolCount + 1 \in 0..MaxCalls
    BY <1>1, <2>1, BoundsAssumption DEF Turn
  <2>3. /\ r \in Turn /\ r.conv = turn[t].conv /\ r.parent = turn[t].parent
        /\ r.stage \notin Unregistered /\ turn[t].stage \notin Unregistered
        /\ Coherent(r) /\ (Owns(t) => Driven(r))
    BY <1>1, <2>1, <2>2, ZenonT(40) DEF Turn, Stages, Phases, Coherent, Driven, Unregistered
  <2> HIDE DEF r
  <2> QED BY <1>4, <2>1, <2>3
<1>7. CASE Finalized(t)
  <2> DEFINE r == [turn[t] EXCEPT !.fin = "flushing"]
  <2>1. Step(t, r) /\ turn[t].fin = "sealing"
    BY <1>7 DEF Finalized
  <2>2. ~Owns(t)
    BY <1>1, <2>1 DEF Driven
  <2>3. /\ r \in Turn /\ r.conv = turn[t].conv /\ r.parent = turn[t].parent
        /\ r.stage \notin Unregistered /\ turn[t].stage \notin Unregistered /\ Coherent(r)
    BY <1>1, <2>1 DEF Turn, Coherent, Unregistered
  <2> HIDE DEF r
  <2> QED BY <1>4, <2>1, <2>2, <2>3
<1> QED BY <1>5, <1>6, <1>7

\* The steps that call finish.
LEMMA FinishingKeeps ==
  ASSUME IInv, NEW t \in Turns,
         StopTimer(t) \/ BackoffOver(t) \/ \E o \in {"done", "error"} : LoopReturns(t, o)
  PROVE  IInv'
<1>1. turn[t] \in Turn /\ Coherent(turn[t]) /\ (Owns(t) => Driven(turn[t]))
  BY OneTurn
<1>2. UNCHANGED <<pendingNotices, queue, messages, leaf, up>>
  BY DEF StopTimer, BackoffOver, LoopReturns, At
<1>3. ASSUME NEW r \in Turn, NEW o \in Outcomes, Finish(t, r, o), r.conv = turn[t].conv,
             r.parent = turn[t].parent, r.stage \notin Unregistered,
             turn[t].stage \notin Unregistered, Coherent(r)
      PROVE  IInv'
  BY <1>2, <1>3, FinishKeeps
<1>4. CASE StopTimer(t)
  <2> DEFINE r == [turn[t] EXCEPT !.stopTimer = FALSE]
  <2>1. Finish(t, r, "cancelled") /\ turn[t].stopTimer /\ "cancelled" \in Outcomes
    BY <1>4 DEF StopTimer, Outcomes
  <2>2. /\ r \in Turn /\ r.conv = turn[t].conv /\ r.parent = turn[t].parent
        /\ r.stage \notin Unregistered /\ turn[t].stage \notin Unregistered /\ Coherent(r)
    BY <1>1, <2>1 DEF Turn, Coherent, Unregistered
  <2> HIDE DEF r
  <2> QED BY <1>3, <2>1, <2>2
<1>5. ASSUME NEW o \in Outcomes, turn[t].stage \in {"model", "backoff"},
             Finish(t, [turn[t] EXCEPT !.stage = "ended"], o)
      PROVE  IInv'
  <2> DEFINE r == [turn[t] EXCEPT !.stage = "ended"]
  <2>1. /\ r \in Turn /\ r.conv = turn[t].conv /\ r.parent = turn[t].parent
        /\ r.stage \notin Unregistered /\ turn[t].stage \notin Unregistered /\ Coherent(r)
    BY <1>1, <1>5 DEF Turn, Stages, Coherent, Unregistered
  <2> HIDE DEF r
  <2> QED BY <1>3, <1>5, <2>1 DEF r
<1>6. ASSUME NEW o \in {"done", "error"}, LoopReturns(t, o)
      PROVE  IInv'
  BY <1>5, <1>6 DEF LoopReturns, At, Outcomes
<1>7. CASE BackoffOver(t)
  <2>1. CASE turn[t].cancelled \/ ~Owns(t)
    BY <1>5, <1>7, <2>1 DEF BackoffOver, At, Outcomes
  <2>2. CASE ~(turn[t].cancelled \/ ~Owns(t))
    <3> DEFINE r == [turn[t] EXCEPT !.stage = "model"]
    <3>1. Step(t, r) /\ UNCHANGED <<turns, pendingCancels>> /\ turn[t].stage = "backoff"
      BY <1>7, <2>2 DEF BackoffOver, At
    <3>2. /\ r \in Turn /\ r.conv = turn[t].conv /\ r.parent = turn[t].parent
          /\ r.stage \notin Unregistered /\ turn[t].stage \notin Unregistered
          /\ Coherent(r) /\ (Owns(t) => Driven(r))
      BY <1>1, <3>1 DEF Turn, Stages, Coherent, Driven, Unregistered
    <3> HIDE DEF r
    <3> QED BY <1>2, <3>1, <3>2, LoopKeeps
  <2> QED BY <2>1, <2>2
<1> QED BY <1>4, <1>6, <1>7

\* persistInFlight writes the reply of every registered turn.
LEMMA QuitKeeps ==
  ASSUME IInv, Quit
  PROVE  IInv'
<1>1. TurnsInv' /\ KeepsReplies /\ KeepsPrompts
  BY TurnsUnchanged DEF Quit, IInv
<1> DEFINE m(c) == Reply(turns[c], "partial")
<1>2. \A c \in Conversations :
        /\ messages[c] \in Seq(Message) /\ leaf[c] \in Nat /\ Len(messages[c]) \in Nat
        /\ Rooted(messages[c], leaf[c]) /\ RepliesOf(messages[c], turn)
  BY LenProperties DEF IInv, TreeInv, TreeTypeOK
<1>3. \A c \in Conversations : Registered(c) =>
        /\ m(c) \in Message /\ m(c).role = "assistant" /\ m(c).turn \in Turns
        /\ turn[m(c).turn].stage \notin Unregistered
        /\ m(c).parent = turn[m(c).turn].parent /\ m(c).parent <= Len(messages[c])
  <2> SUFFICES ASSUME NEW c \in Conversations, Registered(c)
               PROVE  /\ m(c) \in Message /\ m(c).role = "assistant" /\ m(c).turn \in Turns
                      /\ turn[m(c).turn].stage \notin Unregistered
                      /\ m(c).parent = turn[m(c).turn].parent
                      /\ m(c).parent <= Len(messages[c])
    OBVIOUS
  <2>1. turns[c] \in Turns /\ turn[turns[c]].conv = c /\ turn[turns[c]] \in Turn
    BY DEF Registered, IInv, TurnsInv, TurnsTypeOK, RegisteredAreDriven
  <2>2. turn[turns[c]].stage \notin Unregistered
    BY <2>1, UnregisteredIsNotOwned DEF IInv
  <2>3. turn[turns[c]].parent <= Len(messages[c])
    BY <2>1 DEF IInv, TreeInv, PromptsStored
  <2> QED BY <2>1, <2>2, <2>3 DEF Reply, Message, Turn
<1>4. \A c \in Conversations :
        /\ messages'[c] = IF Registered(c) THEN ReplaceMessage(messages[c], m(c)) ELSE messages[c]
        /\ leaf'[c] = IF Registered(c) THEN LeafAfterReplace(messages[c], leaf[c], m(c)) ELSE leaf[c]
  BY DEF Quit
<1>5. /\ messages' = [c \in Conversations |-> messages'[c]]
      /\ leaf' = [c \in Conversations |-> leaf'[c]]
      /\ UNCHANGED pendingNotices
  BY DEF Quit
<1> HIDE DEF m
<1>6. \A c \in Conversations :
        /\ messages'[c] \in Seq(Message) /\ leaf'[c] \in Nat
        /\ Len(messages'[c]) >= Len(messages[c])
        /\ Rooted(messages'[c], leaf'[c]) /\ RepliesOf(messages'[c], turn)
  <2> SUFFICES ASSUME NEW c \in Conversations
               PROVE  /\ messages'[c] \in Seq(Message) /\ leaf'[c] \in Nat
                      /\ Len(messages'[c]) >= Len(messages[c])
                      /\ Rooted(messages'[c], leaf'[c]) /\ RepliesOf(messages'[c], turn)
    OBVIOUS
  <2>1. CASE Registered(c)
    <3>1. /\ ReplaceMessage(messages[c], m(c)) \in Seq(Message)
          /\ Len(ReplaceMessage(messages[c], m(c))) >= Len(messages[c])
          /\ LeafAfterReplace(messages[c], leaf[c], m(c)) \in Nat
          /\ Rooted(ReplaceMessage(messages[c], m(c)), LeafAfterReplace(messages[c], leaf[c], m(c)))
          /\ RepliesOf(ReplaceMessage(messages[c], m(c)), turn)
      BY <1>2, <1>3, <2>1, ReplaceNode
    <3> QED BY <1>4, <2>1, <3>1
  <2>2. CASE ~Registered(c)
    <3>1. messages'[c] = messages[c] /\ leaf'[c] = leaf[c]
      BY <1>4, <2>2
    <3>2. Len(messages'[c]) >= Len(messages[c])
      BY <1>2, <3>1
    <3> QED BY <1>2, <3>1, <3>2
  <2> QED BY <2>1, <2>2
<1>7. TreeTypeOK'
  BY <1>5, <1>6 DEF IInv, TreeInv, TreeTypeOK
<1>8. \A c \in Conversations : RepliesOf(messages'[c], turn')
  BY <1>1, <1>6 DEF RepliesOf, KeepsReplies
<1>9. PromptsStored'
  <2> SUFFICES ASSUME NEW u \in Turns, NEW d \in Conversations, d = turn'[u].conv
               PROVE  turn'[u].parent <= Len(messages'[d])
    BY DEF PromptsStored
  <2>1. turn[u].parent <= Len(messages[d]) /\ turn[u].parent \in Nat /\ turn'[u].parent = turn[u].parent
    BY <1>1 DEF KeepsPrompts, IInv, TreeInv, PromptsStored, TurnsInv, TurnsTypeOK, Turn
  <2>2. Len(messages'[d]) \in Nat /\ Len(messages[d]) \in Nat /\ Len(messages'[d]) >= Len(messages[d])
    BY <1>2, <1>6, LenProperties
  <2> QED BY <2>1, <2>2
<1>10. TreeInv'
  BY <1>6, <1>7, <1>8, <1>9 DEF TreeInv
<1> QED BY <1>1, <1>10 DEF IInv

-----------------------------------------------------------------------------
(* The inductive argument *)

LEMMA InitIInv == Init => IInv
<1> SUFFICES ASSUME Init
             PROVE  IInv
  OBVIOUS
<1>1. /\ turns = [c \in Conversations |-> NoTurn] /\ turn = [t \in Turns |-> NewTurn]
      /\ pendingCancels = {} /\ pendingNotices = [c \in Conversations |-> 0]
      /\ queue = [c \in Conversations |-> <<>>] /\ messages = [c \in Conversations |-> <<>>]
      /\ leaf = [c \in Conversations |-> 0] /\ up = TRUE
  BY DEF Init
<1>2. /\ NewTurn \in Turn /\ Coherent(NewTurn) /\ NewTurn.parent = 0
  BY BoundsAssumption DEF NewTurn, Turn, Stages, Phases, Coherent, Unregistered
<1>3. Len(<<>>) = 0 /\ <<>> \in Seq(Turns) /\ <<>> \in Seq(Message)
  BY EmptySeq
<1>4. TurnsInv
  <2>1. TurnsTypeOK
    BY <1>1, <1>2, <1>3 DEF TurnsTypeOK
  <2>2. TurnsCoherent /\ StopMarkersHaveATurn /\ RegisteredAreDriven
    BY <1>1, <1>2 DEF TurnsCoherent, StopMarkersHaveATurn, RegisteredAreDriven
  <2>3. QueuedOnce
    BY <1>1, <1>3 DEF QueuedOnce
  <2> QED BY <2>1, <2>2, <2>3 DEF TurnsInv
<1>5. TreeInv
  <2>1. TreeTypeOK
    BY <1>1, <1>3 DEF TreeTypeOK
  <2>2. \A c \in Conversations : Rooted(messages[c], leaf[c]) /\ RepliesOf(messages[c], turn)
    BY <1>1, <1>3 DEF Rooted, RepliesOf
  <2>3. PromptsStored
    BY <1>1, <1>2, <1>3 DEF PromptsStored
  <2> QED BY <2>1, <2>2, <2>3 DEF TreeInv
<1> QED BY <1>4, <1>5 DEF IInv

LEMMA StutterKeeps ==
  ASSUME IInv, UNCHANGED vars
  PROVE  IInv'
<1>1. UNCHANGED <<turns, turn, pendingCancels, pendingNotices, queue, messages, leaf, up>>
  BY DEF vars
<1>2. TurnsInv' /\ KeepsReplies /\ KeepsPrompts
  BY <1>1, TurnsUnchanged DEF IInv, TurnsInv, TurnsTypeOK
<1>3. TreeInv'
  BY <1>1, <1>2, TreeUnchanged DEF IInv, TreeInv, TreeTypeOK
<1> QED BY <1>2, <1>3 DEF IInv

LEMMA ClientKeeps ==
  ASSUME IInv, Client
  PROVE  IInv'
<1>1. PICK c \in Conversations :
        \/ \E t \in Turns : SendNow(c, t) \/ Enqueue(c, t)
        \/ \E t \in Turns, i \in DOMAIN messages[c] : Regenerate(c, t, i) \/ EditUserMessage(c, t, i)
        \/ \E i \in DOMAIN messages[c] \cup {0} : Fork(c, i)
        \/ AppendNotice(c)
        \/ Cancel(c)
        \/ \E id \in CallIds, accepted \in BOOLEAN : Answer(c, id, accepted)
  BY DEF Client
<1>2. ASSUME NEW t \in Turns, SendNow(c, t)
      PROVE  IInv'
  BY <1>2, SendNowKeeps
<1>3. ASSUME NEW t \in Turns, Enqueue(c, t)
      PROVE  IInv'
  BY <1>3, EnqueueKeeps
<1>4. ASSUME NEW t \in Turns, NEW i \in DOMAIN messages[c], Regenerate(c, t, i)
      PROVE  IInv'
  BY <1>4, RegenerateKeeps
<1>5. ASSUME NEW t \in Turns, NEW i \in DOMAIN messages[c], EditUserMessage(c, t, i)
      PROVE  IInv'
  BY <1>5, EditKeeps
<1>6. ASSUME NEW i \in DOMAIN messages[c] \cup {0}, Fork(c, i)
      PROVE  IInv'
  BY <1>6, ForkKeeps
<1>7. ASSUME AppendNotice(c)
      PROVE  IInv'
  BY <1>7, AppendNoticeKeeps
<1>8. ASSUME Cancel(c)
      PROVE  IInv'
  BY <1>8, CancelKeeps
<1>9. ASSUME NEW id \in CallIds, NEW accepted \in BOOLEAN, Answer(c, id, accepted)
      PROVE  IInv'
  BY <1>9, AnswerKeeps
<1> QED BY <1>1, <1>2, <1>3, <1>4, <1>5, <1>6, <1>7, <1>8, <1>9

LEMMA IInvIsInductive == IInv /\ [Next]_vars => IInv'
<1> SUFFICES ASSUME IInv, [Next]_vars
             PROVE  IInv'
  OBVIOUS
<1>1. CASE UNCHANGED vars
  BY <1>1, StutterKeeps
<1>2. CASE Client
  BY <1>2, ClientKeeps
<1>3. CASE Quit
  BY <1>3, QuitKeeps
<1>4. ASSUME NEW t \in Turns, Host(t)
      PROVE  IInv'
  <2>1. CASE Register(t) \/ StopBeforeRegister(t)
    BY <2>1, RegisterKeeps
  <2>2. CASE EmitFatal(t)
    BY <2>2, EmitFatalKeeps
  <2>3. CASE Prepared(t)
    BY <2>3, QuietLoopKeeps
  <2>4. CASE StopTimer(t) \/ BackoffOver(t)
    BY <2>4, FinishingKeeps
  <2>5. CASE StreamCheckpoint(t) \/ Finalized(t)
    BY <2>5, WritingLoopKeeps
  <2>6. CASE Flushed(t)
    BY <2>6, FlushedKeeps
  <2> QED BY <1>4, <2>1, <2>2, <2>3, <2>4, <2>5, <2>6 DEF Host
<1>5. ASSUME NEW t \in Turns, Model(t)
      PROVE  IInv'
  <2>1. CASE StreamText(t) \/ CallTool(t) \/ ToolAsks(t) \/ Retry(t)
    BY <2>1, QuietLoopKeeps
  <2>2. CASE ToolEnds(t)
    BY <2>2, WritingLoopKeeps
  <2>3. CASE LoopReturns(t, "done") \/ LoopReturns(t, "error")
    BY <2>3, FinishingKeeps
  <2> QED BY <1>5, <2>1, <2>2, <2>3 DEF Model
<1> QED BY <1>1, <1>2, <1>3, <1>4, <1>5 DEF Next

LEMMA IInvHolds == Spec => []IInv
BY InitIInv, IInvIsInductive, PTL DEF Spec

-----------------------------------------------------------------------------
(* What follows *)

\* Every value keeps its type, and the stored nodes of each conversation are a
\* tree whose leaf is stored and whose parents come before their children.
THEOREM TypeCorrect == Spec => []TypeOK
<1>1. IInv => TypeOK
  <2> SUFFICES ASSUME IInv
               PROVE  TypeOK
    OBVIOUS
  <2>1. \A c \in Conversations :
          leaf[c] <= Len(messages[c]) /\ \A i \in DOMAIN messages[c] : messages[c][i].parent < i
    BY LenProperties DEF IInv, TreeInv, TreeTypeOK, Rooted
  <2> QED BY <2>1 DEF IInv, TurnsInv, TurnsTypeOK, TreeInv, TreeTypeOK, TypeOK
<1> QED BY <1>1, IInvHolds, PTL

\* A Stop marker never outlives the turn it was left for: an idle Stop does not
\* poison the next send.
THEOREM StopMarkersAreConsumed == Spec => []StopMarkersHaveATurn
<1>1. IInv => StopMarkersHaveATurn
  BY DEF IInv, TurnsInv
<1> QED BY <1>1, IInvHolds, PTL

\* A loop waits for its user exactly while its card has a waiter, and never
\* after a Stop.
THEOREM CardsHaveWaiters == Spec => []ParkedHasAWaiter
<1>1. IInv => ParkedHasAWaiter
  BY DEF IInv, TurnsInv, TurnsCoherent, Coherent, ParkedHasAWaiter
<1> QED BY <1>1, IInvHolds, PTL

\* No conversation stays busy with a turn that nothing will finish.
THEOREM BusyIsDriven == Spec => []RegisteredIsDriven
<1>1. IInv => RegisteredIsDriven
  <2> SUFFICES ASSUME IInv, NEW c \in Conversations, Registered(c)
               PROVE  /\ turn[turns[c]].conv = c /\ turn[turns[c]].fin = "no"
                      /\ Active(turns[c]) \/ turn[turns[c]].stopTimer
    BY DEF RegisteredIsDriven
  <2> QED BY DEF IInv, TurnsInv, RegisteredAreDriven, Driven, Active, Registered
<1> QED BY <1>1, IInvHolds, PTL

\* What one step does to a turn: it ends in order and replays no tool.
MovesOn ==
  \A t \in Turns :
    /\ \/ turn'[t].fin = turn[t].fin
       \/ <<turn[t].fin, turn'[t].fin>> \in {<<"no", "sealing">>, <<"sealing", "flushing">>,
                                             <<"flushing", "done">>}
    /\ CountsUp(turn[t], turn'[t])

LEMMA StepMoves ==
  ASSUME IInv, NEW t \in Turns, NEW r, Step(t, r),
         r.fin = turn[t].fin \/ (turn[t].fin = "no" /\ r.fin = "sealing")
           \/ (turn[t].fin = "sealing" /\ r.fin = "flushing"),
         CountsUp(turn[t], r)
  PROVE  MovesOn
<1>1. \A u \in Turns : turn'[u] = IF u = t THEN r ELSE turn[u]
  BY DEF Step, IInv, TurnsInv, TurnsTypeOK
<1>2. \A u \in Turns : CountsUp(turn[u], turn[u])
  BY OneTurn DEF Turn, CountsUp
<1> QED BY <1>1, <1>2 DEF MovesOn

LEMMA FinishMoves ==
  ASSUME IInv, NEW t \in Turns, NEW r \in Turn, NEW outcome, Finish(t, r, outcome),
         r.fin = turn[t].fin, CountsUp(turn[t], r)
  PROVE  MovesOn
<1>1. CASE Owns(t)
  <2> DEFINE s == [r EXCEPT !.fin = "sealing", !.checkpoint = FALSE,
                            !.outcome = IF r.cancelled THEN "cancelled" ELSE outcome]
  <2>1. Step(t, s) /\ s.fin = "sealing" /\ turn[t].fin = "no" /\ CountsUp(turn[t], s)
    BY <1>1, OneTurn DEF Finish, Turn, Driven, CountsUp
  <2> HIDE DEF s
  <2> QED BY <2>1, StepMoves
<1>2. CASE ~Owns(t)
  BY <1>2, StepMoves DEF Finish
<1> QED BY <1>1, <1>2

LEMMA NextMoves ==
  ASSUME IInv, [Next]_vars
  PROVE  MovesOn
<1>1. \A t \in Turns : turn[t] \in Turn /\ Coherent(turn[t]) /\ (Owns(t) => Driven(turn[t]))
  BY OneTurn
<1>2. ASSUME turn' = turn
      PROVE  MovesOn
  BY <1>1, <1>2 DEF MovesOn, CountsUp, Turn
<1>3. ASSUME NEW t \in Turns, NEW c \in Conversations, NEW parent \in Nat,
             Free(t), Step(t, StartedTurn(t, c, parent))
      PROVE  MovesOn
  <2>1. StartedTurn(t, c, parent).fin = turn[t].fin /\ CountsUp(turn[t], StartedTurn(t, c, parent))
    BY <1>1 DEF StartedTurn, Turn, CountsUp
  <2> QED BY <1>3, <2>1, StepMoves
<1>4. CASE Client
  <2>1. PICK c \in Conversations :
          \/ \E t \in Turns : SendNow(c, t) \/ Enqueue(c, t)
          \/ \E t \in Turns, i \in DOMAIN messages[c] : Regenerate(c, t, i) \/ EditUserMessage(c, t, i)
          \/ \E i \in DOMAIN messages[c] \cup {0} : Fork(c, i)
          \/ AppendNotice(c)
          \/ Cancel(c)
          \/ \E id \in CallIds, accepted \in BOOLEAN : Answer(c, id, accepted)
    BY <1>4 DEF Client
  <2>2. Len(messages[c]) + 1 \in Nat
    BY LenProperties DEF IInv, TreeInv, TreeTypeOK
  <2>3. ASSUME NEW t \in Turns, SendNow(c, t)
        PROVE  MovesOn
    BY <1>3, <2>2, <2>3 DEF SendNow, Run
  <2>4. ASSUME NEW t \in Turns, NEW i \in DOMAIN messages[c], EditUserMessage(c, t, i)
        PROVE  MovesOn
    BY <1>3, <2>2, <2>4 DEF EditUserMessage, Run
  <2>5. ASSUME NEW t \in Turns, NEW i \in DOMAIN messages[c], Regenerate(c, t, i)
        PROVE  MovesOn
    <3> DEFINE p == IF messages[c][i].role = "assistant" THEN messages[c][i].parent ELSE i
    <3>1. p \in Nat
      BY PickedParent DEF IInv
    <3>2. Free(t) /\ Step(t, StartedTurn(t, c, p))
      BY <2>5 DEF Regenerate
    <3> HIDE DEF p
    <3> QED BY <1>3, <3>1, <3>2
  <2>6. ASSUME NEW t \in Turns, Enqueue(c, t)
        PROVE  MovesOn
    <3> DEFINE r == [turn[t] EXCEPT !.conv = c,
                       !.stage = IF Len(queue[c]) >= QueueMax THEN "dropped" ELSE "queued"]
    <3>1. Step(t, r) /\ r.fin = turn[t].fin /\ CountsUp(turn[t], r)
      BY <1>1, <2>6 DEF Enqueue, Turn, CountsUp
    <3> HIDE DEF r
    <3> QED BY <3>1, StepMoves
  <2>7. ASSUME NEW i \in DOMAIN messages[c] \cup {0}, Fork(c, i)
        PROVE  MovesOn
    BY <1>2, <2>7 DEF Fork
  <2>8. ASSUME AppendNotice(c)
        PROVE  MovesOn
    BY <1>2, <2>8 DEF AppendNotice
  <2>9. ASSUME Cancel(c)
        PROVE  MovesOn
    <3>1. ASSUME NEW t \in Turns
          PROVE  turn'[t].fin = turn[t].fin /\ CountsUp(turn[t], turn'[t])
      <4>1. CASE t \in Stopped(c)
        BY <1>1, <2>9, <4>1, StoppedAreOwned, StopTurnIsDriven DEF Cancel, IInv
      <4>2. CASE t \notin Stopped(c)
        BY <1>1, <2>9, <4>2 DEF Cancel, Turn, CountsUp
      <4> QED BY <4>1, <4>2
    <3> QED BY <3>1 DEF MovesOn
  <2>10. ASSUME NEW id \in CallIds, NEW accepted \in BOOLEAN, Answer(c, id, accepted)
         PROVE  MovesOn
    <3>1. PICK t \in AnswerTargets(c, id) : Step(t, Resolved(turn[t], accepted))
      BY <2>10 DEF Answer
    <3>2. t \in Turns
      BY AnswerTargetsArePending
    <3>3. Resolved(turn[t], accepted).fin = turn[t].fin /\ CountsUp(turn[t], Resolved(turn[t], accepted))
      BY <1>1, <3>2 DEF Resolved, Turn, CountsUp
    <3> QED BY <3>1, <3>2, <3>3, StepMoves
  <2> QED BY <2>1, <2>3, <2>4, <2>5, <2>6, <2>7, <2>8, <2>9, <2>10
<1>5. ASSUME NEW t \in Turns, Host(t)
      PROVE  MovesOn
  <2>1. turn[t] \in Turn
    BY <1>1
  <2>2. CASE Register(t) \/ StopBeforeRegister(t) \/ Prepared(t) \/ StreamCheckpoint(t)
    <3>1. \E s \in Stages : \/ Step(t, [turn[t] EXCEPT !.stage = s])
                            \/ Step(t, [turn[t] EXCEPT !.checkpoint = FALSE])
      BY <2>2 DEF Register, StopBeforeRegister, Prepared, StreamCheckpoint, Stages
    <3>2. ASSUME NEW s \in Stages, Step(t, [turn[t] EXCEPT !.stage = s])
          PROVE  MovesOn
      BY <2>1, <3>2, StepMoves DEF Turn, CountsUp
    <3>3. CASE Step(t, [turn[t] EXCEPT !.checkpoint = FALSE])
      BY <2>1, <3>3, StepMoves DEF Turn, CountsUp
    <3> QED BY <3>1, <3>2, <3>3
  <2>3. CASE EmitFatal(t)
    BY <2>3, EmitFatalKeeps DEF MovesOn
  <2>4. CASE StopTimer(t)
    <3> DEFINE r == [turn[t] EXCEPT !.stopTimer = FALSE]
    <3>1. Finish(t, r, "cancelled") /\ r \in Turn /\ r.fin = turn[t].fin /\ CountsUp(turn[t], r)
      BY <2>1, <2>4 DEF StopTimer, Turn, CountsUp
    <3> HIDE DEF r
    <3> QED BY <3>1, FinishMoves
  <2>5. CASE BackoffOver(t)
    <3>1. CASE turn[t].cancelled \/ ~Owns(t)
      <4> DEFINE r == [turn[t] EXCEPT !.stage = "ended"]
      <4>1. Finish(t, r, "done") /\ r \in Turn /\ r.fin = turn[t].fin /\ CountsUp(turn[t], r)
        BY <2>1, <2>5, <3>1 DEF BackoffOver, Turn, Stages, CountsUp
      <4> HIDE DEF r
      <4> QED BY <4>1, FinishMoves
    <3>2. CASE ~(turn[t].cancelled \/ ~Owns(t))
      <4> DEFINE r == [turn[t] EXCEPT !.stage = "model"]
      <4>1. Step(t, r) /\ r.fin = turn[t].fin /\ CountsUp(turn[t], r)
        BY <2>1, <2>5, <3>2 DEF BackoffOver, Turn, CountsUp
      <4> HIDE DEF r
      <4> QED BY <4>1, StepMoves
    <3> QED BY <3>1, <3>2
  <2>6. CASE Finalized(t)
    <3> DEFINE r == [turn[t] EXCEPT !.fin = "flushing"]
    <3>1. Step(t, r) /\ turn[t].fin = "sealing" /\ r.fin = "flushing" /\ CountsUp(turn[t], r)
      BY <2>1, <2>6 DEF Finalized, Turn, CountsUp
    <3> HIDE DEF r
    <3> QED BY <3>1, StepMoves
  <2>7. CASE Flushed(t)
    <3>1. turn[t].fin = "flushing"
      BY <2>7 DEF Flushed
    <3>2. \A u \in Turns : /\ turn'[u].fin = IF u = t THEN "done" ELSE turn[u].fin
                           /\ CountsUp(turn[u], turn'[u])
      BY <2>7, FlushedKeeps
    <3> QED BY <3>1, <3>2 DEF MovesOn
  <2> QED BY <1>5, <2>2, <2>3, <2>4, <2>5, <2>6, <2>7 DEF Host
<1>6. ASSUME NEW t \in Turns, Model(t)
      PROVE  MovesOn
  <2>1. turn[t] \in Turn
    BY <1>1
  <2>2. CASE StreamText(t) \/ CallTool(t) \/ ToolAsks(t) \/ ToolEnds(t) \/ Retry(t)
    <3>1. ASSUME NEW r, Step(t, r), r.fin = turn[t].fin, CountsUp(turn[t], r)
          PROVE  MovesOn
      BY <3>1, StepMoves
    <3>2. CASE StreamText(t)
      BY <2>1, <3>1, <3>2 DEF StreamText, Turn, CountsUp
    <3>3. CASE CallTool(t)
      <4> DEFINE d == [turn[t] EXCEPT !.draft = TRUE]
      <4>1. /\ Step(t, [d EXCEPT !.stage = "tool"]) \/ Step(t, AskUser(d))
                 \/ Step(t, [d EXCEPT !.stage = "refused"])
            /\ d \in Turn /\ d.fin = turn[t].fin /\ CountsUp(turn[t], d)
        BY <2>1, <3>3 DEF CallTool, Turn, CountsUp
      <4> HIDE DEF d
      <4>2. /\ [d EXCEPT !.stage = "tool"].fin = turn[t].fin
            /\ [d EXCEPT !.stage = "refused"].fin = turn[t].fin
            /\ AskUser(d).fin = turn[t].fin
            /\ CountsUp(turn[t], [d EXCEPT !.stage = "tool"])
            /\ CountsUp(turn[t], [d EXCEPT !.stage = "refused"])
            /\ CountsUp(turn[t], AskUser(d))
        BY <4>1 DEF AskUser, Turn, CountsUp
      <4> QED BY <3>1, <4>1, <4>2
    <3>4. CASE ToolAsks(t)
      <4>1. AskUser(turn[t]).fin = turn[t].fin /\ CountsUp(turn[t], AskUser(turn[t]))
        BY <2>1 DEF AskUser, Turn, CountsUp
      <4> QED BY <3>1, <3>4, <4>1 DEF ToolAsks
    <3>5. CASE ToolEnds(t)
      BY <2>1, <3>1, <3>5 DEF ToolEnds, Turn, CountsUp
    <3>6. CASE Retry(t)
      BY <2>1, <3>1, <3>6 DEF Retry, MayRetry, Turn, CountsUp
    <3> QED BY <2>2, <3>2, <3>3, <3>4, <3>5, <3>6
  <2>3. ASSUME NEW o \in {"done", "error"}, LoopReturns(t, o)
        PROVE  MovesOn
    <3> DEFINE r == [turn[t] EXCEPT !.stage = "ended"]
    <3>1. Finish(t, r, o) /\ r \in Turn /\ r.fin = turn[t].fin /\ CountsUp(turn[t], r)
      BY <2>1, <2>3 DEF LoopReturns, Turn, Stages, CountsUp
    <3> HIDE DEF r
    <3> QED BY <3>1, FinishMoves
  <2> QED BY <1>6, <2>2, <2>3 DEF Model
<1>7. CASE Quit \/ UNCHANGED vars
  BY <1>2, <1>7 DEF Quit, vars
<1> QED BY <1>4, <1>5, <1>6, <1>7 DEF Next

\* The loop and the Stop timer both call finish, and the turn is sealed once.
THEOREM SealedAtMostOnce == Spec => SealedOnce
<1>1. IInv /\ [Next]_vars => [MovesOn]_vars
  BY NextMoves
<1>2. [MovesOn]_vars =>
        [\A t \in Turns :
           <<turn[t].fin, turn'[t].fin>> \in {<<"no", "sealing">>, <<"sealing", "flushing">>,
                                              <<"flushing", "done">>}
             \/ turn'[t].fin = turn[t].fin]_vars
  BY DEF MovesOn
<1> QED BY <1>1, <1>2, IInvHolds, PTL DEF Spec, SealedOnce

\* A retry never replays a tool: once one has ended, nothing resets the turn.
THEOREM NoToolIsReplayed == Spec => ToolsAreNotReplayed
<1>1. IInv /\ [Next]_vars => [MovesOn]_vars
  BY NextMoves
<1>2. IInv /\ [MovesOn]_vars =>
        [\A t \in Turns : turn[t].toolCount > 0 =>
           turn'[t].toolCount >= turn[t].toolCount /\ turn'[t].attempts = turn[t].attempts]_vars
  <2> SUFFICES ASSUME IInv, MovesOn, NEW t \in Turns, turn[t].toolCount > 0
               PROVE  turn'[t].toolCount >= turn[t].toolCount /\ turn'[t].attempts = turn[t].attempts
    OBVIOUS
  <2>1. turn[t].toolCount \in Nat
    BY BoundsAssumption, OneTurn DEF Turn
  <2> QED BY <2>1 DEF MovesOn, CountsUp
<1> QED BY <1>1, <1>2, IInvHolds, PTL DEF Spec, ToolsAreNotReplayed

-----------------------------------------------------------------------------
(* Replies *)

\* No two nodes are replies of one turn.
Unique(ms) ==
  \A i, j \in 1..Len(ms) :
    ms[i].role = "assistant" /\ ms[j].role = "assistant" /\ ms[i].turn = ms[j].turn => i = j

\* A node is appended that is no second reply.
LEMMA AppendIsUnique ==
  ASSUME NEW ms \in Seq(Message), NEW m \in Message, Unique(ms),
         m.role = "assistant" => \A i \in 1..Len(ms) : ms[i].role = "assistant" => ms[i].turn # m.turn
  PROVE  Unique(Append(ms, m))
<1>1. /\ Len(Append(ms, m)) = Len(ms) + 1
      /\ \A i \in 1..Len(ms) : Append(ms, m)[i] = ms[i]
      /\ Append(ms, m)[Len(ms) + 1] = m
      /\ Len(ms) \in Nat
  BY AppendProperties, LenProperties
<1>2. \A i \in 1..Len(Append(ms, m)) : i \in 1..Len(ms) \/ i = Len(ms) + 1
  BY <1>1
<1> QED BY <1>1, <1>2 DEF Unique

\* A reply is stored over the one that is there.
LEMMA ReplaceIsUnique ==
  ASSUME NEW ms \in Seq(Message), NEW m \in Message, Unique(ms), m.role = "assistant"
  PROVE  Unique(ReplaceMessage(ms, m))
<1>1. Len(ms) \in Nat /\ DOMAIN ms = 1..Len(ms)
  BY LenProperties
<1>2. CASE ReplyAt(ms, m.turn) = {}
  BY <1>1, <1>2, AppendIsUnique DEF ReplaceMessage, ReplyAt
<1>3. CASE ReplyAt(ms, m.turn) # {}
  <2> DEFINE rs == [i \in 1..Len(ms) |-> IF i \in ReplyAt(ms, m.turn) THEN m ELSE ms[i]]
  <2>1. ReplaceMessage(ms, m) = rs
    BY <1>1, <1>3 DEF ReplaceMessage
  <2>2. rs \in Seq(Message) /\ Len(rs) = Len(ms)
    BY <1>1, ElementOfSeq
  <2>3. \A i \in 1..Len(ms) : i \in ReplyAt(ms, m.turn) <=> ms[i].role = "assistant" /\ ms[i].turn = m.turn
    BY <1>1 DEF ReplyAt
  <2>4. \A i \in 1..Len(ms) : rs[i].role = "assistant" => ms[i].role = "assistant" /\ rs[i].turn = ms[i].turn
    BY <2>3
  <2> HIDE DEF rs
  <2> QED BY <2>1, <2>2, <2>4, SMTT(30) DEF Unique
<1> QED BY <1>2, <1>3

\* Notices are no replies.
LEMMA NoticesAreUnique ==
  ASSUME NEW ms \in Seq(Message), NEW l \in Nat, NEW k \in Nat, Unique(ms)
  PROVE  Unique(ms \o NoticeChain(Len(ms), l, k))
<1> DEFINE ch == NoticeChain(Len(ms), l, k)
<1>1. Len(ms) \in Nat
  BY LenProperties
<1>2. \A i \in 1..k : ch[i] \in Message /\ ch[i].role = "system"
  BY <1>1 DEF NoticeChain, Notice, Message
<1>3. ch \in Seq(Message) /\ Len(ch) = k
  <2>1. ch = [i \in 1..k |-> ch[i]]
    BY DEF NoticeChain
  <2> HIDE DEF ch
  <2>2. ch \in [1..k -> Message]
    BY <1>2, <2>1
  <2> QED BY <2>2
<1> HIDE DEF ch
<1>4. /\ Len(ms \o ch) = Len(ms) + k
      /\ \A i \in 1..(Len(ms) + k) : (ms \o ch)[i] = IF i <= Len(ms) THEN ms[i] ELSE ch[i - Len(ms)]
  BY <1>3, ConcatProperties
<1>5. \A i \in 1..(Len(ms) + k) : (ms \o ch)[i].role = "assistant" => i \in 1..Len(ms) /\ (ms \o ch)[i] = ms[i]
  <2> SUFFICES ASSUME NEW i \in 1..(Len(ms) + k), i > Len(ms)
               PROVE  (ms \o ch)[i].role # "assistant"
    BY <1>1, <1>4
  <2>1. i - Len(ms) \in 1..k /\ (ms \o ch)[i] = ch[i - Len(ms)]
    BY <1>1, <1>4
  <2> QED BY <1>2, <2>1
<1>6. Unique(ms \o ch)
  BY <1>4, <1>5 DEF Unique
<1> QED BY <1>6 DEF ch

UniqueReplies == \A c \in Conversations : Unique(messages[c])

LEMMA PersistIsUnique ==
  ASSUME IInv, UniqueReplies, NEW t \in Turns, turn[t].conv \in Conversations,
         NEW seal \in Outcomes \cup {"none", "partial"}, Persist(t, seal)
  PROVE  UniqueReplies'
<1> DEFINE c == turn[t].conv
           m == Reply(t, seal)
<1>1. m \in Message /\ m.role = "assistant"
  BY OneTurn DEF Reply, Message, Turn, Outcomes
<1>2. \A d \in Conversations : messages'[d] = IF d = c THEN ReplaceMessage(messages[c], m) ELSE messages[d]
  BY DEF Persist, IInv, TreeInv, TreeTypeOK
<1>3. \A d \in Conversations : messages[d] \in Seq(Message)
  BY DEF IInv, TreeInv, TreeTypeOK
<1> HIDE DEF m
<1> QED BY <1>1, <1>2, <1>3, ReplaceIsUnique DEF UniqueReplies

\* A prompt or a notice is appended.
LEMMA AppendsAreUnique ==
  ASSUME IInv, UniqueReplies, NEW c \in Conversations, NEW m \in Message, m.role # "assistant",
         messages' = [messages EXCEPT ![c] = Append(@, m)]
  PROVE  UniqueReplies'
<1>1. \A d \in Conversations : /\ messages[d] \in Seq(Message)
                               /\ messages'[d] = IF d = c THEN Append(messages[c], m) ELSE messages[d]
  BY DEF IInv, TreeInv, TreeTypeOK
<1> QED BY <1>1, AppendIsUnique DEF UniqueReplies

\* `end` stores the prompts of the sends it starts and the notices that waited.
LEMMA EndIsUnique ==
  ASSUME IInv, NEW c \in Conversations, NEW tn, NEW ms \in [Conversations -> Seq(Message)],
         NEW lf \in [Conversations -> Nat], NEW k \in Nat, EmitEnd(c, tn, ms, lf, k),
         \A d \in Conversations : Unique(ms[d])
  PROVE  UniqueReplies'
<1> DEFINE started(d) == Append(ms[d], UserMessage(Head(queue[d]), lf[d]))
           ms1 == [d \in Conversations |-> IF d \in Ready THEN started(d) ELSE ms[d]]
           lf1 == [d \in Conversations |-> IF d \in Ready THEN Len(ms1[d]) ELSE lf[d]]
<1>1. messages' = [ms1 EXCEPT ![c] = @ \o NoticeChain(Len(@), lf1[c], k)]
  BY DEF EmitEnd
<1>2. \A d \in Conversations : ms1[d] \in Seq(Message) /\ Unique(ms1[d]) /\ lf1[d] \in Nat
  <2> SUFFICES ASSUME NEW d \in Conversations
               PROVE  ms1[d] \in Seq(Message) /\ Unique(ms1[d]) /\ lf1[d] \in Nat
    OBVIOUS
  <2>1. ms1[d] \in Seq(Message) /\ Unique(ms1[d])
    <3>1. CASE d \in Ready
      <4>1. Head(queue[d]) \in Turns
        BY <3>1, HeadTailProperties DEF Ready, IInv, TurnsInv, TurnsTypeOK
      <4>2. UserMessage(Head(queue[d]), lf[d]) \in Message /\ UserMessage(Head(queue[d]), lf[d]).role # "assistant"
        BY <4>1 DEF UserMessage, Message
      <4> QED BY <3>1, <4>2, AppendIsUnique, AppendProperties
    <3>2. CASE d \notin Ready
      BY <3>2
    <3> QED BY <3>1, <3>2
  <2> HIDE DEF ms1
  <2>2. Len(ms1[d]) \in Nat
    BY <2>1, LenProperties
  <2> QED BY <2>1, <2>2
<1>3. \A d \in Conversations : messages'[d] = IF d = c THEN ms1[c] \o NoticeChain(Len(ms1[c]), lf1[c], k) ELSE ms1[d]
  BY <1>1
<1> HIDE DEF ms1, lf1
<1> QED BY <1>2, <1>3, NoticesAreUnique DEF UniqueReplies

LEMMA UniqueKept ==
  ASSUME IInv, UniqueReplies, [Next]_vars
  PROVE  UniqueReplies'
<1>0. /\ messages \in [Conversations -> Seq(Message)] /\ leaf \in [Conversations -> Nat]
      /\ pendingNotices \in [Conversations -> Nat]
      /\ \A c \in Conversations : RepliesOf(messages[c], turn)
  BY DEF IInv, TreeInv, TreeTypeOK
<1>1. CASE messages' = messages
  BY <1>1 DEF UniqueReplies
<1>2. ASSUME NEW c \in Conversations, NEW t \in Turns, NEW p \in Nat, Run(c, t, p)
      PROVE  UniqueReplies'
  <2>1. UserMessage(t, p) \in Message /\ UserMessage(t, p).role # "assistant"
    BY DEF UserMessage, Message
  <2>2. messages' = [messages EXCEPT ![c] = Append(@, UserMessage(t, p))]
    BY <1>2 DEF Run
  <2> HIDE DEF UserMessage
  <2> QED BY <2>1, <2>2, AppendsAreUnique
<1>3. CASE Client /\ messages' # messages
  <2>1. PICK c \in Conversations :
          \/ \E t \in Turns : SendNow(c, t)
          \/ \E t \in Turns, i \in DOMAIN messages[c] : EditUserMessage(c, t, i)
          \/ AppendNotice(c)
    BY <1>3 DEF Client, Enqueue, Regenerate, Fork, Cancel, Answer
  <2>2. ASSUME NEW t \in Turns, SendNow(c, t) PROVE UniqueReplies'
    BY <1>0, <1>2, <2>2 DEF SendNow
  <2>3. ASSUME NEW t \in Turns, NEW i \in DOMAIN messages[c], EditUserMessage(c, t, i) PROVE UniqueReplies'
    <3>1. messages[c][i] \in Message
      BY <1>0, ElementOfSeq, LenProperties
    <3>2. messages[c][i].parent \in Nat
      BY <3>1 DEF Message
    <3> QED BY <1>2, <2>3, <3>2 DEF EditUserMessage
  <2>4. ASSUME AppendNotice(c) PROVE UniqueReplies'
    <3>1. Notice(leaf[c]) \in Message /\ Notice(leaf[c]).role # "assistant"
      BY <1>0 DEF Notice, Message
    <3>2. messages' = [messages EXCEPT ![c] = Append(@, Notice(leaf[c]))]
      BY <1>3, <2>4 DEF AppendNotice
    <3> QED BY <3>1, <3>2, AppendsAreUnique
  <2> QED BY <2>1, <2>2, <2>3, <2>4
<1>4. ASSUME NEW t \in Turns, turn[t].stage # "free", NEW seal \in Outcomes \cup {"none", "partial"}, Persist(t, seal)
      PROVE  UniqueReplies'
  BY <1>4, OneTurn, PersistIsUnique DEF Coherent
<1>5. ASSUME NEW t \in Turns, Host(t) \/ Model(t), messages' # messages
      PROVE  UniqueReplies'
  <2>1. EmitFatal(t) \/ StreamCheckpoint(t) \/ Finalized(t) \/ Flushed(t) \/ ToolEnds(t)
    BY <1>5 DEF Host, Model, Register, StopBeforeRegister, Prepared, StopTimer, BackoffOver, StreamText, CallTool,
                ToolAsks, LoopReturns, Retry
  <2>2. turn[t] \in Turn /\ Coherent(turn[t])
    BY OneTurn
  <2>3. CASE StreamCheckpoint(t)
    <3>1. Persist(t, "partial") /\ turn[t].stage # "free"
      BY <1>5, <2>2, <2>3 DEF StreamCheckpoint, Coherent, Unregistered
    <3> QED BY <1>4, <3>1
  <2>4. CASE ToolEnds(t)
    <3>1. Persist(t, "partial") /\ turn[t].stage # "free"
      BY <2>4 DEF ToolEnds
    <3> QED BY <1>4, <3>1
  <2>5. CASE Finalized(t)
    <3>1. Persist(t, turn[t].outcome) /\ turn[t].stage # "free"
      BY <1>5, <2>2, <2>5 DEF Finalized, Coherent, Unregistered
    <3>2. turn[t].outcome \in Outcomes \cup {"none", "partial"}
      BY <2>2 DEF Turn
    <3> QED BY <1>4, <3>1, <3>2
  <2>6. CASE EmitFatal(t)
    <3> DEFINE c == turn[t].conv
               m == [Reply(t, "error") EXCEPT !.text = TRUE]
               ms == [messages EXCEPT ![c] = Append(@, m)]
               lf == [leaf EXCEPT ![c] = Len(messages[c]) + 1]
    <3>1. turn[t].stage = "images" /\ EmitEnd(c, [turn EXCEPT ![t].stage = "ended"], ms, lf, 0)
      BY <2>6 DEF EmitFatal, At
    <3>2. c \in Conversations
      BY <2>2, <3>1 DEF Coherent
    <3>3. m \in Message /\ m.role = "assistant" /\ m.turn = t
      BY <2>2 DEF Reply, Message, Turn, Outcomes
    <3> HIDE DEF m
    <3>4. \A i \in 1..Len(messages[c]) : messages[c][i].role = "assistant" => messages[c][i].turn # t
      BY <1>0, <3>1, <3>2 DEF RepliesOf, Unregistered
    <3>5. \A d \in Conversations : /\ ms[d] = IF d = c THEN Append(messages[c], m) ELSE messages[d]
                                   /\ lf[d] = IF d = c THEN Len(messages[c]) + 1 ELSE leaf[d]
      BY <1>0
    <3>6. /\ Append(messages[c], m) \in Seq(Message) /\ Unique(Append(messages[c], m))
          /\ Len(messages[c]) + 1 \in Nat
      <4> HIDE DEF c
      <4>1. messages[c] \in Seq(Message) /\ Unique(messages[c])
        BY <1>0, <3>2 DEF UniqueReplies
      <4>2. Unique(Append(messages[c], m))
        BY <3>3, <3>4, <4>1, AppendIsUnique
      <4>3. Append(messages[c], m) \in Seq(Message)
        BY <3>3, <4>1, AppendProperties
      <4>4. Len(messages[c]) + 1 \in Nat
        BY <4>1, LenProperties
      <4> QED BY <4>2, <4>3, <4>4
    <3>7. ms \in [Conversations -> Seq(Message)] /\ lf \in [Conversations -> Nat]
      BY <1>0, <3>6
    <3>8. \A d \in Conversations : Unique(ms[d])
      BY <3>5, <3>6 DEF UniqueReplies
    <3> HIDE DEF ms, lf
    <3> QED BY <3>1, <3>2, <3>7, <3>8, EndIsUnique
  <2>7. CASE Flushed(t)
    <3>1. turn[t].fin = "flushing"
      BY <2>7 DEF Flushed
    <3>2. turn[t].conv \in Conversations
      BY <2>2, <3>1 DEF Coherent, Unregistered
    <3>3. pendingNotices[turn[t].conv] \in Nat
      BY <1>0, <3>2
    <3> QED BY <1>0, <2>7, <3>2, <3>3, EndIsUnique DEF Flushed, UniqueReplies
  <2> QED BY <2>1, <2>3, <2>4, <2>5, <2>6, <2>7
<1>6. CASE Quit
  <2> SUFFICES ASSUME NEW c \in Conversations PROVE Unique(messages'[c])
    BY DEF UniqueReplies
  <2>1. CASE Registered(c)
    <3>1. turns[c] \in Turns
      BY <2>1 DEF Registered, IInv, TurnsInv, TurnsTypeOK
    <3>2. Reply(turns[c], "partial") \in Message /\ Reply(turns[c], "partial").role = "assistant"
      BY <3>1, OneTurn DEF Reply, Message, Turn
    <3>3. messages'[c] = ReplaceMessage(messages[c], Reply(turns[c], "partial"))
      BY <1>6, <2>1 DEF Quit
    <3> QED BY <1>0, <3>2, <3>3, ReplaceIsUnique DEF UniqueReplies
  <2>2. CASE ~Registered(c)
    BY <1>6, <2>2 DEF Quit, UniqueReplies
  <2> QED BY <2>1, <2>2
<1> QED BY <1>1, <1>3, <1>5, <1>6 DEF Next, vars

\* Every write of a reply lands on the same node, for any number of turns: a
\* turn never has two replies in the tree.
THEOREM RepliesAreUnique == Spec => []OneReplyPerTurn
<1>1. Init => UniqueReplies
  BY EmptySeq DEF Init, UniqueReplies, Unique
<1>2. IInv /\ UniqueReplies /\ [Next]_vars => UniqueReplies'
  BY UniqueKept
<1>3. IInv /\ UniqueReplies => OneReplyPerTurn
  BY LenProperties DEF IInv, TreeInv, TreeTypeOK, UniqueReplies, Unique, OneReplyPerTurn, ReplyAt
<1> QED BY <1>1, <1>2, <1>3, IInvHolds, PTL DEF Spec

-----------------------------------------------------------------------------
(* Quit and answers *)

\* A process that has quit does nothing more.
LEMMA OnlyWhileUp == Next => up
<1>1. Client => up
  BY DEF Client, SendNow, Enqueue, Regenerate, EditUserMessage, Fork, AppendNotice, Cancel, Answer, Free
<1>2. \A t \in Turns : Host(t) => up
  BY DEF Host, Register, StopBeforeRegister, EmitFatal, Prepared, StopTimer, StreamCheckpoint, BackoffOver, Finalized,
         Flushed, At
<1>3. \A t \in Turns : Model(t) => up
  BY DEF Model, StreamText, CallTool, ToolAsks, ToolEnds, LoopReturns, Retry, At
<1> QED
  BY <1>1, <1>2, <1>3 DEF Next, Quit

\* Only Quit ends the process.
LEMMA UpUntilQuit == Next => up' = up \/ Quit
<1>1. Client => up' = up
  BY DEF Client, SendNow, Run, Enqueue, Regenerate, EditUserMessage, Fork, AppendNotice, Cancel, Answer
<1>2. ASSUME NEW t \in Turns, Host(t) PROVE up' = up
  <2>1. CASE Register(t) \/ StopBeforeRegister(t) \/ EmitFatal(t) \/ Prepared(t)
    BY <2>1 DEF Register, StopBeforeRegister, EmitFatal, Prepared
  <2>2. CASE StopTimer(t) \/ StreamCheckpoint(t) \/ BackoffOver(t) \/ Finalized(t) \/ Flushed(t)
    BY <2>2 DEF StopTimer, StreamCheckpoint, BackoffOver, Finalized, Flushed
  <2> QED
    BY <1>2, <2>1, <2>2 DEF Host
<1>3. ASSUME NEW t \in Turns, Model(t) PROVE up' = up
  BY <1>3 DEF Model, StreamText, CallTool, ToolAsks, ToolEnds, LoopReturns, Retry
<1> QED
  BY <1>1, <1>2, <1>3 DEF Next

LEMMA QuitStores ==
  ASSUME IInv, Quit
  PROVE  QuitKeepsDrafts'
<1> SUFFICES ASSUME NEW c \in Conversations, Registered(c)
             PROVE  \E i \in ReplyAt(messages'[c], turns[c]) : messages'[c][i].text = turn[turns[c]].draft
  BY DEF QuitKeepsDrafts, Quit, Registered
<1> DEFINE t == turns[c]
           m == Reply(t, "partial")
           ms == messages[c]
<1>1. t \in Turns /\ ms \in Seq(Message) /\ Len(ms) \in Nat /\ DOMAIN ms = 1..Len(ms)
  BY LenProperties DEF Registered, IInv, TurnsInv, TurnsTypeOK, TreeInv, TreeTypeOK
<1>2. m \in Message /\ m.role = "assistant" /\ m.turn = t /\ m.text = turn[t].draft
  BY <1>1, OneTurn DEF Reply, Message, Turn
<1>3. messages'[c] = ReplaceMessage(ms, m)
  BY DEF Quit
<1> HIDE DEF m, ms, t
<1>4. CASE ReplyAt(ms, t) = {}
  <2>1. messages'[c] = Append(ms, m)
    BY <1>2, <1>3, <1>4 DEF ReplaceMessage
  <2>2. /\ Append(ms, m) \in Seq(Message) /\ Len(Append(ms, m)) = Len(ms) + 1
        /\ Append(ms, m)[Len(ms) + 1] = m
    BY <1>1, <1>2, AppendProperties
  <2>3. DOMAIN Append(ms, m) = 1..(Len(ms) + 1)
    BY <2>2, LenProperties
  <2>4. Len(ms) + 1 \in ReplyAt(messages'[c], t)
    BY <1>1, <1>2, <2>1, <2>2, <2>3 DEF ReplyAt
  <2> QED BY <1>2, <2>1, <2>2, <2>4 DEF t
<1>5. CASE ReplyAt(ms, t) # {}
  <2>1. PICK i \in ReplyAt(ms, t) : TRUE
    BY <1>5
  <2>2. messages'[c] = [j \in DOMAIN ms |-> IF j \in ReplyAt(ms, t) THEN m ELSE ms[j]]
    BY <1>2, <1>3, <1>5 DEF ReplaceMessage
  <2>3. i \in DOMAIN messages'[c] /\ messages'[c][i] = m
    BY <2>1, <2>2 DEF ReplyAt
  <2>4. i \in ReplyAt(messages'[c], t)
    BY <1>2, <2>3 DEF ReplyAt
  <2> QED BY <1>2, <2>3, <2>4 DEF t
<1> QED BY <1>4, <1>5

\* Text streamed before a quit survives it.
THEOREM DraftsSurviveQuit == Spec => []QuitKeepsDrafts
<1>1. Init => QuitKeepsDrafts
  BY DEF Init, QuitKeepsDrafts
<1>2. IInv /\ QuitKeepsDrafts /\ [Next]_vars => QuitKeepsDrafts'
  <2> SUFFICES ASSUME IInv, QuitKeepsDrafts, [Next]_vars PROVE QuitKeepsDrafts'
    OBVIOUS
  <2>1. CASE UNCHANGED vars
    BY <2>1 DEF QuitKeepsDrafts, Registered, vars
  <2>2. CASE Quit
    BY <2>2, QuitStores
  <2>3. CASE up'
    BY <2>3 DEF QuitKeepsDrafts
  <2>4. CASE Next /\ ~Quit
    <3>1. up /\ up' = up
      BY <2>4, OnlyWhileUp, UpUntilQuit
    <3> QED BY <2>3, <3>1
  <2> QED BY <2>1, <2>2, <2>4
<1> QED BY <1>1, <1>2, IInvHolds, PTL DEF Spec

\* An answer resolves the card of the conversation it was given in, whatever
\* cards with the same id other conversations show.
THEOREM AnswersHitTheirCards == Spec => AnswerHitsItsCard
<1> DEFINE Hits ==
      \A c \in Conversations, id \in CallIds, accepted \in BOOLEAN :
        (Registered(c) /\ id \in turn[turns[c]].pending /\ Answer(c, id, accepted)) =>
          /\ turn'[turns[c]].pending = {}
          /\ \A t \in Turns \ {turns[c]} : turn'[t] = turn[t]
<1>1. IInv => Hits
  <2> SUFFICES ASSUME IInv, NEW c \in Conversations, NEW id \in CallIds, NEW accepted \in BOOLEAN,
                      Registered(c), id \in turn[turns[c]].pending, Answer(c, id, accepted)
               PROVE  /\ turn'[turns[c]].pending = {}
                      /\ \A t \in Turns \ {turns[c]} : turn'[t] = turn[t]
    OBVIOUS
  <2>1. turns[c] \in Turns /\ Owns(turns[c])
    BY DEF Registered, Owns, IInv, TurnsInv, TurnsTypeOK, RegisteredAreDriven
  <2>2. AnswerTargets(c, id) = {turns[c]}
    BY <2>1 DEF AnswerTargets
  <2>3. Step(turns[c], Resolved(turn[turns[c]], accepted))
    BY <2>2 DEF Answer
  <2>4. turn[turns[c]] \in Turn /\ turn \in [Turns -> Turn]
    BY <2>1, OneTurn DEF IInv, TurnsInv, TurnsTypeOK
  <2>5. Resolved(turn[turns[c]], accepted).pending = {}
    BY <2>4 DEF Resolved, Turn
  <2> HIDE DEF Resolved
  <2> QED BY <2>1, <2>3, <2>4, <2>5 DEF Step
<1> QED BY <1>1, IInvHolds, PTL DEF AnswerHitsItsCard
=============================================================================
