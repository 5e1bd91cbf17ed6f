---------------------------- MODULE TurnRuntime ----------------------------
(***************************************************************************)
(* The built-in agent's turn lifecycle: AgentRuntime (one TurnState per    *)
(* conversation, each driven by its own asynchronous loop), the transcript *)
(* it writes through ConversationStore, and the control plane's queue of   *)
(* sends that arrived while a conversation was busy.                       *)
(*                                                                         *)
(* The host is one JavaScript thread: code between two awaits is one       *)
(* action, and every await, timer and client call is a point where another *)
(* action may run.  A turn's `stage` is the await its loop is suspended    *)
(* at.  The model SDK, the tools and the disk are the environment.         *)
(***************************************************************************)
EXTENDS Naturals, Sequences, FiniteSets

CONSTANTS
  Conversations,  \* conversation ids
  MaxTurns,       \* bound: sends of a run, each of which takes a turn slot
  NoTurn,         \* turns.get(id) === undefined
  MaxCalls,       \* bound: tool calls of one turn
  RetryLimit,     \* NETWORK_RETRY_LIMIT
  QueueMax,       \* REMOTE_SEND_QUEUE_MAX
  MaxNotices,     \* bound: notices of one conversation
  Branching,      \* bound: whether the user forks, regenerates and edits
  Quits           \* bound: whether the process may quit

Turns == 1..MaxTurns

ASSUME SlotsAssumption == MaxTurns \in Nat /\ NoTurn \notin Turns
ASSUME BoundsAssumption ==
  /\ {MaxCalls, RetryLimit, QueueMax, MaxNotices} \subseteq Nat
  /\ {Branching, Quits} \subseteq BOOLEAN

VARIABLES
  turns,          \* the Map of registered turns
  turn,           \* every TurnState, and the startTurn calls before one exists
  pendingCancels, \* Stops waiting for a turn to consume them
  pendingNotices, \* how many notices wait for the end of the running turn
  queue,          \* RemoteSendQueue: the sends that wait, oldest first
  messages,       \* the stored nodes of each conversation's tree, oldest first
  leaf,           \* activeLeafId: a position in messages, 0 for the root
  up              \* FALSE once the process has quit

vars == <<turns, turn, pendingCancels, pendingNotices, queue, messages, leaf, up>>

-----------------------------------------------------------------------------
(* Data *)

\* Tool call ids, numbered per turn: providers do not make them unique
\* across turns.
CallIds == 1..(MaxCalls + 1)

\* TurnPhase: "streaming" stands for thinking and outputting, "recovering" for
\* healing, reconnecting and retrying.
Phases == {"streaming", "awaiting-user", "working", "recovering"}
Outcomes == {"done", "cancelled", "error"}

\* Where startTurn and the loop are suspended.
Stages == {"free", "queued", "dropped", "images", "prepare", "model", "tool",
           "parked", "refused", "backoff", "ended"}

\* A slot before its send is accepted.
NewTurn == [conv |-> "none", stage |-> "free", parent |-> 0, phase |-> "streaming",
            cancelled |-> FALSE, pending |-> {}, toolCount |-> 0, attempts |-> 0,
            draft |-> FALSE, checkpoint |-> FALSE, stopTimer |-> FALSE,
            fin |-> "no", outcome |-> "none"]

\* The slots are taken in order.
Free(t) == up /\ \A u \in Turns : (turn[u].stage = "free") <=> (u >= t)
At(t, s) == up /\ turn[t].stage = s

\* isRunning
Registered(c) == turns[c] # NoTurn
Owns(t) == turn[t].conv \in Conversations /\ turns[turn[t].conv] = t

\* The loop of t is on its way to one more await.
Active(t) == turn[t].stage \in {"prepare", "model", "tool", "parked", "refused", "backoff"}

Step(t, r) == turn' = [turn EXCEPT ![t] = r]

UserMessage(t, parent) ==
  [role |-> "user", parent |-> parent, turn |-> t, seal |-> "none", text |-> TRUE]
Notice(parent) ==
  [role |-> "system", parent |-> parent, turn |-> NoTurn, seal |-> "none", text |-> TRUE]
Reply(t, seal) ==
  [role |-> "assistant", parent |-> turn[t].parent, turn |-> t, seal |-> seal,
   text |-> turn[t].draft]

\* The stored position of the reply of t, if it has one.
ReplyAt(ms, t) == {i \in DOMAIN ms : ms[i].role = "assistant" /\ ms[i].turn = t}

\* Mutant of ReplaceMessage: every write is a push.
AlwaysPush(ms, m) == Append(ms, m)

\* replaceMessage: in place when the id is stored, else a push that moves the leaf.
ReplaceMessage(ms, m) ==
  IF ReplyAt(ms, m.turn) = {} THEN Append(ms, m)
  ELSE [i \in DOMAIN ms |-> IF i \in ReplyAt(ms, m.turn) THEN m ELSE ms[i]]
LeafAfterReplace(ms, l, m) == IF ReplyAt(ms, m.turn) = {} THEN Len(ms) + 1 ELSE l

Persist(t, seal) ==
  LET c == turn[t].conv IN
  /\ messages' = [messages EXCEPT ![c] = ReplaceMessage(@, Reply(t, seal))]
  /\ leaf' = [leaf EXCEPT ![c] = LeafAfterReplace(messages[c], @, Reply(t, seal))]

-----------------------------------------------------------------------------
(* Accepting a prompt: the control plane, run, startTurn *)

\* run and the synchronous part of startTurn for the slot t: store the prompt,
\* move the leaf, then suspend on loadInlineImages, unless a Stop is waiting.
StartedTurn(t, c, parent) ==
  [turn[t] EXCEPT !.conv = c, !.parent = parent,
                  !.stage = IF c \in pendingCancels THEN "dropped" ELSE "images"]

Run(c, t, parent) ==
  /\ Step(t, StartedTurn(t, c, Len(messages[c]) + 1))
  /\ messages' = [messages EXCEPT ![c] = Append(@, UserMessage(t, parent))]
  /\ leaf' = [leaf EXCEPT ![c] = Len(messages[c]) + 1]
  /\ pendingCancels' = pendingCancels \ {c}
  /\ UNCHANGED <<turns, pendingNotices, queue, up>>

SendNow(c, t) == Free(t) /\ ~Registered(c) /\ Run(c, t, leaf[c])

\* A send to a busy conversation waits, or is lost when the queue is full.
Enqueue(c, t) ==
  /\ Free(t) /\ Registered(c)
  /\ LET full == Len(queue[c]) >= QueueMax IN
     /\ Step(t, [turn[t] EXCEPT !.conv = c, !.stage = IF full THEN "dropped" ELSE "queued"])
     /\ queue' = [queue EXCEPT ![c] = IF full THEN @ ELSE Append(@, t)]
  /\ UNCHANGED <<turns, pendingCancels, pendingNotices, messages, leaf, up>>

\* regenerate: answer the same prompt again; nothing is stored yet.
Regenerate(c, t, i) ==
  /\ Branching /\ Free(t) /\ ~Registered(c)
  /\ LET m == messages[c][i]
         parent == IF m.role = "assistant" THEN m.parent ELSE i IN
     /\ leaf' = [leaf EXCEPT ![c] = parent]
     /\ Step(t, StartedTurn(t, c, parent))
  /\ pendingCancels' = pendingCancels \ {c}
  /\ UNCHANGED <<turns, pendingNotices, queue, messages, up>>

EditUserMessage(c, t, i) ==
  /\ Branching /\ Free(t) /\ ~Registered(c)
  /\ messages[c][i].role = "user"
  /\ Run(c, t, messages[c][i].parent)

\* fork: i = 0 is ROOT_LEAF.
Fork(c, i) ==
  /\ up /\ Branching /\ ~Registered(c)
  /\ leaf' = [leaf EXCEPT ![c] =
       IF i # 0 /\ messages[c][i].role = "user" THEN messages[c][i].parent ELSE i]
  /\ UNCHANGED <<turns, turn, pendingCancels, pendingNotices, queue, messages, up>>

AppendNotice(c) ==
  /\ up
  /\ Cardinality({i \in DOMAIN messages[c] : messages[c][i].role = "system"})
       + pendingNotices[c] < MaxNotices
  /\ IF Registered(c)
     THEN /\ pendingNotices' = [pendingNotices EXCEPT ![c] = @ + 1]
          /\ UNCHANGED <<messages, leaf>>
     ELSE /\ messages' = [messages EXCEPT ![c] = Append(@, Notice(leaf[c]))]
          /\ leaf' = [leaf EXCEPT ![c] = Len(messages[c]) + 1]
          /\ UNCHANGED pendingNotices
  /\ UNCHANGED <<turns, turn, pendingCancels, queue, up>>

-----------------------------------------------------------------------------
(* The `end` event *)

\* Mutant of Ready: `end` does not call flushSends.
NeverReady == {}

\* flushSends: every idle conversation with waiting sends starts its oldest.
Ready == {c \in Conversations : queue[c] # <<>> /\ ~Registered(c)}

\* takeReady's shift.
TakeReady(c) == IF c \in Ready THEN Tail(queue[c]) ELSE queue[c]

\* The notices flushed one after the other, each under the one before.
NoticeChain(n, parent, k) ==
  [i \in 1..k |-> Notice(IF i = 1 THEN parent ELSE n + i - 1)]

\* What emitting `end` does before it returns, from the turns, messages and
\* leaves the emitter has reached; then k notices are flushed onto c's leaf.
EmitEnd(c, tn, ms, lf, k) ==
  LET starts(d) == d \in Ready
      ms1 == [d \in Conversations |->
                IF starts(d) THEN Append(ms[d], UserMessage(Head(queue[d]), lf[d])) ELSE ms[d]]
      lf1 == [d \in Conversations |-> IF starts(d) THEN Len(ms1[d]) ELSE lf[d]]
  IN /\ queue' = [d \in Conversations |-> TakeReady(d)]
     /\ turn' = [u \in Turns |->
          IF u \in {Head(queue[d]) : d \in Ready}
          THEN StartedTurn(u, tn[u].conv, Len(ms1[tn[u].conv]))
          ELSE tn[u]]
     /\ messages' = [ms1 EXCEPT ![c] = @ \o NoticeChain(Len(@), lf1[c], k)]
     /\ leaf' = [lf1 EXCEPT ![c] = IF k = 0 THEN @ ELSE Len(ms1[c]) + k]
     /\ pendingCancels' = pendingCancels \ Ready

-----------------------------------------------------------------------------
(* Stop and card answers *)

\* Mutant of StopTurn: no timer is armed behind the abort.
StopWithoutTimer(r) ==
  [r EXCEPT !.cancelled = TRUE, !.pending = {},
            !.stage = IF r.pending = {} THEN @ ELSE "refused",
            !.phase = IF r.pending = {} THEN @ ELSE "working"]

\* cancel's stopTurn: release the parked card, abort, arm the 1.5 s timer.
StopTurn(r) ==
  [r EXCEPT !.cancelled = TRUE, !.pending = {}, !.stopTimer = TRUE,
            !.stage = IF r.pending = {} THEN @ ELSE "refused",
            !.phase = IF r.pending = {} THEN @ ELSE "working"]

\* The turns a Stop on c reaches: c's own, else every one that looks parked.
Stopped(c) ==
  IF Registered(c) THEN {turns[c]}
  ELSE {t \in Turns : /\ Owns(t)
                      /\ turn[t].pending # {} \/ turn[t].phase \in {"awaiting-user", "working"}}

\* Mutant of MarkersAfterStop: the marker of an idle Stop is left behind.
KeepMarker(c) == pendingCancels \cup {c}

\* A Stop leaves a marker for the turn it found; an idle one takes it back.
MarkersAfterStop(c) ==
  IF Registered(c) THEN pendingCancels \cup {c} ELSE pendingCancels \ {c}

\* The control plane's cancel: drop the waiting sends, then AgentRuntime.cancel.
Cancel(c) ==
  /\ up
  /\ turn' = [t \in Turns |->
       IF t \in Stopped(c) THEN StopTurn(turn[t])
       ELSE IF turn[t].stage = "queued" /\ turn[t].conv = c
            THEN [turn[t] EXCEPT !.stage = "dropped"]
            ELSE turn[t]]
  /\ queue' = [queue EXCEPT ![c] = <<>>]
  /\ pendingCancels' = MarkersAfterStop(c)
  /\ UNCHANGED <<turns, pendingNotices, messages, leaf, up>>

\* Mutant of AnswerTargets: the scan by id comes before the preferred turn.
ScanFirst(c, id) ==
  {t \in Turns : Owns(t) /\ id \in turn[t].pending}

\* pickToolAnswerRoute: c's own card, else any registered turn holding the id,
\* else the only parked card there is.
AnswerTargets(c, id) ==
  LET owners == {t \in Turns : Owns(t)}
      holding == {t \in owners : id \in turn[t].pending}
      waiters == {w \in owners \X CallIds : w[2] \in turn[w[1]].pending}
  IN IF turns[c] \in holding THEN {turns[c]}
     ELSE IF holding # {} THEN holding
     ELSE IF Cardinality(waiters) = 1 THEN {w[1] : w \in waiters}
     ELSE {}

\* The waiter's resolve: off the pending map, phase working, the loop resumes.
Resolved(r, accepted) ==
  [r EXCEPT !.pending = {}, !.phase = "working",
            !.stage = IF accepted THEN "tool" ELSE "refused"]

Answer(c, id, accepted) ==
  /\ up
  /\ \E t \in AnswerTargets(c, id) : Step(t, Resolved(turn[t], accepted))
  /\ UNCHANGED <<turns, pendingCancels, pendingNotices, queue, messages, leaf, up>>

-----------------------------------------------------------------------------
(* Finishing *)

\* Mutant of Finish: no identity guard.
FinishAnyway(t, r, outcome) ==
  /\ turns' = [turns EXCEPT ![r.conv] = NoTurn]
  /\ pendingCancels' = pendingCancels \ {r.conv}
  /\ Step(t, [r EXCEPT !.fin = "sealing", !.checkpoint = FALSE, !.outcome = outcome])

\* finish and the synchronous head of finishAsync for the turn t, whose record
\* has reached r.  Only the registered turn finishes; any other returns.
Finish(t, r, outcome) ==
  IF Owns(t)
  THEN /\ turns' = [turns EXCEPT ![r.conv] = NoTurn]
       /\ pendingCancels' = pendingCancels \ {r.conv}
       /\ Step(t, [r EXCEPT !.fin = "sealing", !.checkpoint = FALSE,
                            !.outcome = IF r.cancelled THEN "cancelled" ELSE outcome])
  ELSE Step(t, r) /\ UNCHANGED <<turns, pendingCancels>>

\* finalizeTurn has answered: store the sealed reply unless it is empty, then
\* suspend on flushAsync.
Finalized(t) ==
  /\ up /\ turn[t].fin = "sealing"
  /\ \E changed \in BOOLEAN :
       IF turn[t].draft \/ changed \/ turn[t].outcome = "error"
       THEN Persist(t, turn[t].outcome)
       ELSE UNCHANGED <<messages, leaf>>
  /\ Step(t, [turn[t] EXCEPT !.fin = "flushing"])
  /\ UNCHANGED <<turns, pendingCancels, pendingNotices, queue, up>>

\* The store has flushed: emit `end`, then flush the notices that waited.
Flushed(t) ==
  LET c == turn[t].conv IN
  /\ up /\ turn[t].fin = "flushing"
  /\ EmitEnd(c, [turn EXCEPT ![t].fin = "done"], messages, leaf, pendingNotices[c])
  /\ pendingNotices' = [pendingNotices EXCEPT ![c] = 0]
  /\ UNCHANGED <<turns, up>>

\* The timer Stop armed: the loop did not end by itself in 1.5 s.
StopTimer(t) ==
  /\ up /\ turn[t].stopTimer
  /\ Finish(t, [turn[t] EXCEPT !.stopTimer = FALSE], "cancelled")
  /\ UNCHANGED <<pendingNotices, queue, messages, leaf, up>>

-----------------------------------------------------------------------------
(* startTurn after its awaits *)

\* loadInlineImages has answered: register the TurnState, over whatever turn
\* the conversation has by now.
Register(t) ==
  /\ At(t, "images") /\ turn[t].conv \notin pendingCancels
  /\ turns' = [turns EXCEPT ![turn[t].conv] = t]
  /\ Step(t, [turn[t] EXCEPT !.stage = "prepare"])
  /\ UNCHANGED <<pendingCancels, pendingNotices, queue, messages, leaf, up>>

\* ... or a Stop was waiting for it.
StopBeforeRegister(t) ==
  /\ At(t, "images") /\ turn[t].conv \in pendingCancels
  /\ Step(t, [turn[t] EXCEPT !.stage = "dropped"])
  /\ pendingCancels' = pendingCancels \ {turn[t].conv}
  /\ UNCHANGED <<turns, pendingNotices, queue, messages, leaf, up>>

\* emitFatal: no credential or nothing to send; the turn never registers.
EmitFatal(t) ==
  LET c == turn[t].conv
      m == [Reply(t, "error") EXCEPT !.text = TRUE] IN
  /\ At(t, "images") /\ c \notin pendingCancels
  /\ EmitEnd(c, [turn EXCEPT ![t].stage = "ended"],
             [messages EXCEPT ![c] = Append(@, m)],
             [leaf EXCEPT ![c] = Len(messages[c]) + 1], 0)
  /\ UNCHANGED <<turns, pendingNotices, up>>

\* The working copy, then the plugin hooks and MCP tools: after each await a
\* stopped or replaced turn returns without finishing.
Prepared(t) ==
  /\ At(t, "prepare")
  /\ Step(t, [turn[t] EXCEPT !.stage = IF turn[t].cancelled \/ ~Owns(t) THEN "ended" ELSE "model"])
  /\ UNCHANGED <<turns, pendingCancels, pendingNotices, queue, messages, leaf, up>>

-----------------------------------------------------------------------------
(* The loop *)

\* A text delta: the draft grows and a checkpoint is due in 2 s.
StreamText(t) ==
  /\ At(t, "model") /\ ~turn[t].cancelled
  /\ Step(t, [turn[t] EXCEPT !.phase = "streaming", !.draft = TRUE, !.checkpoint = TRUE])
  /\ UNCHANGED <<turns, pendingCancels, pendingNotices, queue, messages, leaf, up>>

\* scheduleStreamCheckpoint's timer.
StreamCheckpoint(t) ==
  /\ up /\ turn[t].checkpoint
  /\ Step(t, [turn[t] EXCEPT !.checkpoint = FALSE])
  /\ IF Owns(t) THEN Persist(t, "partial") ELSE UNCHANGED <<messages, leaf>>
  /\ UNCHANGED <<turns, pendingCancels, pendingNotices, queue, up>>

\* Mutant of AskUser: parks without looking at the abort signal.
AskAborted(r) ==
  [r EXCEPT !.stage = "parked", !.phase = "awaiting-user",
            !.pending = @ \cup {r.toolCount + 1}]

\* askUser for the current call: a stopped turn is not parked.
AskUser(r) ==
  IF r.cancelled THEN [r EXCEPT !.stage = "refused"]
  ELSE [r EXCEPT !.stage = "parked", !.phase = "awaiting-user",
                 !.pending = @ \cup {r.toolCount + 1}]

\* The model calls a tool and gateToolCall lets it run, parks it for approval,
\* or blocks it; the card is a block of the draft in every case.
CallTool(t) ==
  /\ At(t, "model") /\ ~turn[t].cancelled /\ turn[t].toolCount < MaxCalls
  /\ LET r == [turn[t] EXCEPT !.draft = TRUE] IN
     Step(t, [r EXCEPT !.stage = "tool"]) \/ Step(t, AskUser(r))
       \/ Step(t, [r EXCEPT !.stage = "refused"])
  /\ UNCHANGED <<turns, pendingCancels, pendingNotices, queue, messages, leaf, up>>

\* An interactive tool asks the user while it executes.
ToolAsks(t) ==
  /\ At(t, "tool")
  /\ Step(t, AskUser(turn[t]))
  /\ UNCHANGED <<turns, pendingCancels, pendingNotices, queue, messages, leaf, up>>

\* tool_execution_end, whichever turn owns the conversation by now; the loop
\* goes back to the model.
ToolEnds(t) ==
  /\ up /\ turn[t].stage \in {"tool", "refused"}
  /\ Persist(t, "partial")
  /\ Step(t, [turn[t] EXCEPT !.stage = "model", !.toolCount = @ + 1, !.checkpoint = FALSE,
                             !.phase = IF turn[t].cancelled THEN @ ELSE "streaming"])
  /\ UNCHANGED <<turns, pendingCancels, pendingNotices, queue, up>>

\* runAgentLoopContinue returns and the turn finishes.
LoopReturns(t, outcome) ==
  /\ At(t, "model")
  /\ Finish(t, [turn[t] EXCEPT !.stage = "ended"], outcome)
  /\ UNCHANGED <<pendingNotices, queue, messages, leaf, up>>

\* Mutant of MayRetry: a turn that ran a tool is retried too.
RetryAfterTools(t) == turn[t].attempts < RetryLimit

\* shouldRetryNativeTurn, for an error of a retryable kind.
MayRetry(t) == turn[t].toolCount = 0 /\ turn[t].attempts < RetryLimit

\* ... or it failed before any tool ran: resetNativeDraft drops the draft, not
\* the checkpoint that is due, and the loop sleeps.
Retry(t) ==
  /\ At(t, "model") /\ ~turn[t].cancelled /\ Owns(t) /\ MayRetry(t)
  /\ Step(t, [turn[t] EXCEPT !.stage = "backoff", !.attempts = @ + 1, !.draft = FALSE,
                             !.toolCount = 0, !.phase = "recovering"])
  /\ UNCHANGED <<turns, pendingCancels, pendingNotices, queue, messages, leaf, up>>

\* The sleep is over: another attempt, unless stopped or replaced meanwhile.
BackoffOver(t) ==
  /\ At(t, "backoff")
  /\ IF turn[t].cancelled \/ ~Owns(t)
     THEN Finish(t, [turn[t] EXCEPT !.stage = "ended"], "done")
     ELSE Step(t, [turn[t] EXCEPT !.stage = "model"]) /\ UNCHANGED <<turns, pendingCancels>>
  /\ UNCHANGED <<pendingNotices, queue, messages, leaf, up>>

-----------------------------------------------------------------------------
(* Quit *)

\* Mutant of Quit: the store is flushed without persistInFlight.
QuitWithoutPersist ==
  /\ Quits /\ up /\ up' = FALSE
  /\ UNCHANGED <<turns, turn, pendingCancels, pendingNotices, queue, messages, leaf>>

\* teardownForQuit: persistInFlight checkpoints every registered turn, then the
\* store is flushed synchronously and the process ends.
Quit ==
  /\ Quits /\ up /\ up' = FALSE
  /\ messages' = [c \in Conversations |->
       IF Registered(c) THEN ReplaceMessage(messages[c], Reply(turns[c], "partial"))
       ELSE messages[c]]
  /\ leaf' = [c \in Conversations |->
       IF Registered(c) THEN LeafAfterReplace(messages[c], leaf[c], Reply(turns[c], "partial"))
       ELSE leaf[c]]
  /\ UNCHANGED <<turns, turn, pendingCancels, pendingNotices, queue>>

-----------------------------------------------------------------------------
Init ==
  /\ turns = [c \in Conversations |-> NoTurn]
  /\ turn = [t \in Turns |-> NewTurn]
  /\ pendingCancels = {}
  /\ pendingNotices = [c \in Conversations |-> 0]
  /\ queue = [c \in Conversations |-> <<>>]
  /\ messages = [c \in Conversations |-> <<>>]
  /\ leaf = [c \in Conversations |-> 0]
  /\ up = TRUE

Client ==
  \E c \in Conversations :
    \/ \E t \in Turns : SendNow(c, t) \/ Enqueue(c, t)
    \/ \E t \in Turns, i \in DOMAIN messages[c] : Regenerate(c, t, i) \/ EditUserMessage(c, t, i)
    \/ \E i \in DOMAIN messages[c] \cup {0} : Fork(c, i)
    \/ AppendNotice(c)
    \/ Cancel(c)
    \/ \E id \in CallIds, accepted \in BOOLEAN : Answer(c, id, accepted)

\* Steps the host takes by itself, each after an await or a timer.
Host(t) ==
  \/ Register(t) \/ StopBeforeRegister(t) \/ EmitFatal(t)
  \/ Prepared(t)
  \/ StopTimer(t) \/ StreamCheckpoint(t) \/ BackoffOver(t)
  \/ Finalized(t) \/ Flushed(t)

\* Steps the model SDK and the tools decide.
Model(t) ==
  \/ StreamText(t) \/ CallTool(t) \/ ToolAsks(t) \/ ToolEnds(t)
  \/ LoopReturns(t, "done") \/ LoopReturns(t, "error") \/ Retry(t)

Next == Client \/ Quit \/ \E t \in Turns : Host(t) \/ Model(t)

Spec == Init /\ [][Next]_vars

\* The event loop runs every due continuation and timer, and the model answers
\* or fails; a tool or a parked card may keep its turn waiting for ever.
Fairness ==
  \A t \in Turns :
    /\ WF_vars(Register(t) \/ StopBeforeRegister(t) \/ EmitFatal(t))
    /\ WF_vars(Prepared(t)) /\ WF_vars(BackoffOver(t))
    /\ WF_vars(StopTimer(t)) /\ WF_vars(Finalized(t)) /\ WF_vars(Flushed(t))
    /\ WF_vars(LoopReturns(t, "done"))

FairSpec == Spec /\ Fairness

-----------------------------------------------------------------------------
(* Properties *)

Turn == [conv : Conversations \cup {"none"}, stage : Stages, parent : Nat, phase : Phases,
         cancelled : BOOLEAN, pending : SUBSET CallIds, toolCount : 0..MaxCalls,
         attempts : 0..RetryLimit, draft : BOOLEAN, checkpoint : BOOLEAN,
         stopTimer : BOOLEAN, fin : {"no", "sealing", "flushing", "done"},
         outcome : Outcomes \cup {"none"}]

Message == [role : {"user", "assistant", "system"}, parent : Nat, turn : Turns \cup {NoTurn},
            seal : Outcomes \cup {"none", "partial"}, text : BOOLEAN]

\* The type invariant.  The stored nodes are a tree whose walk upwards ends at
\* the root: a parent is stored before its child, and the leaf is stored.
TypeOK ==
  /\ turns \in [Conversations -> Turns \cup {NoTurn}]
  /\ turn \in [Turns -> Turn]
  /\ pendingCancels \subseteq Conversations
  /\ pendingNotices \in [Conversations -> Nat]
  /\ queue \in [Conversations -> Seq(Turns)]
  /\ messages \in [Conversations -> Seq(Message)]
  /\ leaf \in [Conversations -> Nat]
  /\ up \in BOOLEAN
  /\ \A c \in Conversations :
       /\ leaf[c] <= Len(messages[c])
       /\ \A i \in DOMAIN messages[c] : messages[c][i].parent < i

\* An idle Stop must not poison the next send (the last line of cancel): a Stop
\* marker exists only while a turn is registered that its finish will clear.
StopMarkersHaveATurn == \A c \in pendingCancels : Registered(c)

\* The loop waits for the user exactly while a waiter is in the pending map and
\* the phase says so, and a stopped turn never waits: no card is left without a
\* waiter, no waiter without a loop, and no Stop leaves the loop parked.
ParkedHasAWaiter ==
  \A t \in Turns :
    /\ turn[t].stage = "parked" <=> turn[t].pending # {}
    /\ turn[t].stage = "parked" => turn[t].phase = "awaiting-user" /\ ~turn[t].cancelled

\* A registered turn is driven: its loop runs or the Stop timer will finish it.
\* The early returns of startTurn, which finish nothing, never leave a
\* conversation busy for ever.
RegisteredIsDriven ==
  \A c \in Conversations : Registered(c) =>
    /\ turn[turns[c]].conv = c /\ turn[turns[c]].fin = "no"
    /\ Active(turns[c]) \/ turn[turns[c]].stopTimer

\* Text streamed before a quit survives it: the reply of every turn that was
\* registered at the quit is stored with what it had drafted.
QuitKeepsDrafts ==
  ~up => \A c \in Conversations : Registered(c) =>
    \E i \in ReplyAt(messages[c], turns[c]) : messages[c][i].text = turn[turns[c]].draft

\* A turn is sealed once and ends once, although its loop and the Stop timer
\* both call finish.
SealedOnce ==
  [][\A t \in Turns :
       <<turn[t].fin, turn'[t].fin>> \in {<<"no", "sealing">>, <<"sealing", "flushing">>,
                                          <<"flushing", "done">>}
         \/ turn'[t].fin = turn[t].fin]_vars

\* A retry never replays a tool: once one has ended in a turn, the draft is not
\* reset and no further attempt starts.
ToolsAreNotReplayed ==
  [][\A t \in Turns : turn[t].toolCount > 0 =>
       turn'[t].toolCount >= turn[t].toolCount /\ turn'[t].attempts = turn[t].attempts]_vars

\* An answer given in a conversation that has the card resolves that card and
\* leaves every other parked card alone, even one with the same call id.
AnswerHitsItsCard ==
  [][\A c \in Conversations, id \in CallIds, accepted \in BOOLEAN :
       (Registered(c) /\ id \in turn[turns[c]].pending /\ Answer(c, id, accepted)) =>
         /\ turn'[turns[c]].pending = {}
         /\ \A t \in Turns \ {turns[c]} : turn'[t] = turn[t]]_vars

\* Every write of a reply (checkpoint, tool boundary, seal, quit) lands on the
\* same node: a turn never has two replies in the tree.
OneReplyPerTurn ==
  \A c \in Conversations : \A i, j \in DOMAIN messages[c] :
    (i \in ReplyAt(messages[c], messages[c][j].turn) /\ messages[c][j].role = "assistant")
      => i = j

\* Stop ends the turn: a registered turn that was stopped emits its `end`,
\* whatever its loop or its tool does.
StoppedTurnsEnd ==
  \A t \in Turns : Owns(t) /\ turn[t].cancelled ~> turn[t].fin = "done" \/ ~up

\* A turn of c is held by its user or by a tool.
Waiting(c) ==
  \E t \in Turns : turn[t].conv = c /\ turn[t].stage \in {"parked", "tool", "refused"}

\* A queued send is started or dropped, unless a turn of its conversation waits
\* for the user or for a tool.
QueuedSendsStart ==
  \A t \in Turns :
    turn[t].stage = "queued" ~>
      turn[t].stage # "queued" \/ ~up \/ Waiting(turn[t].conv)

-----------------------------------------------------------------------------
(* What the sources say and the code does not do *)

\* The nodes from n up to the root.
Path(ms) ==
  LET path[n \in 0..Len(ms)] == IF n = 0 THEN {} ELSE {n} \cup path[ms[n].parent]
  IN path

\* appendNotice: notices that arrive while a turn runs are flushed after the
\* assistant leaf, so they stay on the active transcript path.
NoticesStayOnPath ==
  \A c \in Conversations : \A i \in DOMAIN messages[c] :
    messages[c][i].role = "system" => i \in Path(messages[c])[leaf[c]]

=============================================================================
