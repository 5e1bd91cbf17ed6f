----------------------------- MODULE ChangeSets -----------------------------
(***************************************************************************)
(* The change review of one conversation: ChangeSetStore.ts collects what  *)
(* a turn wrote, freezes it into a change set at the turn's end and lets   *)
(* the user accept, reject, undo or edit it file by file; a file that is   *)
(* open in the app lives in a sandbox of WorkingCopyService.ts meanwhile.  *)
(*                                                                         *)
(* The store's maps are keyed by conversation and no operation reads the   *)
(* entry of another one, so one conversation is modelled; other            *)
(* conversations, editors and programs that write the same folder are      *)
(* Outside.  A turn is started by AgentRuntime as soon as the one before   *)
(* has left its map of turns, that is before that one's finalizeTurn has   *)
(* ended.  Every await of the code separates two steps here.               *)
(*                                                                         *)
(* A content is a number: every write makes a new one.  Size and mtime,    *)
(* which the code compares, differ exactly when the number does.           *)
(***************************************************************************)
EXTENDS Integers, FiniteSets, Sequences

CONSTANTS Files,       \* the files of the work directory
          Large,       \* those over SNAPSHOT_MAX_BYTES: their content is not kept
          Clients,     \* windows and phones that review, one call each at a time
          MaxTurns,    \* bound: turns begun
          MaxWrites,   \* bound: contents written
          MaxInputs    \* bound: turns, tool calls, review calls and all that
                       \* users, other programs and restarts do, together

NoFile == "none"           \* no file in hand

ASSUME ChangeSetsAssumption ==
    /\ Large \subseteq Files /\ NoFile \notin Files
    /\ {MaxTurns, MaxWrites, MaxInputs} \subseteq Nat

Turns == 1 .. MaxTurns
Absent == 0                \* no such file; as an original content: null
Initial == 1               \* what a file holds before the first turn
Empty == 2                 \* the empty file
Contents == 0 .. 2 + MaxWrites
Never == -1                \* a watermark no content matches

VARIABLES
    real,        \* real[f]: content of the user's file
    copyFile,    \* copyFile[f]: the sandbox file under userData
    tracked,     \* files with an Entry in WorkingCopyService.byReal
    clean,       \* watermark of the sandbox (cleanSize, cleanMtimeMs)
    told,        \* lastNotifiedSig of the entry
    turn,        \* the running turn, 0 if none
    begun,       \* turns begun so far
    tool,        \* tool[t]: the fs_write turn t is executing
    pending,     \* ChangeSetStore.pending of the conversation
    baseline,    \* ChangeSetStore.baselines, file by file; Never: not in the map
    ready,       \* turn whose capture baselineReady holds, 0: deleted
    workdir,     \* does workdirs hold the conversation
    capturing,   \* turns whose captureBaseline is still reading
    fin,         \* fin[t]: where finalizeTurn of turn t is
    card,        \* card[t]: the ChangeSet object frozen for t
    sets,        \* ids in ChangeSetStore.sets
    active,      \* activeByConversation, 0 if none
    call,        \* call[c]: the review call of client c
    count,       \* contents written and inputs so far
    start,       \* history: start[t][f], real[f] when t began
    wrote,       \* history: wrote[t][f], changes of f made by t (at most 2)
    flaws,       \* history: <<t, f, why>>, why f of t is not a plain case
    mixed,       \* history: turns whose finalizeTurn met another turn
    missed       \* history: <<t, f>>, changed by a plain turn t, not listed

fsVars == <<real, copyFile, tracked, clean, told>>
turnVars == <<turn, begun, tool>>
storeVars == <<pending, baseline, ready, workdir, capturing, fin>>
cardVars == <<card, sets, active>>
histVars == <<start, wrote, flaws, mixed, missed>>
vars == <<fsVars, turnVars, storeVars, cardVars, call, count, histVars>>

Statuses == {"pending", "accepted", "rejected", "edited"}
NoEntry == [type |-> "none", orig |-> Absent, new |-> Absent, status |-> "pending"]
Entries == [type : {"none", "added", "modified", "deleted"},
            orig : Contents, new : Contents, status : Statuses]
NoPending == [f \in Files |-> NoEntry]
NoBaseline == [f \in Files |-> Never]
Listed(files) == {f \in Files : files[f].type # "none"}

NoTool == [stage |-> "none", file |-> NoFile, before |-> Absent, new |-> Absent]
NoFin == [stage |-> "none", waits |-> 0, ok |-> FALSE, base |-> NoBaseline]
NoCall == [kind |-> "none", set |-> 0, todo |-> {}, file |-> NoFile, steps |-> <<>>, to |-> "pending"]

Init ==
    /\ real \in [Files -> {Absent, Initial}]
    /\ copyFile = [f \in Files |-> Absent]
    /\ tracked = {}
    /\ clean = [f \in Files |-> Never]
    /\ told = [f \in Files |-> Never]
    /\ turn = 0 /\ begun = 0
    /\ tool = [t \in Turns |-> NoTool]
    /\ pending = NoPending /\ baseline = NoBaseline
    /\ ready = 0 /\ workdir = FALSE /\ capturing = {}
    /\ fin = [t \in Turns |-> NoFin]
    /\ card = [t \in Turns |-> NoPending]
    /\ sets = {} /\ active = 0
    /\ call = [c \in Clients |-> NoCall]
    /\ count = [writes |-> 0, inputs |-> 0]
    /\ start = [t \in Turns |-> NoBaseline]
    /\ wrote = [t \in Turns |-> [f \in Files |-> 0]]
    /\ flaws = {} /\ mixed = {} /\ missed = {}

(* A content nobody wrote before. *)
Fresh == 3 + count.writes
CanWrite == count.writes < MaxWrites
(* One more input from the world around. *)
Input == count.inputs < MaxInputs /\ count' = [count EXCEPT !.inputs = @ + 1]
InputWrite == /\ CanWrite /\ count.inputs < MaxInputs
              /\ count' = [writes |-> count.writes + 1, inputs |-> count.inputs + 1]
(* What readSnapshot keeps of a content; null is written as '' by the callers. *)
Snapshot(f, c) == IF f \in Large THEN Absent ELSE c
\* Mutant of OrEmpty: null goes through.
OrNull(c) == IF c = Absent THEN Never ELSE c
OrEmpty(c) == IF c = Absent THEN Empty ELSE c
(* refreshDirtyFlag: the sandbox differs from its watermark. *)
Dirty(f) == f \in tracked /\ copyFile[f] # clean[f]

(***************************************************************************)
(* The working copies.                                                     *)
(***************************************************************************)
\* Mutant of Ensure: a sandbox without an entry is seeded anew.
EnsureAnew(f) ==
    IF f \in tracked THEN UNCHANGED <<copyFile, tracked, clean, told>>
    ELSE /\ tracked' = tracked \cup {f}
         /\ copyFile' = [copyFile EXCEPT ![f] = OrEmpty(real[f])]
         /\ clean' = [clean EXCEPT ![f] = OrEmpty(real[f])]
         /\ told' = [told EXCEPT ![f] = Never]
\* Mutant of Ensure: a recovered sandbox counts as clean.
EnsureClean(f) ==
    IF f \in tracked THEN UNCHANGED <<copyFile, tracked, clean, told>>
    ELSE LET copy == IF copyFile[f] # Absent THEN copyFile[f] ELSE OrEmpty(real[f]) IN
         /\ tracked' = tracked \cup {f}
         /\ copyFile' = [copyFile EXCEPT ![f] = copy]
         /\ clean' = [clean EXCEPT ![f] = copy]
         /\ told' = [told EXCEPT ![f] = Never]
(* ensure: attach to the entry, recover the file a former run left, or     *)
(* seed a new one from the user's file.  A recovered file counts as dirty  *)
(* unless its size and mtime agree with the user's file.                   *)
Ensure(f) ==
    \/ /\ f \in tracked
       /\ UNCHANGED <<copyFile, tracked, clean, told>>
    \/ /\ f \notin tracked /\ copyFile[f] # Absent
       /\ tracked' = tracked \cup {f}
       /\ \E same \in {FALSE, copyFile[f] = real[f]} :
              clean' = [clean EXCEPT ![f] = IF same THEN copyFile[f] ELSE Never]
       /\ told' = [told EXCEPT ![f] = Never]
       /\ UNCHANGED copyFile
    \/ /\ f \notin tracked /\ copyFile[f] = Absent
       /\ tracked' = tracked \cup {f}
       /\ copyFile' = [copyFile EXCEPT ![f] = OrEmpty(real[f])]
       /\ clean' = [clean EXCEPT ![f] = OrEmpty(real[f])]
       /\ told' = [told EXCEPT ![f] = Never]

(* A preview or the start of a turn opens f. *)
Open(f) ==
    /\ f \notin tracked
    /\ Input
    /\ Ensure(f)
    /\ flaws' = flaws \cup {<<t, f, "opened">> : t \in 1 .. begun}
    /\ UNCHANGED <<real, turnVars, storeVars, cardVars, call, start, wrote, mixed, missed>>

(* The directory watch, or the scan after a shell command, reports that    *)
(* the sandbox changed.                                                    *)
Notice(f) ==
    /\ Dirty(f) /\ told[f] # copyFile[f]
    /\ told' = [told EXCEPT ![f] = copyFile[f]]
    /\ UNCHANGED <<real, copyFile, tracked, clean, turnVars, storeVars, cardVars,
                   call, count, histVars>>

(***************************************************************************)
(* A turn: it begins, its tools write, it ends.                            *)
(***************************************************************************)
Finalizing == {t \in Turns : fin[t].stage # "none"}
Flaw(ts, f, why) == flaws \cup {<<t, f, why>> : t \in ts}

(* Turns nothing works for any more: beginTurn drops their cards, and with *)
(* them the history the properties keep.                                   *)
Over == {t \in Turns : /\ fin[t] = NoFin /\ tool[t] = NoTool /\ t \notin capturing
                       /\ \A c \in Clients : call[c].set # t}

(* The cards of earlier turns are superseded. *)
DropCards == sets' = {} /\ active' = 0

BeginTurn ==
    /\ turn = 0 /\ begun < MaxTurns
    /\ Input
    /\ LET t == begun + 1
           met == Turns \ Over
       IN
       /\ turn' = t /\ begun' = t
       /\ pending' = NoPending /\ workdir' = TRUE
       /\ DropCards
       /\ ready' = t /\ capturing' = capturing \cup {t}
       /\ card' = [u \in Turns |-> IF u \in Over THEN NoPending ELSE card[u]]
       /\ start' = [u \in Turns |-> IF u = t THEN real ELSE IF u \in Over THEN NoBaseline ELSE start[u]]
       /\ wrote' = [u \in Turns |-> IF u \in Over THEN [f \in Files |-> 0] ELSE wrote[u]]
       /\ mixed' = IF met = {} THEN {} ELSE (mixed \ Over) \cup met \cup {t}
       \* a review still under way writes files of the new turn's folder
       /\ flaws' = {w \in flaws : w[1] \notin Over}
                   \cup (IF \E c \in Clients : call[c].kind # "none"
                         THEN {<<t, f, "outside">> : f \in Files} ELSE {})
    /\ UNCHANGED <<fsVars, tool, baseline, fin, call, missed>>

(* captureBaseline has read the folder; its then() stores the baseline,    *)
(* whichever turn the conversation is in by now.                           *)
CaptureBaseline(t) ==
    /\ t \in capturing
    /\ capturing' = capturing \ {t}
    /\ baseline' = [f \in Files |-> IF real[f] = Absent THEN Never ELSE real[f]]
    /\ flaws' = flaws \cup {<<t, f, "late">> : f \in {g \in Files : real[g] # start[t][g]}}
    /\ UNCHANGED <<fsVars, turnVars, pending, ready, workdir, fin, cardVars, call, count,
                   start, wrote, mixed, missed>>

(* The turns to which a write of f from elsewhere is a disturbance. *)
Others(t) == {u \in Turns : u <= begun /\ start[u] # NoBaseline} \ {t}

(* A review call has f in hand.  Turn 0 marks a file whose sandbox somebody *)
(* wrote behind, or whose original somebody wrote in front of, such a call. *)
InHand(f, except) == \E c \in Clients \ except : call[c].file = f

(* One change of f made by turn t through ioPath. *)
TurnWrites(t, f, content) ==
    /\ IF f \in tracked
       THEN copyFile' = [copyFile EXCEPT ![f] = content] /\ UNCHANGED real
       ELSE real' = [real EXCEPT ![f] = content] /\ UNCHANGED copyFile
    /\ wrote' = [wrote EXCEPT ![t][f] = IF @ = 0 THEN 1 ELSE 2]
    /\ flaws' = Flaw(Others(t), f, "outside")
                \cup (IF wrote[t][f] > 0 THEN {<<t, f, "twice">>} ELSE {})
                \cup (IF f \in tracked THEN {<<t, f, "sandbox">>} ELSE {})
                \cup (IF InHand(f, {}) THEN {<<0, f, "stray">>} ELSE {})
    /\ UNCHANGED <<tracked, clean, told>>

(* A terminal command or skill writes or deletes f. *)
ShellChange(f) ==
    /\ turn # 0
    /\ InputWrite
    /\ \E content \in {Fresh, Absent} :
         /\ content = Absent => (IF f \in tracked THEN copyFile ELSE real)[f] # Absent
         /\ TurnWrites(turn, f, content)
    /\ UNCHANGED <<turnVars, storeVars, cardVars, call, start, mixed, missed>>

(* fs_write: read what is there, write, then tell the store. *)
FsRead(f) ==
    /\ turn # 0
    /\ Input
    /\ tool[turn] = NoTool
    /\ tool' = [tool EXCEPT ![turn] =
                  [stage |-> "read", file |-> f, new |-> Absent,
                   before |-> (IF f \in tracked THEN copyFile ELSE real)[f]]]
    /\ UNCHANGED <<fsVars, turn, begun, storeVars, cardVars, call, histVars>>

FsWrite(t) ==
    /\ tool[t].stage = "read" /\ CanWrite
    /\ TurnWrites(t, tool[t].file, Fresh)
    /\ count' = [count EXCEPT !.writes = @ + 1]
    /\ tool' = [tool EXCEPT ![t].stage = "wrote", ![t].new = Fresh]
    /\ UNCHANGED <<turn, begun, storeVars, cardVars, call, start, mixed, missed>>

(* upsertPending replaces the entry of the file. *)
Upsert(list, f, type, orig, new) ==
    [list EXCEPT ![f] = [type |-> type, orig |-> orig, new |-> new, status |-> "pending"]]

(* recordWrite, with whatever list the conversation has now; a truncated   *)
(* previous content is not recorded.                                       *)
RecordWrite(t) ==
    /\ tool[t].stage = "wrote"
    /\ LET f == tool[t].file IN
       pending' = IF f \in Large /\ tool[t].before # Absent THEN pending
                  ELSE Upsert(pending, f, IF tool[t].before = Absent THEN "added" ELSE "modified",
                              tool[t].before, tool[t].new)
    /\ tool' = [tool EXCEPT ![t] = NoTool]
    /\ UNCHANGED <<fsVars, turn, begun, baseline, ready, workdir, capturing, fin, cardVars,
                   call, count, histVars>>

(* finish: the turn leaves the map and finalizeTurn starts to wait for     *)
(* the capture that baselineReady holds now.  Only a turn that was         *)
(* cancelled can leave a tool behind.                                      *)
EndTurn ==
    /\ turn # 0
    /\ \E ok \in BOOLEAN :
         /\ ok => tool[turn] = NoTool
         /\ fin' = [fin EXCEPT ![turn] = [NoFin EXCEPT !.stage = "wait", !.waits = ready, !.ok = ok]]
    /\ turn' = 0
    /\ UNCHANGED <<fsVars, begun, tool, pending, baseline, ready, workdir, capturing,
                   cardVars, call, count, histVars>>

(***************************************************************************)
(* finalizeTurn.                                                           *)
(***************************************************************************)
(* The capture is there; the baseline is read and the walk begins. *)
BaselineReady(t) ==
    /\ fin[t].stage = "wait" /\ fin[t].waits \notin capturing
    /\ fin' = [fin EXCEPT ![t].stage = IF workdir /\ fin[t].ok THEN "walk" ELSE "freeze",
                          ![t].base = baseline]
    /\ UNCHANGED <<fsVars, turnVars, pending, baseline, ready, workdir, capturing, cardVars,
                   call, count, histVars>>

\* Mutant of External: removed files are not looked for.
ExternalKeepsSilent(f, base) ==
    LET after == Snapshot(f, real[f]) IN
    CASE base = Never /\ real[f] # Absent -> <<"added", Absent, OrEmpty(after)>>
      [] base # Never /\ real[f] \notin {Absent, base} -> <<"modified", Snapshot(f, base), OrEmpty(after)>>
      [] OTHER -> <<"none", Absent, Absent>>
(* The entry the diff against the baseline makes of f, if any. *)
External(f, base) ==
    LET before == IF base = Never THEN Absent ELSE Snapshot(f, base)
        after == Snapshot(f, real[f])
    IN CASE base # Never /\ real[f] = Absent -> <<"deleted", before, Empty>>
         [] base = Never /\ real[f] # Absent -> <<"added", Absent, OrEmpty(after)>>
         [] base # Never /\ real[f] \notin {Absent, base} -> <<"modified", before, OrEmpty(after)>>
         [] OTHER -> <<"none", Absent, Absent>>

(* collectExternalChanges: files changed since the baseline that no        *)
(* fs_write reported.                                                      *)
CollectExternalChanges(t) ==
    /\ fin[t].stage = "walk"
    /\ pending' = [f \in Files |->
          LET e == External(f, fin[t].base[f]) IN
          IF pending[f].type # "none" \/ e[1] = "none" THEN pending[f]
          ELSE [type |-> e[1], orig |-> e[2], new |-> e[3], status |-> "pending"]]
    /\ fin' = [fin EXCEPT ![t].stage = "scan"]
    /\ UNCHANGED <<fsVars, turnVars, baseline, ready, workdir, capturing, cardVars, call, count,
                   histVars>>

(* scanDirtiedCopies: sandboxes changed since the last report. *)
Dirtied == {f \in tracked : Dirty(f) /\ copyFile[f] # Absent /\ told[f] # copyFile[f]}

(* collectWorkingCopyChanges. *)
CollectWorkingCopyChanges(t) ==
    /\ fin[t].stage = "scan"
    /\ told' = [f \in Files |-> IF f \in Dirtied THEN copyFile[f] ELSE told[f]]
    /\ pending' = [f \in Files |->
          IF f \notin Dirtied \/ pending[f].type # "none" THEN pending[f]
          ELSE [type |-> IF baseline[f] = Never THEN "added" ELSE "modified",
                orig |-> IF baseline[f] = Never THEN Absent ELSE Snapshot(f, baseline[f]),
                new |-> OrEmpty(Snapshot(f, copyFile[f])), status |-> "pending"]]
    /\ fin' = [fin EXCEPT ![t].stage = "freeze"]
    /\ UNCHANGED <<real, copyFile, tracked, clean, turnVars, baseline, ready, workdir, capturing,
                   cardVars, call, count, histVars>>

Plain(t, f) == \A why \in {"outside", "late", "sandbox"} : <<t, f, why>> \notin flaws

(* The list becomes a change set; the four maps are cleared, though they   *)
(* may by now be those of the next turn.                                   *)
Freeze(t) ==
    /\ fin[t].stage = "freeze"
    /\ LET frozen == fin[t].ok /\ Listed(pending) # {} IN
       /\ card' = IF frozen THEN [card EXCEPT ![t] = pending] ELSE card
       /\ sets' = IF frozen THEN sets \cup {t} ELSE sets
       /\ active' = IF frozen THEN t ELSE active
    /\ pending' = NoPending /\ baseline' = NoBaseline /\ ready' = 0 /\ workdir' = FALSE
    /\ fin' = [fin EXCEPT ![t] = NoFin]
    /\ missed' = missed \cup
          {<<t, f>> : f \in {g \in Files \ Listed(pending) :
              fin[t].ok /\ t \notin mixed /\ Plain(t, g) /\ real[g] # start[t][g]}}
    /\ UNCHANGED <<fsVars, turnVars, capturing, call, count, start, wrote, flaws, mixed>>

-----------------------------------------------------------------------------
(***************************************************************************)
(* Review calls.  A call goes through its files one after the other and    *)
(* plans for each, when it reaches it, the awaited steps that follow.      *)
(***************************************************************************)
Promote == <<"promote", "watermark">>
Discard == <<"unregister", "remove", "seed">>

(* What undo does to a file that was accepted or edited. *)
UndoAccepted(f) ==
    IF f \in tracked THEN <<"original">> \o Discard \o <<"refill">> ELSE <<"restore">>
(* ... and to one that was rejected. *)
UndoRejected(f) == IF f \in tracked THEN <<"seed", "refill">> ELSE <<"rewrite">>

\* Mutant of Steps: accept trusts that the agent wrote the file itself.
StepsWithoutPromote(kind, f, status) ==
    CASE kind \in {"accept", "acceptAll"} -> <<>>
      [] kind \in {"reject", "rejectAll"} -> IF f \in tracked THEN Discard ELSE <<"restore">>
      [] kind = "undo" -> IF status = "rejected" THEN UndoRejected(f) ELSE UndoAccepted(f)
      [] kind = "edit" -> <<"seed", "edit">>
Steps(kind, f, status) ==
    CASE kind \in {"accept", "acceptAll"} -> IF f \in tracked THEN Promote ELSE <<>>
      [] kind \in {"reject", "rejectAll"} -> IF f \in tracked THEN Discard ELSE <<"restore">>
      [] kind = "undo" -> IF status = "rejected" THEN UndoRejected(f) ELSE UndoAccepted(f)
      [] kind = "edit" -> <<"seed", "edit">>

Outcome(kind) ==
    CASE kind \in {"accept", "acceptAll"} -> "accepted"
      [] kind \in {"reject", "rejectAll"} -> "rejected"
      [] kind = "undo" -> "pending"
      [] kind = "edit" -> "edited"

(* The files a call starts with. *)
Todo(kind, t) ==
    LET S == Listed(card[t]) IN
    CASE kind = "acceptAll" -> {{f \in S : card[t][f].status = "pending"}}
      [] kind = "rejectAll" -> {{f \in S : card[t][f].status # "rejected"}}
      [] kind \in {"accept", "reject"} -> {{f} : f \in S}
      [] kind = "undo" -> {{f} : f \in {g \in S : card[t][g].status # "pending"}}
      [] kind = "edit" -> {{f} : f \in S \ Large}

(* summarizeChangeSetStatus. *)
Summary(files) ==
    LET all(S) == \A f \in Listed(files) : files[f].status \in S IN
    CASE all({"accepted", "edited"}) -> "accepted"
      [] all({"rejected"}) -> "rejected"
      [] all({"pending"}) -> "pending"
      [] OTHER -> "partial"

(* The loop of call k comes to a next file, where accept passes over one   *)
(* that is settled, or the call returns: undo shows the set again, the     *)
(* others put it away once every file of it is decided (pruneActive).      *)
Continue(c, k, files) ==
    \/ \E f \in k.todo :
         LET status == files[f].status
             skip == k.kind \in {"accept", "acceptAll"} /\ status \notin {"pending", "edited"}
         IN /\ call' = [call EXCEPT ![c] =
                  [k EXCEPT !.todo = @ \ {f}, !.file = f,
                            !.steps = IF skip THEN <<>> ELSE Steps(k.kind, f, status),
                            !.to = IF skip THEN status ELSE Outcome(k.kind)]]
            /\ UNCHANGED active
    \/ /\ k.todo = {}
       /\ call' = [call EXCEPT ![c] = NoCall]
       /\ active' = IF k.kind = "undo" THEN k.set
                    ELSE IF Summary(files) \in {"accepted", "rejected"} /\ active = k.set
                         THEN 0 ELSE active

Racing(c) == \E d \in Clients \ {c} : call[d].kind # "none"

(* What a call that begins spoils: it runs beside a turn or another call, *)
(* or does again what the files of its set were through with.              *)
Overlaps(c) ==
    IF Racing(c) \/ turn # 0 THEN {<<u, f, "outside">> : u \in Turns, f \in Files} ELSE {}
Redone(kind, t, files) == IF kind \in {"undo", "edit"} THEN {<<t, f, "redone">> : f \in files} ELSE {}

StartCall(c, kind) ==
    /\ call[c] = NoCall
    /\ Input
    /\ \E t \in sets : \E todo \in Todo(kind, t) :
         /\ Continue(c, [NoCall EXCEPT !.kind = kind, !.set = t, !.todo = todo], card[t])
         /\ flaws' = flaws \cup Overlaps(c) \cup Redone(kind, t, todo)
    /\ UNCHANGED <<fsVars, turnVars, storeVars, card, sets, start, wrote, mixed, missed>>

(* One awaited step of a call on its file f with entry e. *)
SetReal(f, content) ==
    real' = [real EXCEPT ![f] = content] /\ UNCHANGED <<copyFile, tracked, clean, told>>
SetCopy(f, content) ==
    copyFile' = [copyFile EXCEPT ![f] = content] /\ UNCHANGED <<real, tracked, clean, told>>
\* Mutant of Restored: a file without a kept original is removed.
RestoredOrRemoved(f, e) == IF e.type = "added" THEN Absent ELSE e.orig
\* Mutant of Restored: an added file stays.
RestoredIfKept(f, e) == IF e.orig = Absent THEN real[f] ELSE e.orig
(* restoreFile, and the restoring half of undo: an added file is removed,  *)
(* one without a kept original is left alone.                              *)
Restored(f, e) ==
    CASE e.type = "added" -> Absent
      [] e.type # "added" /\ e.orig = Absent -> real[f]
      [] OTHER -> e.orig

Effect(step, f, e) ==
    CASE step = "promote" -> SetReal(f, IF copyFile[f] = Absent THEN real[f] ELSE copyFile[f])
      [] step = "watermark" ->
            /\ clean' = [clean EXCEPT ![f] =
                            IF f \in tracked /\ copyFile[f] # Absent THEN copyFile[f] ELSE @]
            /\ UNCHANGED <<real, copyFile, tracked, told>>
      [] step = "unregister" ->
            /\ tracked' = tracked \ {f}
            /\ clean' = [clean EXCEPT ![f] = Never] /\ told' = [told EXCEPT ![f] = Never]
            /\ UNCHANGED <<real, copyFile>>
      [] step = "remove" -> SetCopy(f, Absent)
      [] step = "seed" -> Ensure(f) /\ UNCHANGED real
      [] step \in {"restore", "original"} -> SetReal(f, Restored(f, e))
      [] step = "refill" -> SetCopy(f, IF f \notin tracked THEN copyFile[f]
                                       ELSE IF e.type = "deleted" THEN Absent ELSE e.new)
      [] step = "rewrite" -> SetReal(f, e.new)
      [] step = "edit" -> SetCopy(f, Fresh)

CallStep(c) ==
    LET k == call[c]
        f == k.file
        step == Head(k.steps)
    IN
    /\ f # NoFile /\ k.steps # <<>>
    /\ step = "edit" => CanWrite
    /\ Effect(step, f, card[k.set][f])
    /\ call' = [call EXCEPT ![c].steps = Tail(@)]
    /\ count' = IF step = "edit" THEN [count EXCEPT !.writes = @ + 1] ELSE count
    /\ card' = IF step = "edit" THEN [card EXCEPT ![k.set][f].new = Fresh] ELSE card
    /\ flaws' = flaws \cup (IF step = "promote" THEN {<<k.set, f, "promoted">>} ELSE {})
                      \cup {<<u, f, "outside">> : u \in {v \in Others(k.set) : real'[f] # real[f]}}
                      \cup (IF (f \in tracked /\ step \in {"restore", "rewrite"}) \/ InHand(f, {c})
                            THEN {<<0, f, "stray">>} ELSE {})
    /\ UNCHANGED <<turnVars, storeVars, sets, active, start, wrote, mixed, missed>>

(* The last of them has answered: the status is set, the loop goes on. *)
Settle(c) ==
    LET k == call[c]
        files == [card[k.set] EXCEPT ![k.file].status = k.to]
    IN
    /\ k.file # NoFile /\ k.steps = <<>>
    /\ card' = [card EXCEPT ![k.set] = files]
    /\ Continue(c, k, files)
    /\ UNCHANGED <<fsVars, turnVars, storeVars, sets, count, histVars>>

-----------------------------------------------------------------------------
(* Another program, or the user's editor, writes or removes the file. *)
Outside(f) ==
    /\ InputWrite
    /\ \E content \in {Fresh, Absent} \ {real[f]} : real' = [real EXCEPT ![f] = content]
    /\ flaws' = Flaw({u \in Turns : u <= begun}, f, "outside")
                \cup (IF f \in tracked \/ InHand(f, {}) THEN {<<0, f, "stray">>} ELSE {})
    /\ UNCHANGED <<copyFile, tracked, clean, told, turnVars, storeVars, cardVars, call,
                   start, wrote, mixed, missed>>

(* clearConversation: the host of the conversation is switched, or it is   *)
(* deleted.                                                                *)
ClearConversation ==
    /\ turn = 0 /\ (workdir \/ sets # {})
    /\ Input
    /\ pending' = NoPending /\ baseline' = NoBaseline /\ ready' = 0 /\ workdir' = FALSE
    /\ sets' = {} /\ active' = 0
    /\ mixed' = mixed \cup Finalizing
    /\ UNCHANGED <<fsVars, turnVars, capturing, fin, card, call, start, wrote, flaws, missed>>

(* The process ends and starts again: the maps are gone, files stay. *)
Restart ==
    /\ Input
    /\ tracked' = {} /\ clean' = [f \in Files |-> Never] /\ told' = [f \in Files |-> Never]
    /\ turn' = 0 /\ tool' = [t \in Turns |-> NoTool]
    /\ pending' = NoPending /\ baseline' = NoBaseline /\ ready' = 0 /\ workdir' = FALSE
    /\ capturing' = {} /\ fin' = [t \in Turns |-> NoFin]
    /\ sets' = {} /\ active' = 0
    /\ call' = [c \in Clients |-> NoCall]
    /\ flaws' = flaws \cup {<<u, f, "outside">> : u \in Turns, f \in Files}
    /\ UNCHANGED <<real, copyFile, begun, card, start, wrote, mixed, missed>>

Kinds == {"accept", "acceptAll", "reject", "rejectAll", "undo", "edit"}

Finalize(t) == BaselineReady(t) \/ CollectExternalChanges(t) \/ CollectWorkingCopyChanges(t) \/ Freeze(t)
Review(c) == CallStep(c) \/ Settle(c)

Next ==
    \/ BeginTurn \/ EndTurn \/ ClearConversation \/ Restart
    \/ \E t \in Turns : CaptureBaseline(t) \/ FsWrite(t) \/ RecordWrite(t) \/ Finalize(t)
    \/ \E f \in Files : Open(f) \/ Notice(f) \/ ShellChange(f) \/ FsRead(f) \/ Outside(f)
    \/ \E c \in Clients : Review(c) \/ \E kind \in Kinds : StartCall(c, kind)

Spec == Init /\ [][Next]_vars

-----------------------------------------------------------------------------
(***************************************************************************)
(* Properties.                                                             *)
(***************************************************************************)
TypeOK ==
    /\ {real, copyFile} \subseteq [Files -> Contents]
    /\ tracked \subseteq Files
    /\ {clean, told, baseline} \subseteq [Files -> Contents \cup {Never}]
    /\ {turn, begun, ready, active} \subseteq 0 .. MaxTurns
    /\ {pending} \cup {card[t] : t \in Turns} \subseteq [Files -> Entries]
    /\ workdir \in BOOLEAN
    /\ capturing \subseteq Turns /\ sets \subseteq Turns /\ mixed \subseteq Turns
    /\ \A t \in Turns : fin[t].stage \in {"none", "wait", "walk", "scan", "freeze"}

Unspoilt(t, f, whys) == t \notin mixed /\ \A why \in whys : <<t, f, why>> \notin flaws

(* A turn's change set lists every file the turn changed: whatever a       *)
(* terminal command created, changed or removed in the folder is found at  *)
(* the end (finalizeTurn, collectExternalChanges), unless the baseline was *)
(* taken after the change or another turn was being finalized.             *)
EveryChangeIsListed == missed = {}

(* A file shown as accepted is on disk as the card shows it, whether the   *)
(* turn wrote it in place or the accept promoted the sandbox: one write of *)
(* one turn, no undo, edit or second writer in between.                    *)
AcceptedIsOnDisk ==
    \A t \in sets : \A f \in Listed(card[t]) \ Large :
        /\ card[t][f].status = "accepted"
        /\ ~InHand(f, {})
        /\ Unspoilt(t, f, {"outside", "late", "twice", "redone", "opened"})
        => real[f] = IF card[t][f].type = "deleted" THEN Absent ELSE card[t][f].new

(* A sandbox that does not count as dirty holds what the user's file       *)
(* holds, so nothing is lost when it is dropped (the watermark set by      *)
(* ensure and promote), as long as nobody else writes the file and no      *)
(* review call is under way.                                               *)
CleanCopiesAreSaved ==
    \A f \in tracked :
        /\ ~Dirty(f)
        /\ ~InHand(f, {})
        /\ <<0, f, "stray">> \notin flaws
        => copyFile[f] = OrEmpty(real[f])

RollsBack(whys) ==
    \A c \in Clients :
        LET t == call[c].set IN
        call[c].kind = "rejectAll" /\ call'[c] = NoCall /\ t \in sets' =>
            \A f \in Listed(card[t]) \ Large :
                Unspoilt(t, f, whys) => real[f] = start[t][f]

(* Reject All leaves every listed file as it was when the turn began: a    *)
(* file the turn wrote once, not promoted, undone or edited in between.    *)
RejectAllReturnsToTheStart ==
    [][RollsBack({"outside", "late", "twice", "redone", "promoted", "opened"})]_vars

(* A reject never leaves the user without a file that was there when the   *)
(* turn began, not even one too large for a baseline; a file the turn      *)
(* itself removed and wrote again is the exception (restoreFile).          *)
RejectKeepsTheUsersFiles ==
    [][\A c \in Clients : \A f \in Files :
          LET t == call[c].set IN
          /\ call[c].file = f /\ call[c].kind \in {"reject", "rejectAll"}
          /\ call'[c] # call[c] /\ real[f] # Absent /\ real'[f] = Absent
          /\ Unspoilt(t, f, {"late", "twice", "outside", "opened"})
          => start[t][f] = Absent]_vars

(* An unsaved edit in a sandbox is only replaced by a tool of a turn or by *)
(* a review call about that file: opening the file again, another turn, a  *)
(* restart or the end of a turn never wipes it (ensure).                   *)
UnsavedEditsAreKept ==
    [][\A f \in Files :
          copyFile[f] \notin {Absent, real[f], Empty} /\ copyFile'[f] # copyFile[f] =>
              \/ \E t \in Turns : wrote'[t][f] # wrote[t][f] \/ wrote[t][f] = 2
              \/ \E c \in Clients : call[c].file = f]_vars

=============================================================================
