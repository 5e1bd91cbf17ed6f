-------------------------- MODULE ChangeSetsProofs --------------------------
(***************************************************************************)
(* What ChangeSets promises, for any number of files, turns and clients.   *)
(*                                                                         *)
(* The types come first.  Then the watermark of a sandbox: it is the one   *)
(* of the user's file outside the few steps of a review call that move     *)
(* both.  Then what a turn that nobody disturbs knows of its files, from   *)
(* its baseline to its card.  Last, what a review makes of a file that     *)
(* only it has moved: what is rejected, accepted or rolled back.           *)
(***************************************************************************)
EXTENDS ChangeSets, SequenceTheorems, TLAPS

-----------------------------------------------------------------------------
(* Types *)

OptContents == Contents \cup {Never}
Stages == {"none", "wait", "walk", "scan", "freeze"}
ToolType == [stage : {"none", "read", "wrote"}, file : Files \cup {NoFile}, before : Contents, new : Contents]
FinType == [stage : Stages, waits : 0 .. MaxTurns, ok : BOOLEAN, base : [Files -> OptContents]]

(* What is left to do of a file in hand. *)
Plans ==
  {<<>>, <<"promote", "watermark">>, <<"watermark">>,
   <<"unregister", "remove", "seed">>, <<"remove", "seed">>, <<"seed">>, <<"restore">>, <<"rewrite">>,
   <<"original", "unregister", "remove", "seed", "refill">>, <<"unregister", "remove", "seed", "refill">>,
   <<"remove", "seed", "refill">>, <<"seed", "refill">>, <<"refill">>,
   <<"seed", "edit">>, <<"edit">>}
Words == {"promote", "watermark", "unregister", "remove", "seed", "restore", "rewrite", "original", "refill", "edit"}
CallType ==
  [kind : Kinds \cup {"none"}, set : 0 .. MaxTurns, todo : SUBSET Files, file : Files \cup {NoFile},
   steps : Plans, to : Statuses]

FsTyped ==
  /\ real \in [Files -> Contents] /\ copyFile \in [Files -> Contents]
  /\ tracked \subseteq Files
  /\ clean \in [Files -> OptContents] /\ told \in [Files -> OptContents]
TurnTyped ==
  /\ turn \in 0 .. MaxTurns /\ begun \in 0 .. MaxTurns
  /\ tool \in [Turns -> ToolType]
  /\ \A t \in Turns : tool[t].stage # "none" => tool[t].file \in Files
StoreTyped ==
  /\ pending \in [Files -> Entries] /\ baseline \in [Files -> OptContents]
  /\ ready \in 0 .. MaxTurns /\ workdir \in BOOLEAN /\ capturing \subseteq Turns
  /\ fin \in [Turns -> FinType]
CardTyped ==
  /\ card \in [Turns -> [Files -> Entries]]
  /\ sets \subseteq Turns /\ active \in 0 .. MaxTurns
CallTyped ==
  /\ call \in [Clients -> CallType]
  /\ \A c \in Clients : call[c].kind # "none" => call[c].set \in Turns
  /\ \A c \in Clients : call[c].kind = "none" => call[c] = NoCall
CountTyped == count \in [writes : 0 .. MaxWrites, inputs : Nat]
HistTyped ==
  /\ start \in [Turns -> [Files -> OptContents]]
  /\ wrote \in [Turns -> [Files -> 0 .. 2]]
  /\ mixed \subseteq Turns

Typed == FsTyped /\ TurnTyped /\ StoreTyped /\ CardTyped /\ CallTyped /\ CountTyped /\ HistTyped

LEMMA Bounds == MaxTurns \in Nat /\ MaxWrites \in Nat /\ MaxInputs \in Nat /\ Large \subseteq Files /\ NoFile \notin Files
BY ChangeSetsAssumption

LEMMA ContentTypes ==
  /\ Absent \in Contents /\ Initial \in Contents /\ Empty \in Contents /\ Never \in OptContents
  /\ Never \notin Contents /\ Absent # Initial /\ Absent # Empty
  /\ Contents \subseteq OptContents
  /\ \A t \in Turns : t \in 0 .. MaxTurns /\ t # 0
  /\ \A t \in 0 .. MaxTurns : t # 0 => t \in Turns
BY Bounds DEF Contents, OptContents, Absent, Initial, Empty, Never, Turns

LEMMA FreshIsContent ==
  ASSUME CountTyped, CanWrite
  PROVE  Fresh \in Contents /\ Fresh # Absent
BY Bounds DEF CountTyped, CanWrite, Fresh, Contents, Absent

LEMMA Nothing ==
  /\ NoEntry \in Entries /\ NoPending \in [Files -> Entries] /\ NoBaseline \in [Files -> OptContents]
  /\ NoTool \in ToolType /\ NoFin \in FinType /\ NoCall \in CallType
  /\ NoTool.stage = "none" /\ NoFin.stage = "none" /\ NoCall.kind = "none" /\ NoCall.file = NoFile
  /\ NoCall.set = 0
<1>1. NoEntry \in Entries
  BY ContentTypes DEF NoEntry, Entries, Statuses
<1>2. NoBaseline \in [Files -> OptContents]
  BY ContentTypes DEF NoBaseline
<1>3. NoFin \in FinType
  BY <1>2, Bounds DEF NoFin, FinType, Stages
<1>4. NoTool \in ToolType
  BY ContentTypes DEF NoTool, ToolType
<1>5. NoCall \in CallType
  BY Bounds DEF NoCall, CallType, Plans, Statuses
<1> QED
  BY <1>1, <1>2, <1>3, <1>4, <1>5 DEF NoPending, NoTool, NoFin, NoCall

(* The steps of a call come from one of the plans. *)
LEMMA PlanTypes ==
  ASSUME NEW s \in Plans, s # <<>>
  PROVE  /\ Tail(s) \in Plans
         /\ Head(s) = "promote" => Tail(s) = <<"watermark">>
         /\ Head(s) = "watermark" => s = <<"watermark">>
         /\ Head(s) \in Words
         /\ Tail(s) # <<>> /\ Head(Tail(s)) = "watermark" => Head(s) = "promote"
         /\ Tail(s) # <<>> /\ Head(Tail(s)) = "unregister" => Head(s) = "original"
         /\ Head(s) = "original" => Tail(s) # <<>> /\ Head(Tail(s)) = "unregister"
<1>1. CASE s = <<"promote", "watermark">>
  <2>1. Head(s) = "promote" /\ Tail(s) = <<"watermark">> /\ Tail(s) # <<>> /\ Head(<<"watermark">>) = "watermark"
    BY <1>1
  <2> QED
    BY <2>1 DEF Plans, Words
<1>2. CASE s = <<"watermark">>
  <2>1. Head(s) = "watermark" /\ Tail(s) = <<>>
    BY <1>2
  <2> QED
    BY <2>1 DEF Plans, Words
<1>3. CASE s = <<"unregister", "remove", "seed">>
  <2>1. Head(s) = "unregister" /\ Tail(s) = <<"remove", "seed">> /\ Tail(s) # <<>> /\ Head(<<"remove", "seed">>) = "remove"
    BY <1>3
  <2> QED
    BY <2>1 DEF Plans, Words
<1>4. CASE s = <<"remove", "seed">>
  <2>1. Head(s) = "remove" /\ Tail(s) = <<"seed">> /\ Tail(s) # <<>> /\ Head(<<"seed">>) = "seed"
    BY <1>4
  <2> QED
    BY <2>1 DEF Plans, Words
<1>5. CASE s = <<"seed">>
  <2>1. Head(s) = "seed" /\ Tail(s) = <<>>
    BY <1>5
  <2> QED
    BY <2>1 DEF Plans, Words
<1>6. CASE s = <<"restore">>
  <2>1. Head(s) = "restore" /\ Tail(s) = <<>>
    BY <1>6
  <2> QED
    BY <2>1 DEF Plans, Words
<1>7. CASE s = <<"rewrite">>
  <2>1. Head(s) = "rewrite" /\ Tail(s) = <<>>
    BY <1>7
  <2> QED
    BY <2>1 DEF Plans, Words
<1>8. CASE s = <<"original", "unregister", "remove", "seed", "refill">>
  <2>1. Head(s) = "original" /\ Tail(s) = <<"unregister", "remove", "seed", "refill">> /\ Tail(s) # <<>> /\ Head(<<"unregister", "remove", "seed", "refill">>) = "unregister"
    BY <1>8
  <2> QED
    BY <2>1 DEF Plans, Words
<1>9. CASE s = <<"unregister", "remove", "seed", "refill">>
  <2>1. Head(s) = "unregister" /\ Tail(s) = <<"remove", "seed", "refill">> /\ Tail(s) # <<>> /\ Head(<<"remove", "seed", "refill">>) = "remove"
    BY <1>9
  <2> QED
    BY <2>1 DEF Plans, Words
<1>10. CASE s = <<"remove", "seed", "refill">>
  <2>1. Head(s) = "remove" /\ Tail(s) = <<"seed", "refill">> /\ Tail(s) # <<>> /\ Head(<<"seed", "refill">>) = "seed"
    BY <1>10
  <2> QED
    BY <2>1 DEF Plans, Words
<1>11. CASE s = <<"seed", "refill">>
  <2>1. Head(s) = "seed" /\ Tail(s) = <<"refill">> /\ Tail(s) # <<>> /\ Head(<<"refill">>) = "refill"
    BY <1>11
  <2> QED
    BY <2>1 DEF Plans, Words
<1>12. CASE s = <<"refill">>
  <2>1. Head(s) = "refill" /\ Tail(s) = <<>>
    BY <1>12
  <2> QED
    BY <2>1 DEF Plans, Words
<1>13. CASE s = <<"seed", "edit">>
  <2>1. Head(s) = "seed" /\ Tail(s) = <<"edit">> /\ Tail(s) # <<>> /\ Head(<<"edit">>) = "edit"
    BY <1>13
  <2> QED
    BY <2>1 DEF Plans, Words
<1>14. CASE s = <<"edit">>
  <2>1. Head(s) = "edit" /\ Tail(s) = <<>>
    BY <1>14
  <2> QED
    BY <2>1 DEF Plans, Words
<1> QED
  BY <1>1, <1>2, <1>3, <1>4, <1>5, <1>6, <1>7, <1>8, <1>9, <1>10, <1>11, <1>12, <1>13, <1>14 DEF Plans

(* Two sequences, one after the other. *)
LEMMA Joined ==
  ASSUME NEW S, NEW a \in Seq(S), NEW b \in Seq(S), NEW s \in Seq(S), Len(s) = Len(a) + Len(b),
         \A i \in 1 .. Len(a) : a[i] = s[i], \A i \in 1 .. Len(b) : b[i] = s[Len(a) + i]
  PROVE  a \o b = s
<1>1. a \o b \in Seq(S) /\ Len(a \o b) = Len(a) + Len(b) /\ Len(a) \in Nat /\ Len(b) \in Nat
  BY ConcatProperties, LenProperties
<1>2. ASSUME NEW i \in 1 .. Len(a) + Len(b) PROVE (a \o b)[i] = s[i]
  <2>1. (a \o b)[i] = IF i <= Len(a) THEN a[i] ELSE b[i - Len(a)]
    BY ConcatProperties
  <2>2. CASE i <= Len(a)
    BY <2>1, <2>2, <1>1
  <2>3. CASE ~(i <= Len(a))
    <3>1. i - Len(a) \in 1 .. Len(b) /\ Len(a) + (i - Len(a)) = i
      BY <2>3, <1>1
    <3> QED
      BY <2>1, <2>3, <3>1
  <2> QED
    BY <2>2, <2>3
<1> QED
  BY <1>1, <1>2, SeqEqual

LEMMA StepsTyped ==
  ASSUME NEW kind \in Kinds, NEW f \in Files, NEW status
  PROVE  Steps(kind, f, status) \in Plans \ {<<"watermark">>}
<1>1. CASE kind \in {"accept", "acceptAll"}
  BY <1>1 DEF Steps, Promote, Plans
<1>2. CASE kind \in {"reject", "rejectAll"}
  BY <1>2 DEF Steps, Discard, Plans
<1>3. CASE kind = "edit"
  BY <1>3 DEF Steps, Plans
<1>4. CASE kind = "undo"
  <2>1. UndoAccepted(f) \in Plans \ {<<"watermark">>}
    <3>1. <<"original">> \o Discard \o <<"refill">> = <<"original", "unregister", "remove", "seed", "refill">>
      <4> DEFINE o == <<"original">>
                 d == Discard
                 r == <<"refill">>
                 s == <<"original", "unregister", "remove", "seed", "refill">>
      <4>1. /\ o \in Seq(Words) /\ d \in Seq(Words) /\ r \in Seq(Words) /\ s \in Seq(Words)
            /\ Len(o) = 1 /\ Len(d) = 3 /\ Len(r) = 1 /\ Len(s) = 5
        BY DEF Discard, Words
      <4>2. /\ o[1] = s[1] /\ d[1] = s[2] /\ d[2] = s[3] /\ d[3] = s[4] /\ r[1] = s[5]
        BY DEF Discard
      <4> HIDE DEF o, d, r, s
      <4> DEFINE od == <<"original", "unregister", "remove", "seed">>
      <4>3. od \in Seq(Words)
        BY DEF Words
      <4>4. Len(od) = 4 /\ od[1] = s[1] /\ od[2] = s[2] /\ od[3] = s[3] /\ od[4] = s[4]
        BY DEF s
      <4> HIDE DEF od
      <4>5. o \o d = od
        <5>1. Len(od) = Len(o) + Len(d) /\ \A i \in 1 .. Len(o) : o[i] = od[i]
          BY <4>1, <4>2, <4>4
        <5>2. \A i \in 1 .. Len(d) : i \in {1, 2, 3} /\ d[i] = od[Len(o) + i]
          BY <4>1, <4>2, <4>4
        <5> QED
          BY <4>1, <4>3, <5>1, <5>2, Joined, ZenonT(40)
      <4>6. od \o r = s
        <5>1. Len(s) = Len(od) + Len(r)
          BY <4>1, <4>4
        <5>2. ASSUME NEW i \in 1 .. Len(od) PROVE od[i] = s[i]
          <6>1. i \in {1, 2, 3, 4}
            BY <4>4
          <6> QED
            BY <4>4, <6>1
        <5>3. \A i \in 1 .. Len(r) : r[i] = s[Len(od) + i]
          BY <4>1, <4>2, <4>4
        <5> QED
          BY <4>1, <4>3, <5>1, <5>2, <5>3, Joined
      <4>7. o \o d \o r = s
        BY <4>5, <4>6
      <4> QED
        BY <4>7 DEF o, d, r, s
    <3> QED
      BY <3>1 DEF UndoAccepted, Plans
  <2>2. UndoRejected(f) \in Plans \ {<<"watermark">>}
    BY DEF UndoRejected, Plans
  <2> QED
    BY <1>4, <2>1, <2>2 DEF Steps
<1> QED
  BY <1>1, <1>2, <1>3, <1>4 DEF Kinds

(* OrEmpty and Snapshot keep to contents. *)
LEMMA SnapshotTypes ==
  ASSUME NEW f, NEW c \in Contents
  PROVE  Snapshot(f, c) \in Contents /\ OrEmpty(c) \in Contents /\ OrEmpty(c) # Absent
BY ContentTypes DEF Snapshot, OrEmpty

-----------------------------------------------------------------------------
(* Every action keeps the types *)

LEMMA EnsureTyped ==
  ASSUME FsTyped, NEW f \in Files, Ensure(f), real' = real
  PROVE  FsTyped'
<1>1. real[f] \in Contents /\ copyFile[f] \in Contents
  BY DEF FsTyped
<1>2. OrEmpty(real[f]) \in Contents /\ OrEmpty(real[f]) \in OptContents /\ copyFile[f] \in OptContents
  BY <1>1, SnapshotTypes, ContentTypes
<1>3. tracked' \subseteq Files
  BY DEF Ensure, FsTyped
<1>4. copyFile' \in [Files -> Contents]
  BY <1>2 DEF Ensure, FsTyped
<1>5. told' \in [Files -> OptContents]
  BY ContentTypes DEF Ensure, FsTyped
<1>6. clean' \in [Files -> OptContents]
  <2>1. UNCHANGED clean \/ \E v \in OptContents : clean' = [clean EXCEPT ![f] = v]
    BY <1>2, ContentTypes DEF Ensure
  <2> QED
    BY <2>1 DEF FsTyped
<1> QED
  BY <1>3, <1>4, <1>5, <1>6 DEF FsTyped

LEMMA TurnWritesTyped ==
  ASSUME FsTyped, HistTyped, NEW t \in Turns, NEW f \in Files, NEW content \in Contents,
         TurnWrites(t, f, content), UNCHANGED <<start, mixed>>
  PROVE  FsTyped' /\ HistTyped'
<1>1. real' \in [Files -> Contents] /\ copyFile' \in [Files -> Contents]
  BY DEF TurnWrites, FsTyped
<1>2. FsTyped'
  BY <1>1 DEF TurnWrites, FsTyped
<1>3. wrote' \in [Turns -> [Files -> 0 .. 2]]
  <2> DEFINE n == IF wrote[t][f] = 0 THEN 1 ELSE 2
  <2>1. wrote' = [wrote EXCEPT ![t][f] = n]
    BY DEF TurnWrites
  <2>2. n \in 0 .. 2
    OBVIOUS
  <2> HIDE DEF n
  <2> QED
    BY <2>1, <2>2 DEF HistTyped
<1> QED
  BY <1>2, <1>3 DEF HistTyped

LEMMA EntryFields ==
  ASSUME NEW e \in Entries
  PROVE  e.orig \in Contents /\ e.new \in Contents /\ e.status \in Statuses
         /\ e.type \in {"none", "added", "modified", "deleted"}
BY DEF Entries

LEMMA EffectTyped ==
  ASSUME FsTyped, NEW f \in Files, NEW e \in Entries, NEW step \in Words, step = "edit" => Fresh \in Contents,
         Effect(step, f, e)
  PROVE  FsTyped'
<1>1. real[f] \in Contents /\ copyFile[f] \in Contents /\ copyFile[f] \in OptContents
  BY ContentTypes DEF FsTyped
<1>2. e.orig \in Contents /\ e.new \in Contents
  BY EntryFields
<1>3. ASSUME NEW v \in Contents, SetReal(f, v) PROVE FsTyped'
  BY <1>3 DEF SetReal, FsTyped
<1>4. ASSUME NEW v \in Contents, SetCopy(f, v) PROVE FsTyped'
  BY <1>4 DEF SetCopy, FsTyped
<1>5. Restored(f, e) \in Contents
  BY <1>1, <1>2, ContentTypes DEF Restored
<1>6. CASE step = "promote"
  BY <1>1, <1>3, <1>6 DEF Effect
<1>7. CASE step = "watermark"
  <2>1. /\ UNCHANGED <<real, copyFile, tracked, told>>
        /\ clean' = [clean EXCEPT ![f] = IF f \in tracked /\ copyFile[f] # Absent THEN copyFile[f] ELSE clean[f]]
    BY <1>7 DEF Effect
  <2> QED
    BY <1>1, <2>1 DEF FsTyped
<1>8. CASE step = "unregister"
  <2>1. /\ tracked' = tracked \ {f} /\ UNCHANGED <<real, copyFile>>
        /\ clean' = [clean EXCEPT ![f] = Never] /\ told' = [told EXCEPT ![f] = Never]
    BY <1>8 DEF Effect
  <2> QED
    BY <2>1, ContentTypes DEF FsTyped
<1>9. CASE step = "remove"
  BY <1>4, <1>9, ContentTypes DEF Effect
<1>10. CASE step = "seed"
  BY <1>10, EnsureTyped DEF Effect
<1>11. CASE step \in {"restore", "original"}
  BY <1>3, <1>5, <1>11 DEF Effect
<1>12. CASE step = "refill"
  BY <1>1, <1>2, <1>4, <1>12, ContentTypes DEF Effect
<1>13. CASE step = "rewrite"
  BY <1>2, <1>3, <1>13 DEF Effect
<1>14. CASE step = "edit"
  BY <1>4, <1>14 DEF Effect
<1> QED
  BY <1>6, <1>7, <1>8, <1>9, <1>10, <1>11, <1>12, <1>13, <1>14 DEF Words

(* What a call does next: the next file, with its plan, or the end. *)
LEMMA ContinueTyped ==
  ASSUME CardTyped, CallTyped, NEW c \in Clients, NEW k \in CallType, k.set \in Turns, k.kind \in Kinds,
         NEW files \in [Files -> Entries], Continue(c, k, files)
  PROVE  CallTyped' /\ active' \in 0 .. MaxTurns
         /\ \/ call' = [call EXCEPT ![c] = NoCall]
            \/ \E r \in CallType, f \in k.todo :
                 /\ call' = [call EXCEPT ![c] = r]
                 /\ r.kind = k.kind /\ r.set = k.set /\ r.file = f /\ r.todo = k.todo \ {f}
                 /\ \/ /\ k.kind \in {"accept", "acceptAll"} /\ files[f].status \notin {"pending", "edited"}
                       /\ r.steps = <<>> /\ r.to = files[f].status
                    \/ /\ k.kind \in {"accept", "acceptAll"} => files[f].status \in {"pending", "edited"}
                       /\ r.steps = Steps(k.kind, f, files[f].status) /\ r.to = Outcome(k.kind)
<1>1. CASE k.todo # {} /\ call' # [call EXCEPT ![c] = NoCall]
  <2>1. PICK f \in k.todo :
          LET status == files[f].status
              skip == k.kind \in {"accept", "acceptAll"} /\ status \notin {"pending", "edited"}
          IN /\ call' = [call EXCEPT ![c] =
                  [k EXCEPT !.todo = @ \ {f}, !.file = f,
                            !.steps = IF skip THEN <<>> ELSE Steps(k.kind, f, status),
                            !.to = IF skip THEN status ELSE Outcome(k.kind)]]
             /\ UNCHANGED active
    BY <1>1 DEF Continue
  <2> DEFINE status == files[f].status
             skip == k.kind \in {"accept", "acceptAll"} /\ status \notin {"pending", "edited"}
             steps == IF skip THEN <<>> ELSE Steps(k.kind, f, status)
             to == IF skip THEN status ELSE Outcome(k.kind)
             r == [k EXCEPT !.todo = @ \ {f}, !.file = f, !.steps = steps, !.to = to]
  <2>2. f \in Files
    BY DEF CallType
  <2>3. status \in Statuses
    BY <2>2, EntryFields
  <2>4. steps \in Plans
    BY <2>2, StepsTyped DEF Plans
  <2>5. to \in Statuses
    BY <2>3 DEF Outcome, Kinds, Statuses
  <2>6. /\ skip => steps = <<>> /\ to = status
        /\ ~skip => steps = Steps(k.kind, f, status) /\ to = Outcome(k.kind)
    OBVIOUS
  <2>7. call' = [call EXCEPT ![c] = r] /\ UNCHANGED active
    BY <2>1
  <2> HIDE DEF steps, to
  <2>8. r \in CallType /\ r.kind = k.kind /\ r.set = k.set /\ r.file = f /\ r.todo = k.todo \ {f}
        /\ r.steps = steps /\ r.to = to
    BY <2>2, <2>4, <2>5 DEF CallType
  <2> HIDE DEF r
  <2>9. k.kind # "none"
    BY DEF Kinds
  <2>10. CallTyped'
    BY <2>7, <2>8, <2>9 DEF CallTyped
  <2>11. \/ /\ k.kind \in {"accept", "acceptAll"} /\ files[f].status \notin {"pending", "edited"}
            /\ r.steps = <<>> /\ r.to = files[f].status
         \/ /\ k.kind \in {"accept", "acceptAll"} => files[f].status \in {"pending", "edited"}
            /\ r.steps = Steps(k.kind, f, files[f].status) /\ r.to = Outcome(k.kind)
    BY <2>6, <2>8
  <2>12. active' \in 0 .. MaxTurns
    BY <2>7 DEF CardTyped
  <2> QED
    BY <2>7, <2>8, <2>10, <2>11, <2>12
<1>2. CASE call' = [call EXCEPT ![c] = NoCall]
  <2>1. CallTyped'
    BY <1>2, Nothing DEF CallTyped
  <2>2. active' \in {active, 0, k.set}
    BY DEF Continue
  <2>3. active' \in 0 .. MaxTurns
    BY <2>2, ContentTypes, Bounds DEF CardTyped
  <2> QED
    BY <1>2, <2>1, <2>3
<1>3. CASE k.todo = {}
  BY <1>2, <1>3 DEF Continue
<1> QED
  BY <1>1, <1>2, <1>3

(* One step of each kind. *)
LEMMA BeginTurnTyped ==
  ASSUME Typed, BeginTurn
  PROVE  Typed'
<1>1. begun + 1 \in Turns /\ begun + 1 \in 0 .. MaxTurns
  BY Bounds DEF BeginTurn, Typed, TurnTyped, Turns
<1>2. FsTyped'
  BY DEF BeginTurn, fsVars, Typed, FsTyped
<1>3. TurnTyped'
  BY <1>1 DEF BeginTurn, Typed, TurnTyped
<1>4. StoreTyped'
  BY <1>1, Nothing DEF BeginTurn, Typed, StoreTyped
<1>5. CardTyped'
  <2>1. card' \in [Turns -> [Files -> Entries]]
    BY Nothing DEF BeginTurn, Typed, CardTyped
  <2> QED
    BY <2>1, Bounds DEF BeginTurn, DropCards, CardTyped
<1>6. CallTyped'
  BY DEF BeginTurn, Typed, CallTyped
<1>7. CountTyped'
  BY DEF BeginTurn, Input, Typed, CountTyped
<1>8. HistTyped'
  <2>1. real \in [Files -> OptContents]
    BY ContentTypes DEF Typed, FsTyped
  <2>2. start' \in [Turns -> [Files -> OptContents]]
    BY <2>1, Nothing DEF BeginTurn, Typed, HistTyped
  <2>3. wrote' \in [Turns -> [Files -> 0 .. 2]]
    BY DEF BeginTurn, Typed, HistTyped
  <2>4. mixed' \subseteq Turns
    BY <1>1 DEF BeginTurn, Typed, HistTyped
  <2> QED
    BY <2>2, <2>3, <2>4 DEF HistTyped
<1> QED
  BY <1>2, <1>3, <1>4, <1>5, <1>6, <1>7, <1>8 DEF Typed

LEMMA FinTyped ==
  ASSUME NEW r \in FinType, NEW s \in Stages, NEW n \in 0 .. MaxTurns, NEW b \in BOOLEAN,
         NEW base \in [Files -> OptContents]
  PROVE  /\ [r EXCEPT !.stage = s] \in FinType
         /\ [r EXCEPT !.stage = s, !.base = base] \in FinType
         /\ [r EXCEPT !.stage = s, !.waits = n, !.ok = b] \in FinType
BY DEF FinType

(* The steps of finalizeTurn and captureBaseline. *)
LEMMA FinalizeTyped ==
  ASSUME Typed, NEW t \in Turns, CaptureBaseline(t) \/ Finalize(t)
  PROVE  Typed'
<1>1. /\ real \in [Files -> Contents] /\ copyFile \in [Files -> Contents] /\ baseline \in [Files -> OptContents]
      /\ pending \in [Files -> Entries] /\ fin[t] \in FinType /\ fin[t].base \in [Files -> OptContents]
      /\ told \in [Files -> OptContents] /\ mixed \subseteq Turns
  BY DEF Typed, FsTyped, StoreTyped, FinType, HistTyped
<1>2. CASE CaptureBaseline(t)
  <2>1. baseline' \in [Files -> OptContents]
    BY <1>1, <1>2, ContentTypes DEF CaptureBaseline
  <2>2. StoreTyped'
    BY <1>2, <2>1 DEF CaptureBaseline, Typed, StoreTyped
  <2> QED
    BY <1>2, <2>2 DEF CaptureBaseline, fsVars, turnVars, cardVars, Typed, FsTyped, TurnTyped, CardTyped, CallTyped,
                      CountTyped, HistTyped
<1>3. CASE BaselineReady(t)
  <2>1. fin' = [fin EXCEPT ![t] = [fin[t] EXCEPT !.stage = IF workdir /\ fin[t].ok THEN "walk" ELSE "freeze",
                                                 !.base = baseline]]
    BY <1>3 DEF BaselineReady, Typed, StoreTyped
  <2>2. fin' \in [Turns -> FinType]
    BY <1>1, <2>1, FinTyped DEF Typed, StoreTyped, Stages
  <2>3. StoreTyped'
    BY <1>3, <2>2 DEF BaselineReady, Typed, StoreTyped
  <2> QED
    BY <1>3, <2>3 DEF BaselineReady, fsVars, turnVars, cardVars, histVars, Typed, FsTyped, TurnTyped, CardTyped,
                      CallTyped, CountTyped, HistTyped
<1>4. CASE CollectExternalChanges(t)
  <2>1. ASSUME NEW f \in Files, NEW base \in OptContents
        PROVE  /\ External(f, base)[1] \in {"none", "added", "modified", "deleted"}
               /\ External(f, base)[2] \in Contents /\ External(f, base)[3] \in Contents
    <3>1. base # Never => base \in Contents
      BY <2>1 DEF OptContents
    <3>2. base # Never => Snapshot(f, base) \in Contents
      BY <3>1, SnapshotTypes
    <3>3. Snapshot(f, real[f]) \in Contents /\ OrEmpty(Snapshot(f, real[f])) \in Contents
      BY <1>1, SnapshotTypes
    <3> QED
      BY <3>2, <3>3, ContentTypes DEF External
  <2>2. pending' \in [Files -> Entries]
    <3>1. ASSUME NEW f \in Files PROVE pending'[f] \in Entries
      <4> DEFINE e == External(f, fin[t].base[f])
      <4>1. e[1] \in {"none", "added", "modified", "deleted"} /\ e[2] \in Contents /\ e[3] \in Contents
        BY <1>1, <2>1
      <4>2. pending'[f] = IF pending[f].type # "none" \/ e[1] = "none" THEN pending[f]
                          ELSE [type |-> e[1], orig |-> e[2], new |-> e[3], status |-> "pending"]
        BY <1>4 DEF CollectExternalChanges
      <4> HIDE DEF e
      <4> QED
        BY <1>1, <4>1, <4>2, SMTT(30) DEF Entries, Statuses
    <3>2. pending' = [f \in Files |-> pending'[f]]
      BY <1>4 DEF CollectExternalChanges
    <3> QED
      BY <3>1, <3>2
  <2>3. fin' \in [Turns -> FinType]
    BY <1>1, <1>4, FinTyped DEF CollectExternalChanges, Typed, StoreTyped, Stages
  <2>4. StoreTyped'
    BY <1>4, <2>2, <2>3 DEF CollectExternalChanges, Typed, StoreTyped
  <2> QED
    BY <1>4, <2>4 DEF CollectExternalChanges, fsVars, turnVars, cardVars, histVars, Typed, FsTyped, TurnTyped,
                      CardTyped, CallTyped, CountTyped, HistTyped
<1>5. CASE CollectWorkingCopyChanges(t)
  <2>1. ASSUME NEW f \in Files PROVE pending'[f] \in Entries
    <3>1. /\ baseline[f] # Never => Snapshot(f, baseline[f]) \in Contents
          /\ OrEmpty(Snapshot(f, copyFile[f])) \in Contents
      <4>1. baseline[f] # Never => baseline[f] \in Contents
        BY <1>1 DEF OptContents
      <4> QED
        BY <1>1, <4>1, SnapshotTypes
    <3> DEFINE o == IF baseline[f] = Never THEN Absent ELSE Snapshot(f, baseline[f])
               n == OrEmpty(Snapshot(f, copyFile[f]))
               y == IF baseline[f] = Never THEN "added" ELSE "modified"
    <3>2. o \in Contents /\ n \in Contents /\ y \in {"none", "added", "modified", "deleted"}
      BY <3>1, ContentTypes
    <3>3. pending'[f] = IF f \notin Dirtied \/ pending[f].type # "none" THEN pending[f]
                        ELSE [type |-> y, orig |-> o, new |-> n, status |-> "pending"]
      BY <1>5 DEF CollectWorkingCopyChanges
    <3> HIDE DEF o, n, y
    <3> QED
      BY <1>1, <3>2, <3>3 DEF Entries, Statuses
  <2>2. pending' \in [Files -> Entries]
    <3>1. pending' = [f \in Files |-> pending'[f]]
      BY <1>5 DEF CollectWorkingCopyChanges
    <3> QED
      BY <2>1, <3>1
  <2>3. fin' \in [Turns -> FinType]
    BY <1>1, <1>5, FinTyped DEF CollectWorkingCopyChanges, Typed, StoreTyped, Stages
  <2>4. StoreTyped'
    BY <1>5, <2>2, <2>3 DEF CollectWorkingCopyChanges, Typed, StoreTyped
  <2>5. told' \in [Files -> OptContents]
    BY <1>1, <1>5, ContentTypes DEF CollectWorkingCopyChanges
  <2>6. FsTyped'
    BY <1>5, <2>5 DEF CollectWorkingCopyChanges, Typed, FsTyped
  <2> QED
    BY <1>5, <2>4, <2>6 DEF CollectWorkingCopyChanges, turnVars, cardVars, histVars, Typed, TurnTyped, CardTyped,
                            CallTyped, CountTyped, HistTyped
<1>6. CASE Freeze(t)
  <2>1. StoreTyped'
    <3>1. 0 \in 0 .. MaxTurns /\ NoFin \in FinType /\ NoPending \in [Files -> Entries]
          /\ NoBaseline \in [Files -> OptContents]
      BY Nothing, Bounds
    <3> QED
      BY <1>6, <3>1 DEF Freeze, Typed, StoreTyped
  <2>2. CardTyped'
    <3>1. card' \in [Turns -> [Files -> Entries]]
      BY <1>1, <1>6 DEF Freeze, Typed, CardTyped
    <3>2. sets' \subseteq Turns /\ active' \in 0 .. MaxTurns
      BY <1>6, ContentTypes DEF Freeze, Typed, CardTyped
    <3> QED
      BY <3>1, <3>2 DEF CardTyped
  <2> QED
    BY <1>6, <2>1, <2>2 DEF Freeze, fsVars, turnVars, Typed, FsTyped, TurnTyped, CallTyped, CountTyped, HistTyped
<1> QED
  BY <1>2, <1>3, <1>4, <1>5, <1>6 DEF Finalize

(* The turn's tools, its end, and what happens around it. *)
LEMMA TurnStepsTyped ==
  ASSUME Typed, \/ EndTurn
                \/ \E t \in Turns : FsWrite(t) \/ RecordWrite(t)
                \/ \E f \in Files : Open(f) \/ Notice(f) \/ ShellChange(f) \/ FsRead(f) \/ Outside(f)
  PROVE  Typed'
<1>0. /\ real \in [Files -> Contents] /\ copyFile \in [Files -> Contents]
      /\ FsTyped /\ TurnTyped /\ StoreTyped /\ CardTyped /\ CallTyped /\ CountTyped /\ HistTyped
  BY DEF Typed, FsTyped
<1>1. CASE EndTurn
  <2>1. turn \in Turns
    BY <1>0, <1>1, ContentTypes DEF EndTurn, TurnTyped
  <2>2. PICK ok \in BOOLEAN : fin' = [fin EXCEPT ![turn] = [NoFin EXCEPT !.stage = "wait", !.waits = ready, !.ok = ok]]
    BY <1>1 DEF EndTurn
  <2>3. fin' \in [Turns -> FinType]
    BY <1>0, <2>1, <2>2, FinTyped, Nothing DEF StoreTyped, Stages
  <2>4. StoreTyped'
    <3>1. UNCHANGED <<pending, baseline, ready, workdir, capturing>>
      BY <1>1 DEF EndTurn
    <3> QED
      BY <1>0, <2>3, <3>1 DEF StoreTyped
  <2>5. TurnTyped'
    <3>1. turn' = 0 /\ UNCHANGED <<begun, tool>>
      BY <1>1 DEF EndTurn
    <3> QED
      BY <1>0, <3>1, Bounds DEF TurnTyped
  <2> QED
    BY <1>0, <1>1, <2>4, <2>5 DEF EndTurn, fsVars, cardVars, histVars, Typed, FsTyped, CardTyped, CallTyped, CountTyped,
                                  HistTyped
<1>2. ASSUME NEW t \in Turns, FsWrite(t) PROVE Typed'
  <2>1. tool[t].file \in Files /\ Fresh \in Contents /\ tool[t] \in ToolType
    BY <1>0, <1>2, FreshIsContent DEF FsWrite, TurnTyped
  <2>2. FsTyped' /\ HistTyped'
    BY <1>0, <1>2, <2>1, TurnWritesTyped DEF FsWrite
  <2>3. tool' = [tool EXCEPT ![t] = [tool[t] EXCEPT !.stage = "wrote", !.new = Fresh]]
    BY <1>0, <1>2 DEF FsWrite, TurnTyped
  <2> DEFINE r == [tool[t] EXCEPT !.stage = "wrote", !.new = Fresh]
  <2>4. r \in ToolType /\ r.file \in Files /\ tool' = [tool EXCEPT ![t] = r]
    BY <2>1, <2>3 DEF ToolType
  <2> HIDE DEF r
  <2>5. TurnTyped'
    <3>1. UNCHANGED <<turn, begun>>
      BY <1>2 DEF FsWrite
    <3>2. tool' \in [Turns -> ToolType]
      BY <1>0, <2>4 DEF TurnTyped
    <3>3. ASSUME NEW u \in Turns, tool'[u].stage # "none" PROVE tool'[u].file \in Files
      <4>1. tool'[u] = IF u = t THEN r ELSE tool[u]
        BY <1>0, <2>4 DEF TurnTyped
      <4> QED
        BY <1>0, <2>4, <3>3, <4>1 DEF TurnTyped
    <3> QED
      BY <1>0, <3>1, <3>2, <3>3 DEF TurnTyped
  <2>6. CountTyped'
    BY <1>0, <1>2, Bounds DEF FsWrite, CanWrite, CountTyped
  <2> QED
    BY <1>0, <1>2, <2>2, <2>5, <2>6 DEF FsWrite, storeVars, cardVars, Typed, StoreTyped, CardTyped, CallTyped
<1>3. ASSUME NEW t \in Turns, RecordWrite(t) PROVE Typed'
  <2>1. tool[t].file \in Files /\ tool[t].before \in Contents /\ tool[t].new \in Contents
    BY <1>0, <1>3 DEF RecordWrite, TurnTyped, ToolType
  <2>2. pending' \in [Files -> Entries]
    <3> DEFINE y == IF tool[t].before = Absent THEN "added" ELSE "modified"
               e == [type |-> y, orig |-> tool[t].before, new |-> tool[t].new, status |-> "pending"]
    <3>1. y \in {"none", "added", "modified", "deleted"}
      OBVIOUS
    <3>2. pending' = pending \/ pending' = [pending EXCEPT ![tool[t].file] = e]
      BY <1>3 DEF RecordWrite, Upsert
    <3> HIDE DEF y
    <3>3. e \in Entries
      BY <2>1, <3>1 DEF Entries, Statuses
    <3> HIDE DEF e
    <3> QED
      BY <1>0, <3>2, <3>3 DEF StoreTyped
  <2>3. StoreTyped'
    BY <1>0, <1>3, <2>2 DEF RecordWrite, StoreTyped
  <2>4. TurnTyped'
    BY <1>0, <1>3, Nothing DEF RecordWrite, TurnTyped
  <2> QED
    BY <1>0, <1>3, <2>3, <2>4 DEF RecordWrite, fsVars, cardVars, histVars, Typed, FsTyped, CardTyped, CallTyped, CountTyped,
                                  HistTyped
<1>4. ASSUME NEW f \in Files, Open(f) PROVE Typed'
  <2>1. FsTyped'
    BY <1>0, <1>4, EnsureTyped DEF Open
  <2>2. CountTyped'
    BY <1>0, <1>4 DEF Open, Input, CountTyped
  <2> QED
    BY <1>0, <1>4, <2>1, <2>2 DEF Open, turnVars, storeVars, cardVars, Typed, TurnTyped, StoreTyped, CardTyped, CallTyped,
                                  HistTyped
<1>5. ASSUME NEW f \in Files, Notice(f) PROVE Typed'
  <2>1. FsTyped'
    BY <1>0, <1>5, ContentTypes DEF Notice, FsTyped
  <2> QED
    BY <1>0, <1>5, <2>1 DEF Notice, turnVars, storeVars, cardVars, histVars, Typed, TurnTyped, StoreTyped, CardTyped,
                            CallTyped, CountTyped, HistTyped
<1>6. ASSUME NEW f \in Files, ShellChange(f) PROVE Typed'
  <2>1. turn \in Turns
    BY <1>0, <1>6, ContentTypes DEF ShellChange, TurnTyped
  <2>2. PICK content \in {Fresh, Absent} : TurnWrites(turn, f, content)
    BY <1>6 DEF ShellChange
  <2>3. content \in Contents
    BY <1>0, <1>6, ContentTypes, FreshIsContent DEF ShellChange, InputWrite
  <2>4. FsTyped' /\ HistTyped'
    BY <1>0, <1>6, <2>1, <2>2, <2>3, TurnWritesTyped DEF ShellChange
  <2>5. CountTyped'
    BY <1>0, <1>6, Bounds DEF ShellChange, InputWrite, CanWrite, CountTyped
  <2> QED
    BY <1>0, <1>6, <2>4, <2>5 DEF ShellChange, turnVars, storeVars, cardVars, Typed, TurnTyped, StoreTyped, CardTyped,
                                  CallTyped
<1>7. ASSUME NEW f \in Files, FsRead(f) PROVE Typed'
  <2>1. turn \in Turns
    BY <1>0, <1>7, ContentTypes DEF FsRead, TurnTyped
  <2> DEFINE b == (IF f \in tracked THEN copyFile ELSE real)[f]
             r == [stage |-> "read", file |-> f, new |-> Absent, before |-> b]
  <2>2. b \in Contents
    BY <1>0
  <2>3. tool' = [tool EXCEPT ![turn] = r]
    BY <1>7 DEF FsRead
  <2> HIDE DEF b
  <2>4. r \in ToolType /\ r.file \in Files
    BY <2>2, ContentTypes DEF ToolType
  <2> HIDE DEF r
  <2>5. TurnTyped'
    BY <1>0, <1>7, <2>1, <2>3, <2>4 DEF FsRead, TurnTyped
  <2>6. CountTyped'
    BY <1>0, <1>7 DEF FsRead, Input, CountTyped
  <2> QED
    BY <1>0, <1>7, <2>5, <2>6 DEF FsRead, fsVars, storeVars, cardVars, histVars, Typed, FsTyped, StoreTyped, CardTyped,
                                  CallTyped, HistTyped
<1>8. ASSUME NEW f \in Files, Outside(f) PROVE Typed'
  <2>1. Fresh \in Contents
    BY <1>0, <1>8, FreshIsContent DEF Outside, InputWrite
  <2>2. FsTyped'
    BY <1>0, <1>8, <2>1, ContentTypes DEF Outside, FsTyped
  <2>3. CountTyped'
    BY <1>0, <1>8, Bounds DEF Outside, InputWrite, CanWrite, CountTyped
  <2> QED
    BY <1>0, <1>8, <2>2, <2>3 DEF Outside, turnVars, storeVars, cardVars, Typed, TurnTyped, StoreTyped, CardTyped, CallTyped,
                                  HistTyped
<1> QED
  BY <1>1, <1>2, <1>3, <1>4, <1>5, <1>6, <1>7, <1>8

(* A review call, and the end of everything. *)
LEMMA ReviewTyped ==
  ASSUME Typed, NEW c \in Clients, Review(c) \/ \E kind \in Kinds : StartCall(c, kind)
  PROVE  Typed'
<1>0. /\ call[c] \in CallType /\ card \in [Turns -> [Files -> Entries]]
      /\ FsTyped /\ TurnTyped /\ StoreTyped /\ CardTyped /\ CallTyped /\ CountTyped /\ HistTyped
  BY DEF Typed, CallTyped, CardTyped
<1>1. call[c].file # NoFile => /\ call[c].kind \in Kinds /\ call[c].set \in Turns /\ call[c].file \in Files
                               /\ card[call[c].set] \in [Files -> Entries]
  <2>1. call[c].file # NoFile => call[c].kind # "none"
    BY <1>0, Nothing DEF CallTyped
  <2>2. call[c].file \in Files \cup {NoFile} /\ call[c].kind \in Kinds \cup {"none"}
    BY <1>0 DEF CallType
  <2> QED
    BY <1>0, <2>1, <2>2 DEF CallTyped
<1>2. CASE CallStep(c)
  <2> DEFINE k == call[c]
             f == k.file
             step == Head(k.steps)
  <2>1. f \in Files /\ k.steps # <<>> /\ k.steps \in Plans /\ k.set \in Turns
    BY <1>0, <1>1, <1>2 DEF CallStep, CallType
  <2>2. step \in Words /\ Tail(k.steps) \in Plans
    BY <2>1, PlanTypes
  <2>3. step = "edit" => Fresh \in Contents
    BY <1>0, <1>2, FreshIsContent DEF CallStep
  <2>4. FsTyped'
    BY <1>0, <1>1, <1>2, <2>1, <2>2, <2>3, EffectTyped DEF CallStep
  <2>5. CallTyped'
    <3> DEFINE r == [call[c] EXCEPT !.steps = Tail(@)]
    <3>1. call' = [call EXCEPT ![c] = r]
      BY <1>2 DEF CallStep
    <3>2. r \in CallType /\ r.kind = call[c].kind /\ r.set = call[c].set
      BY <1>0, <2>2 DEF CallType
    <3>3. call[c].kind # "none"
      BY <1>1, <1>2 DEF CallStep, Kinds
    <3> HIDE DEF r
    <3> QED
      BY <1>0, <3>1, <3>2, <3>3 DEF CallTyped
  <2>6. CountTyped'
    BY <1>0, <1>2, Bounds DEF CallStep, CanWrite, CountTyped
  <2>7. card' \in [Turns -> [Files -> Entries]]
    <3>1. CASE step # "edit"
      BY <1>0, <1>2, <3>1 DEF CallStep
    <3>2. CASE step = "edit"
      <4>1. card' = [card EXCEPT ![k.set][f].new = Fresh]
        BY <1>2, <3>2 DEF CallStep
      <4>2. card[k.set][f] \in Entries
        BY <1>0, <2>1
      <4>3. [card[k.set][f] EXCEPT !.new = Fresh] \in Entries
        BY <2>3, <3>2, <4>2 DEF Entries
      <4>4. card' = [card EXCEPT ![k.set] = [card[k.set] EXCEPT ![f] = [card[k.set][f] EXCEPT !.new = Fresh]]]
        BY <4>1
      <4>5. [card[k.set] EXCEPT ![f] = [card[k.set][f] EXCEPT !.new = Fresh]] \in [Files -> Entries]
        BY <1>0, <2>1, <4>3
      <4> QED
        BY <1>0, <4>4, <4>5
    <3> QED
      BY <3>1, <3>2
  <2>8. CardTyped'
    BY <1>0, <1>2, <2>7 DEF CallStep, CardTyped
  <2> QED
    BY <1>0, <1>2, <2>4, <2>5, <2>6, <2>8 DEF CallStep, turnVars, storeVars, Typed, TurnTyped, StoreTyped, HistTyped
<1>3. CASE Settle(c)
  <2> DEFINE k == call[c]
             files == [card[k.set] EXCEPT ![k.file].status = k.to]
  <2>1. k.kind \in Kinds /\ k.set \in Turns /\ k.file \in Files /\ card[k.set] \in [Files -> Entries]
    BY <1>1, <1>3 DEF Settle
  <2>2. [card[k.set][k.file] EXCEPT !.status = k.to] \in Entries
    <3>1. k.to \in Statuses /\ card[k.set][k.file] \in Entries
      BY <1>0, <2>1 DEF CallType
    <3> QED
      BY <3>1 DEF Entries
  <2>3. files \in [Files -> Entries]
    BY <2>1, <2>2
  <2>4. card' = [card EXCEPT ![k.set] = files] /\ Continue(c, k, files)
    BY <1>3 DEF Settle
  <2> HIDE DEF files
  <2>5. CallTyped' /\ active' \in 0 .. MaxTurns
    BY <1>0, <2>1, <2>3, <2>4, ContinueTyped
  <2>6. CardTyped'
    BY <1>0, <1>3, <2>3, <2>4, <2>5 DEF Settle, CardTyped
  <2> QED
    BY <1>0, <1>3, <2>5, <2>6 DEF Settle, fsVars, turnVars, storeVars, histVars, Typed, FsTyped, TurnTyped, StoreTyped,
                                  CountTyped, HistTyped
<1>4. ASSUME NEW kind \in Kinds, StartCall(c, kind) PROVE Typed'
  <2>1. PICK t \in sets : \E todo \in Todo(kind, t) :
          Continue(c, [NoCall EXCEPT !.kind = kind, !.set = t, !.todo = todo], card[t])
    BY <1>4 DEF StartCall
  <2>2. PICK todo \in Todo(kind, t) :
          Continue(c, [NoCall EXCEPT !.kind = kind, !.set = t, !.todo = todo], card[t])
    BY <2>1
  <2>3. t \in Turns /\ card[t] \in [Files -> Entries]
    BY <1>0 DEF CardTyped
  <2>4. todo \in SUBSET Files
    BY <1>4 DEF Todo, Kinds, Listed
  <2> DEFINE k == [NoCall EXCEPT !.kind = kind, !.set = t, !.todo = todo]
  <2>5. k \in CallType /\ k.kind = kind /\ k.set = t
    BY <2>3, <2>4, Nothing, ContentTypes DEF CallType
  <2>6. Continue(c, k, card[t])
    BY <2>2
  <2> HIDE DEF k
  <2>7. CallTyped' /\ active' \in 0 .. MaxTurns
    BY <1>0, <2>3, <2>5, <2>6, ContinueTyped
  <2>8. CardTyped'
    BY <1>0, <1>4, <2>7 DEF StartCall, CardTyped
  <2>9. CountTyped'
    <3>1. Input
      BY <1>4 DEF StartCall
    <3> QED
      BY <1>0, <3>1 DEF Input, CountTyped
  <2> QED
    BY <1>0, <1>4, <2>7, <2>8, <2>9 DEF StartCall, fsVars, turnVars, storeVars, Typed, FsTyped, TurnTyped, StoreTyped,
                                        HistTyped
<1> QED
  BY <1>2, <1>3, <1>4 DEF Review

LEMMA EndingsTyped ==
  ASSUME Typed, ClearConversation \/ Restart
  PROVE  Typed'
<1>0. FsTyped /\ TurnTyped /\ StoreTyped /\ CardTyped /\ CallTyped /\ CountTyped /\ HistTyped
  BY DEF Typed
<1>1. StoreTyped'
  <2>1. 0 \in 0 .. MaxTurns
    BY Bounds
  <2>2. CASE ClearConversation
    BY <1>0, <2>1, <2>2, Nothing DEF ClearConversation, StoreTyped
  <2>3. CASE Restart
    BY <1>0, <2>1, <2>3, Nothing DEF Restart, StoreTyped
  <2> QED
    BY <2>2, <2>3
<1>2. CardTyped'
  BY <1>0, Bounds DEF ClearConversation, Restart, CardTyped
<1>3. CountTyped'
  BY <1>0 DEF ClearConversation, Restart, Input, CountTyped
<1>4. CASE ClearConversation
  <2>1. HistTyped'
    BY <1>0, <1>4 DEF ClearConversation, Finalizing, HistTyped
  <2> QED
    BY <1>0, <1>1, <1>2, <1>3, <1>4, <2>1 DEF ClearConversation, fsVars, turnVars, Typed, FsTyped, TurnTyped, CallTyped
<1>5. CASE Restart
  <2>1. FsTyped'
    BY <1>0, <1>5, ContentTypes DEF Restart, FsTyped
  <2>2. TurnTyped'
    BY <1>0, <1>5, Nothing, Bounds DEF Restart, TurnTyped
  <2>3. CallTyped'
    BY <1>5, Nothing DEF Restart, CallTyped
  <2>4. HistTyped'
    BY <1>0, <1>5 DEF Restart, HistTyped
  <2> QED
    BY <1>1, <1>2, <1>3, <2>1, <2>2, <2>3, <2>4 DEF Typed
<1> QED
  BY <1>4, <1>5

LEMMA InitTyped == Init => Typed
<1> SUFFICES ASSUME Init PROVE Typed
  OBVIOUS
<1>1. FsTyped
  BY ContentTypes DEF Init, FsTyped
<1>2. TurnTyped
  BY Nothing, Bounds DEF Init, TurnTyped
<1>3. StoreTyped
  <2>1. 0 \in 0 .. MaxTurns /\ NoFin \in FinType /\ NoPending \in [Files -> Entries]
        /\ NoBaseline \in [Files -> OptContents]
    BY Nothing, Bounds
  <2> QED
    BY <2>1 DEF Init, StoreTyped
<1>4. CardTyped
  BY Nothing, Bounds DEF Init, CardTyped
<1>5. CallTyped
  BY Nothing DEF Init, CallTyped
<1>6. CountTyped
  BY Bounds DEF Init, CountTyped
<1>7. HistTyped
  BY Nothing DEF Init, HistTyped
<1> QED
  BY <1>1, <1>2, <1>3, <1>4, <1>5, <1>6, <1>7 DEF Typed

LEMMA NextTyped == Typed /\ [Next]_vars => Typed'
<1> SUFFICES ASSUME Typed, [Next]_vars PROVE Typed'
  OBVIOUS
<1>1. CASE BeginTurn
  BY <1>1, BeginTurnTyped
<1>2. CASE ClearConversation \/ Restart
  BY <1>2, EndingsTyped
<1>3. ASSUME NEW t \in Turns, CaptureBaseline(t) \/ Finalize(t) PROVE Typed'
  BY <1>3, FinalizeTyped
<1>4. CASE \/ EndTurn
           \/ \E t \in Turns : FsWrite(t) \/ RecordWrite(t)
           \/ \E f \in Files : Open(f) \/ Notice(f) \/ ShellChange(f) \/ FsRead(f) \/ Outside(f)
  BY <1>4, TurnStepsTyped
<1>5. ASSUME NEW c \in Clients, Review(c) \/ \E kind \in Kinds : StartCall(c, kind) PROVE Typed'
  BY <1>5, ReviewTyped
<1>6. CASE UNCHANGED vars
  BY <1>6 DEF vars, fsVars, turnVars, storeVars, cardVars, histVars, Typed, FsTyped, TurnTyped, StoreTyped, CardTyped,
              CallTyped, CountTyped, HistTyped
<1> QED
  BY <1>1, <1>2, <1>3, <1>4, <1>5, <1>6 DEF Next

LEMMA TypesHold == Spec => []Typed
BY InitTyped, NextTyped, PTL DEF Spec

(* The store, the sandboxes and the cards have their types, for any number *)
(* of files, turns and reviewers: an entry is of a file of the folder, a   *)
(* call is of a set of a turn, and a plan is one of the code's.            *)
THEOREM ChangeSetsTypeCorrect == Spec => []TypeOK
<1>1. Typed => TypeOK
  <2> SUFFICES ASSUME Typed PROVE TypeOK
    OBVIOUS
  <2>1. {real, copyFile} \subseteq [Files -> Contents] /\ tracked \subseteq Files
        /\ {clean, told, baseline} \subseteq [Files -> Contents \cup {Never}]
    BY DEF Typed, FsTyped, StoreTyped, OptContents
  <2>2. {turn, begun, ready, active} \subseteq 0 .. MaxTurns /\ workdir \in BOOLEAN
        /\ capturing \subseteq Turns /\ sets \subseteq Turns /\ mixed \subseteq Turns
    BY DEF Typed, TurnTyped, StoreTyped, CardTyped, HistTyped
  <2>3. {pending} \cup {card[t] : t \in Turns} \subseteq [Files -> Entries]
    BY DEF Typed, StoreTyped, CardTyped
  <2>4. \A t \in Turns : fin[t].stage \in {"none", "wait", "walk", "scan", "freeze"}
    BY DEF Typed, StoreTyped, FinType, Stages
  <2> QED
    BY <2>1, <2>2, <2>3, <2>4 DEF TypeOK
<1> QED
  BY <1>1, TypesHold, PTL

-----------------------------------------------------------------------------
(* The watermark of a sandbox *)

Stray(f) == <<0, f, "stray">> \in flaws

(* A review call is about to take this step on f. *)
About(f, step) == \E c \in Clients : call[c].file = f /\ call[c].steps # <<>> /\ Head(call[c].steps) = step

(* A sandbox with a watermark was equal to the user's file, and still is   *)
(* if it was not written.                                                  *)
Marked(f) == f \in tracked => clean[f] \in {Never, OrEmpty(real[f])}

(* The sandbox was promoted, its watermark is not moved yet. *)
Promoted(f) == IF copyFile[f] = Absent THEN Marked(f) ELSE copyFile[f] = OrEmpty(real[f])

WatermarkOK(f) ==
  \/ Stray(f)
  \/ /\ About(f, "watermark") => Promoted(f)
     /\ About(f, "watermark") \/ About(f, "unregister") \/ Marked(f)

Watermarks == \A f \in Files : WatermarkOK(f)

(* Only the next turn forgets what spoilt the turns before it. *)
LEMMA FlawsStay ==
  ASSUME [Next]_vars, ~BeginTurn
  PROVE  flaws \subseteq flaws' /\ mixed \subseteq mixed'
<1>1. ASSUME NEW t \in Turns, CaptureBaseline(t) \/ FsWrite(t) \/ RecordWrite(t) \/ Finalize(t)
      PROVE  flaws \subseteq flaws' /\ mixed \subseteq mixed'
  BY <1>1 DEF CaptureBaseline, FsWrite, RecordWrite, Finalize, BaselineReady, CollectExternalChanges,
              CollectWorkingCopyChanges, Freeze, TurnWrites, Flaw, histVars
<1>2. ASSUME NEW f \in Files, Open(f) \/ Notice(f) \/ ShellChange(f) \/ FsRead(f) \/ Outside(f)
      PROVE  flaws \subseteq flaws' /\ mixed \subseteq mixed'
  BY <1>2, SMTT(30) DEF Open, Notice, ShellChange, FsRead, Outside, TurnWrites, Flaw, histVars
<1>3. ASSUME NEW c \in Clients, CallStep(c) \/ Settle(c) \/ \E kind \in Kinds : StartCall(c, kind)
      PROVE  flaws \subseteq flaws' /\ mixed \subseteq mixed'
  BY <1>3 DEF CallStep, Settle, StartCall, histVars
<1>4. CASE EndTurn
  BY <1>4 DEF EndTurn, histVars
<1>5. CASE ClearConversation
  BY <1>5 DEF ClearConversation
<1>6. CASE Restart
  BY <1>6 DEF Restart
<1>7. CASE UNCHANGED vars
  BY <1>7 DEF vars, histVars
<1> QED
  BY <1>1, <1>2, <1>3, <1>4, <1>5, <1>6, <1>7 DEF Next, Review

LEMMA StrayStays ==
  ASSUME [Next]_vars
  PROVE  \A w \in flaws : w[1] \notin Turns => w \in flaws'
<1>1. CASE BeginTurn
  <2>1. {w \in flaws : w[1] \notin Over} \subseteq flaws'
    BY <1>1 DEF BeginTurn
  <2>2. Over \subseteq Turns
    BY DEF Over
  <2> SUFFICES ASSUME NEW w \in flaws, w[1] \notin Turns PROVE w \in flaws'
    OBVIOUS
  <2>3. w[1] \notin Over
    BY <2>2
  <2>4. w \in {v \in flaws : v[1] \notin Over}
    BY <2>3
  <2> QED
    BY <2>1, <2>4
<1>2. CASE ~BeginTurn
  BY <1>2, FlawsStay
<1> QED
  BY <1>1, <1>2

(* A step that does not concern f leaves its watermark right. *)
LEMMA WatermarkFrame ==
  ASSUME NEW f \in Files, WatermarkOK(f), [Next]_vars,
         real'[f] = real[f], copyFile'[f] = copyFile[f], clean'[f] = clean[f], f \in tracked' => f \in tracked,
         About(f, "watermark")' => About(f, "watermark"),
         About(f, "watermark") \/ About(f, "unregister") => About(f, "watermark")' \/ About(f, "unregister")'
  PROVE  WatermarkOK(f)'
<1>1. Stray(f) => Stray(f)'
  <2>1. Stray(f) => <<0, f, "stray">> \in flaws /\ <<0, f, "stray">>[1] \notin Turns
    BY Bounds DEF Stray, Turns
  <2> QED
    BY <2>1, StrayStays DEF Stray
<1>2. Marked(f) => Marked(f)'
  BY DEF Marked
<1>3. Promoted(f) => Promoted(f)'
  BY <1>2 DEF Promoted
<1> QED
  BY <1>1, <1>2, <1>3 DEF WatermarkOK

(* The same, for a step that leaves the calls alone. *)
LEMMA QuietFrame ==
  ASSUME NEW f \in Files, WatermarkOK(f), [Next]_vars, call' = call,
         real'[f] = real[f], copyFile'[f] = copyFile[f], clean'[f] = clean[f], f \in tracked' => f \in tracked
  PROVE  WatermarkOK(f)'
<1>1. \A step : About(f, step)' <=> About(f, step)
  BY DEF About
<1> QED
  BY <1>1, WatermarkFrame

(* Opening a file gives it a right watermark. *)
LEMMA EnsureMarks ==
  ASSUME FsTyped, NEW f \in Files, Ensure(f), real' = real
  PROVE  /\ Marked(f) => Marked(f)'
         /\ f \notin tracked => Marked(f)'
         /\ copyFile[f] # Absent => copyFile'[f] = copyFile[f]
         /\ copyFile[f] = Absent /\ f \notin tracked => copyFile'[f] = OrEmpty(real[f])
         /\ f \in tracked => UNCHANGED <<copyFile, tracked, clean, told>>
         /\ \A g \in Files \ {f} : copyFile'[g] = copyFile[g] /\ clean'[g] = clean[g] /\ (g \in tracked' <=> g \in tracked)
<1>1. CASE f \in tracked
  BY <1>1 DEF Ensure, Marked
<1>2. CASE f \notin tracked /\ copyFile[f] # Absent
  <2>1. /\ tracked' = tracked \cup {f} /\ copyFile' = copyFile
        /\ \E same \in {FALSE, copyFile[f] = real[f]} :
             clean' = [clean EXCEPT ![f] = IF same THEN copyFile[f] ELSE Never]
    BY <1>2 DEF Ensure
  <2>2. clean' = [clean EXCEPT ![f] = Never] \/ (copyFile[f] = real[f] /\ clean' = [clean EXCEPT ![f] = copyFile[f]])
    BY <2>1
  <2>3. clean'[f] \in {Never, OrEmpty(real[f])}
    BY <1>2, <2>2 DEF OrEmpty, FsTyped
  <2>4. \A g \in Files \ {f} : clean'[g] = clean[g]
    BY <2>2 DEF FsTyped
  <2> QED
    BY <1>2, <2>1, <2>3, <2>4 DEF Marked
<1>3. CASE f \notin tracked /\ copyFile[f] = Absent
  <2>1. /\ tracked' = tracked \cup {f} /\ copyFile' = [copyFile EXCEPT ![f] = OrEmpty(real[f])]
        /\ clean' = [clean EXCEPT ![f] = OrEmpty(real[f])]
    BY <1>3 DEF Ensure
  <2> QED
    BY <1>3, <2>1 DEF Marked, FsTyped
<1> QED
  BY <1>1, <1>2, <1>3

(* A turn writes in place, or into the sandbox. *)
LEMMA TurnWritesMarks ==
  ASSUME Typed, Watermarks, [Next]_vars, NEW t \in Turns, NEW f \in Files, NEW content \in Contents,
         TurnWrites(t, f, content), call' = call
  PROVE  Watermarks'
<1>1. /\ FsTyped /\ UNCHANGED <<tracked, clean>>
      /\ IF f \in tracked THEN copyFile' = [copyFile EXCEPT ![f] = content] /\ UNCHANGED real
         ELSE real' = [real EXCEPT ![f] = content] /\ UNCHANGED copyFile
  BY DEF Typed, TurnWrites
<1> SUFFICES ASSUME NEW g \in Files PROVE WatermarkOK(g)'
  BY DEF Watermarks
<1>2. WatermarkOK(g)
  BY DEF Watermarks
<1>3. CASE g # f
  <2>1. real'[g] = real[g] /\ copyFile'[g] = copyFile[g] /\ clean' = clean /\ tracked' = tracked
    BY <1>1, <1>3 DEF FsTyped
  <2> QED
    BY <1>2, <2>1, QuietFrame
<1>4. CASE g = f /\ InHand(f, {})
  BY <1>4 DEF TurnWrites, WatermarkOK, Stray
<1>5. CASE g = f /\ ~InHand(f, {})
  <2>1. \A step : ~About(f, step)
    BY <1>5 DEF InHand, About
  <2>2. \A step : ~About(f, step)'
    BY <2>1 DEF About
  <2>3. Marked(f) => Marked(f)'
    BY <1>1 DEF Marked
  <2>4. Stray(f) => Stray(f)'
    <3>1. Stray(f) => <<0, f, "stray">> \in flaws /\ <<0, f, "stray">>[1] \notin Turns
      BY Bounds DEF Stray, Turns
    <3> QED
      BY <3>1, StrayStays DEF Stray
  <2> QED
    BY <1>2, <1>5, <2>1, <2>2, <2>3, <2>4 DEF WatermarkOK
<1> QED
  BY <1>3, <1>4, <1>5

(* The steps of a review call: the file it has in hand is either nobody    *)
(* else's, or counts as stray.                                             *)
LEMMA CallStepMarks ==
  ASSUME Typed, Watermarks, [Next]_vars, NEW c \in Clients, CallStep(c),
         NEW f \in Files, f = call[c].file, NEW step, step = Head(call[c].steps), NEW rest, rest = Tail(call[c].steps)
  PROVE  Watermarks'
<1> DEFINE k == call[c]
           e == card[k.set][f]
<1>1. /\ k.file = f /\ k.steps # <<>> /\ k.steps \in Plans /\ step \in Words /\ k \in CallType
      /\ call' = [call EXCEPT ![c].steps = Tail(@)] /\ call'[c].steps = rest /\ call'[c].file = f
      /\ \A d \in Clients \ {c} : call'[d] = call[d]
  <2>1. call \in [Clients -> CallType]
    BY DEF Typed, CallTyped
  <2>2. call' = [call EXCEPT ![c].steps = Tail(@)] /\ f # NoFile /\ k.steps # <<>>
    BY DEF CallStep
  <2>3. k \in CallType /\ k.file = f /\ k.steps \in Plans
    BY <2>1, <2>2 DEF CallType
  <2>4. step \in Words
    BY <2>2, <2>3, PlanTypes
  <2>5. call' = [call EXCEPT ![c] = [call[c] EXCEPT !.steps = Tail(call[c].steps)]]
    BY <2>1, <2>2
  <2>6. call'[c].steps = rest /\ call'[c].file = f /\ \A d \in Clients \ {c} : call'[d] = call[d]
    BY <2>1, <2>3, <2>5 DEF CallType
  <2> QED
    BY <2>2, <2>3, <2>4, <2>6
<1>2. Effect(step, f, e)
  BY DEF CallStep
<1>3. (f \in tracked /\ step \in {"restore", "rewrite"}) \/ InHand(f, {c}) => Stray(f)'
  BY DEF CallStep, Stray
<1>f. FsTyped
  BY DEF Typed
<1> HIDE DEF e
<1>4. \A g \in Files \ {f} : real'[g] = real[g] /\ copyFile'[g] = copyFile[g] /\ clean'[g] = clean[g]
                             /\ (g \in tracked' <=> g \in tracked)
  <2> TAKE g \in Files \ {f}
  <2>1. ASSUME NEW v, SetReal(f, v) PROVE real'[g] = real[g] /\ copyFile' = copyFile /\ clean' = clean /\ tracked' = tracked
    BY <2>1, <1>1, <1>f DEF SetReal, FsTyped
  <2>2. ASSUME NEW v, SetCopy(f, v) PROVE real' = real /\ copyFile'[g] = copyFile[g] /\ clean' = clean /\ tracked' = tracked
    BY <2>2, <1>1, <1>f DEF SetCopy, FsTyped
  <2>3. CASE step \in {"promote", "restore", "original", "rewrite"}
    BY <1>2, <2>1, <2>3 DEF Effect
  <2>4. CASE step \in {"remove", "refill", "edit"}
    BY <1>2, <2>2, <2>4 DEF Effect
  <2>5. CASE step = "seed"
    BY <1>1, <1>2, <1>f, <2>5, EnsureMarks DEF Effect
  <2>6. CASE step \in {"watermark", "unregister"}
    BY <1>1, <1>2, <1>f, <2>6 DEF Effect, FsTyped
  <2> QED
    BY <1>1, <2>3, <2>4, <2>5, <2>6 DEF Words
<1> SUFFICES ASSUME NEW g \in Files PROVE WatermarkOK(g)'
  BY DEF Watermarks
<1>5. WatermarkOK(g)
  BY DEF Watermarks
<1>6. CASE g # f
  <2>1. \A s : About(g, s)' <=> About(g, s)
    <3> SUFFICES ASSUME NEW s PROVE About(g, s)' <=> About(g, s)
      OBVIOUS
    <3>1. \A d \in Clients : call'[d].file = g <=> call[d].file = g
      BY <1>1, <1>6
    <3>2. \A d \in Clients : call[d].file = g => call'[d] = call[d]
      BY <1>1, <1>6
    <3> QED
      BY <3>1, <3>2 DEF About
  <2>2. real'[g] = real[g] /\ copyFile'[g] = copyFile[g] /\ clean'[g] = clean[g] /\ (g \in tracked' <=> g \in tracked)
    BY <1>4, <1>6
  <2> QED
    BY <1>5, <2>1, <2>2, WatermarkFrame
<1>7. CASE g = f /\ Stray(f)'
  BY <1>7 DEF WatermarkOK
<1>8. CASE g = f /\ ~Stray(f)'
  <2>1. ~Stray(f)
    <3>1. Stray(f) => <<0, f, "stray">> \in flaws /\ <<0, f, "stray">>[1] \notin Turns
      BY Bounds DEF Stray, Turns
    <3> QED
      BY <1>8, <3>1, StrayStays DEF Stray
  <2>2. /\ \A d \in Clients \ {c} : call[d].file # f
        /\ f \in tracked => step \notin {"restore", "rewrite"}
    BY <1>3, <1>8 DEF InHand
  <2>3. \A s : About(f, s) <=> step = s
    BY <1>1, <2>2 DEF About
  <2>4. \A s : About(f, s)' <=> rest # <<>> /\ Head(rest) = s
    <3>1. \A d \in Clients \ {c} : call'[d].file # f
      BY <1>1, <2>2
    <3> QED
      BY <1>1, <3>1 DEF About
  <2>5. /\ About(f, "watermark")' => step = "promote"
        /\ About(f, "unregister")' <=> step = "original"
    BY <1>1, <2>4, PlanTypes
  <2>6. /\ step = "watermark" => Promoted(f)
        /\ step \in {"watermark", "unregister"} \/ Marked(f)
    BY <1>5, <1>8, <2>1, <2>3 DEF WatermarkOK
  <2> SUFFICES /\ step = "promote" => Promoted(f)'
               /\ step \in {"promote", "original"} \/ Marked(f)'
    <3>1. About(f, "watermark")' <=> step = "promote"
      <4>1. step = "promote" => rest = <<"watermark">>
        BY <1>1, PlanTypes
      <4>2. <<"watermark">> # <<>> /\ Head(<<"watermark">>) = "watermark"
        OBVIOUS
      <4> QED
        BY <2>4, <2>5, <4>1, <4>2
    <3> QED
      BY <1>8, <2>5, <3>1 DEF WatermarkOK
  <2>7. real[f] \in Contents /\ copyFile[f] \in Contents
    BY <1>f DEF FsTyped
  <2>8. CASE step = "promote"
    <3>1. /\ real' = [real EXCEPT ![f] = IF copyFile[f] = Absent THEN real[f] ELSE copyFile[f]]
          /\ UNCHANGED <<copyFile, tracked, clean>> /\ Marked(f)
      BY <1>2, <2>6, <2>8 DEF Effect, SetReal
    <3>2. real'[f] = IF copyFile[f] = Absent THEN real[f] ELSE copyFile[f]
      BY <1>f, <3>1 DEF FsTyped
    <3> QED
      BY <2>8, <3>1, <3>2 DEF Promoted, Marked, OrEmpty
  <2>9. CASE step = "watermark"
    <3>1. /\ clean' = [clean EXCEPT ![f] = IF f \in tracked /\ copyFile[f] # Absent THEN copyFile[f] ELSE clean[f]]
          /\ UNCHANGED <<real, copyFile, tracked>> /\ Promoted(f)
      BY <1>2, <2>6, <2>9 DEF Effect
    <3>2. clean'[f] = IF f \in tracked /\ copyFile[f] # Absent THEN copyFile[f] ELSE clean[f]
      BY <1>f, <3>1 DEF FsTyped
    <3> QED
      BY <2>9, <3>1, <3>2 DEF Promoted, Marked
  <2>10. CASE step = "unregister"
    BY <1>2, <2>10 DEF Effect, Marked
  <2>11. CASE step \in {"remove", "refill", "edit"}
    <3>1. UNCHANGED <<real, tracked, clean>> /\ Marked(f)
      BY <1>2, <2>6, <2>11 DEF Effect, SetCopy
    <3> QED
      BY <2>11, <3>1 DEF Marked
  <2>12. CASE step = "seed"
    BY <1>2, <1>f, <2>6, <2>12, EnsureMarks DEF Effect
  <2>13. CASE step \in {"restore", "rewrite"}
    <3>1. f \notin tracked /\ tracked' = tracked
      BY <1>2, <2>2, <2>13 DEF Effect, SetReal
    <3> QED
      BY <2>13, <3>1 DEF Marked
  <2>14. CASE step = "original"
    BY <2>14
  <2> QED
    BY <1>1, <2>8, <2>9, <2>10, <2>11, <2>12, <2>13, <2>14 DEF Words
<1> QED
  BY <1>6, <1>7, <1>8

(* A step of a review call touches no file but the one it has in hand. *)
LEMMA StepTouchesOne ==
  ASSUME Typed, NEW c \in Clients, CallStep(c), NEW f \in Files, real'[f] # real[f] \/ copyFile'[f] # copyFile[f]
  PROVE  f = call[c].file
<1> DEFINE k == call[c]
           e == card[k.set][k.file]
<1>0. FsTyped
  BY DEF Typed
<1>1. Effect(Head(k.steps), k.file, e) /\ k.file \in Files /\ Head(k.steps) \in Words
  <2>1. Effect(Head(k.steps), k.file, e) /\ k.file # NoFile /\ k.steps # <<>>
    BY DEF CallStep
  <2>2. k \in CallType
    BY DEF Typed, CallTyped
  <2> QED
    BY <2>1, <2>2, PlanTypes DEF CallType
<1> HIDE DEF e
<1>2. \/ (\E v : real' = [real EXCEPT ![k.file] = v]) /\ UNCHANGED copyFile
      \/ (\E v : copyFile' = [copyFile EXCEPT ![k.file] = v]) /\ UNCHANGED real
      \/ UNCHANGED <<real, copyFile>>
  <2>1. CASE Head(k.steps) \in {"promote", "restore", "original", "rewrite", "watermark", "unregister"}
    BY <1>1, <2>1 DEF Effect, SetReal
  <2>2. CASE Head(k.steps) \in {"remove", "refill", "edit"}
    BY <1>1, <2>2 DEF Effect, SetCopy
  <2>3. CASE Head(k.steps) = "seed"
    BY <1>1, <2>3 DEF Effect, Ensure
  <2> QED
    BY <1>1, <2>1, <2>2, <2>3 DEF Words
<1> QED
  BY <1>0, <1>1, <1>2 DEF FsTyped

LEMMA OpenMarks ==
  ASSUME Typed, Watermarks, [Next]_vars, NEW f \in Files, Open(f)
  PROVE  Watermarks'
<1>1. FsTyped /\ f \notin tracked /\ Ensure(f) /\ real' = real /\ call' = call
  BY DEF Open, Typed
<1> SUFFICES ASSUME NEW g \in Files PROVE WatermarkOK(g)'
  BY DEF Watermarks
<1>2. WatermarkOK(g)
  BY DEF Watermarks
<1>3. CASE g # f
  <2>1. real'[g] = real[g] /\ copyFile'[g] = copyFile[g] /\ clean'[g] = clean[g] /\ (g \in tracked' <=> g \in tracked)
    BY <1>1, <1>3, EnsureMarks
  <2> QED
    BY <1>1, <1>2, <2>1, QuietFrame
<1>4. CASE g = f
  <2>1. Marked(f)'
    BY <1>1, EnsureMarks
  <2>2. Promoted(f) => Promoted(f)'
    <3>1. CASE copyFile[f] = Absent
      <4>1. copyFile'[f] = OrEmpty(real[f])
        BY <1>1, <3>1, EnsureMarks
      <4>2. OrEmpty(real[f]) # Absent
        BY <1>1, SnapshotTypes DEF FsTyped
      <4> QED
        BY <1>1, <4>1, <4>2 DEF Promoted
    <3>2. CASE copyFile[f] # Absent
      <4>1. copyFile'[f] = copyFile[f]
        BY <1>1, <3>2, EnsureMarks
      <4> QED
        BY <1>1, <3>2, <4>1 DEF Promoted
    <3> QED
      BY <3>1, <3>2
  <2>3. About(f, "watermark")' <=> About(f, "watermark")
    BY <1>1 DEF About
  <2>4. Stray(f) => Stray(f)'
    <3>1. Stray(f) => <<0, f, "stray">> \in flaws /\ <<0, f, "stray">>[1] \notin Turns
      BY Bounds DEF Stray, Turns
    <3> QED
      BY <3>1, StrayStays DEF Stray
  <2> QED
    BY <1>2, <1>4, <2>1, <2>2, <2>3, <2>4 DEF WatermarkOK
<1> QED
  BY <1>3, <1>4

LEMMA OutsideMarks ==
  ASSUME Typed, Watermarks, [Next]_vars, NEW f \in Files, Outside(f)
  PROVE  Watermarks'
<1>1. /\ FsTyped /\ UNCHANGED <<copyFile, tracked, clean, call>>
      /\ \E content : real' = [real EXCEPT ![f] = content]
  BY DEF Outside, Typed
<1> SUFFICES ASSUME NEW g \in Files PROVE WatermarkOK(g)'
  BY DEF Watermarks
<1>2. WatermarkOK(g)
  BY DEF Watermarks
<1>3. CASE g # f
  <2>1. real'[g] = real[g]
    BY <1>1, <1>3 DEF FsTyped
  <2> QED
    BY <1>1, <1>2, <2>1, QuietFrame
<1>4. CASE g = f /\ (f \in tracked \/ InHand(f, {}))
  BY <1>4 DEF Outside, WatermarkOK, Stray
<1>5. CASE g = f /\ f \notin tracked /\ ~InHand(f, {})
  <2>1. \A step : ~About(f, step)'
    BY <1>1, <1>5 DEF InHand, About
  <2>2. Marked(f)'
    BY <1>1, <1>5 DEF Marked
  <2> QED
    BY <1>5, <2>1, <2>2 DEF WatermarkOK
<1> QED
  BY <1>3, <1>4, <1>5

(* A call that begins or comes to a next file: its plan is one of the      *)
(* code's, from its first step on.                                         *)
LEMMA CallGoesOn ==
  ASSUME Typed, NEW c \in Clients, Settle(c) \/ \E kind \in Kinds : StartCall(c, kind)
  PROVE  \E r \in CallType : /\ call' = [call EXCEPT ![c] = r]
                             /\ r.steps # <<"watermark">> /\ r.set \in {0, call[c].set} \cup sets
<1>1. call[c] \in CallType /\ CardTyped /\ CallTyped
  BY DEF Typed, CallTyped
<1>2. NoCall.steps = <<>> /\ NoCall \in CallType /\ <<>> # <<"watermark">> /\ NoCall.set = 0
  BY Nothing DEF NoCall
<1>3. ASSUME NEW k \in CallType, k.set \in Turns, k.kind \in Kinds, NEW files \in [Files -> Entries],
             Continue(c, k, files), k.set \in {call[c].set} \cup sets
      PROVE  \E r \in CallType : /\ call' = [call EXCEPT ![c] = r]
                                 /\ r.steps # <<"watermark">> /\ r.set \in {0, call[c].set} \cup sets
  <2>1. CASE call' = [call EXCEPT ![c] = NoCall]
    BY <1>2, <2>1
  <2>2. CASE \E r \in CallType, f \in k.todo :
               call' = [call EXCEPT ![c] = r] /\ r.set = k.set /\ (r.steps = <<>> \/ r.steps = Steps(k.kind, f, files[f].status))
    <3>1. PICK r \in CallType, f \in k.todo :
               call' = [call EXCEPT ![c] = r] /\ r.set = k.set /\ (r.steps = <<>> \/ r.steps = Steps(k.kind, f, files[f].status))
      BY <2>2
    <3>2. f \in Files
      BY DEF CallType
    <3>3. Steps(k.kind, f, files[f].status) # <<"watermark">>
      BY <1>3, <3>2, StepsTyped
    <3> QED
      BY <1>2, <1>3, <3>1, <3>3
  <2> QED
    BY <1>1, <1>3, <2>1, <2>2, ContinueTyped
<1>4. CASE Settle(c)
  <2> DEFINE k == call[c]
             files == [card[k.set] EXCEPT ![k.file].status = k.to]
  <2>1. Continue(c, k, files) /\ k.file # NoFile
    BY <1>4 DEF Settle
  <2>2. k.kind \in Kinds /\ k.set \in Turns /\ k.file \in Files
    <3>1. k.kind # "none"
      BY <1>1, <2>1, Nothing DEF CallTyped
    <3> QED
      BY <1>1, <2>1, <3>1 DEF CallTyped, CallType
  <2>3. files \in [Files -> Entries]
    <3>1. k.to \in Statuses /\ card[k.set][k.file] \in Entries /\ card[k.set] \in [Files -> Entries]
      BY <1>1, <2>2 DEF CallType, CardTyped
    <3>2. [card[k.set][k.file] EXCEPT !.status = k.to] \in Entries
      BY <3>1 DEF Entries
    <3> QED
      BY <3>1, <3>2
  <2> HIDE DEF files
  <2> QED
    BY <1>1, <1>3, <2>1, <2>2, <2>3
<1>5. ASSUME NEW kind \in Kinds, StartCall(c, kind)
      PROVE  \E r \in CallType : /\ call' = [call EXCEPT ![c] = r]
                                 /\ r.steps # <<"watermark">> /\ r.set \in {0, call[c].set} \cup sets
  <2>1. PICK t \in sets : \E todo \in Todo(kind, t) :
          Continue(c, [NoCall EXCEPT !.kind = kind, !.set = t, !.todo = todo], card[t])
    BY <1>5 DEF StartCall
  <2>2. PICK todo \in Todo(kind, t) :
          Continue(c, [NoCall EXCEPT !.kind = kind, !.set = t, !.todo = todo], card[t])
    BY <2>1
  <2>3. t \in Turns /\ card[t] \in [Files -> Entries]
    BY <1>1 DEF CardTyped
  <2>4. todo \in SUBSET Files
    BY <1>5 DEF Todo, Kinds, Listed
  <2> DEFINE k == [NoCall EXCEPT !.kind = kind, !.set = t, !.todo = todo]
  <2>5. k \in CallType /\ k.kind = kind /\ k.set = t
    BY <2>3, <2>4, Nothing, ContentTypes DEF CallType
  <2>6. Continue(c, k, card[t])
    BY <2>2
  <2> HIDE DEF k
  <2> QED
    BY <1>3, <2>3, <2>5, <2>6
<1> QED
  BY <1>4, <1>5

LEMMA ContinueMarks ==
  ASSUME Typed, Watermarks, [Next]_vars, NEW c \in Clients, call[c].steps = <<>>,
         Settle(c) \/ \E kind \in Kinds : StartCall(c, kind)
  PROVE  Watermarks'
<1>1. UNCHANGED <<real, copyFile, tracked, clean>>
  BY DEF Settle, StartCall, fsVars
<1>2. PICK r \in CallType : call' = [call EXCEPT ![c] = r] /\ r.steps # <<"watermark">>
  BY CallGoesOn
<1>3. call \in [Clients -> CallType]
  BY DEF Typed, CallTyped
<1>4. r.steps # <<>> => Head(r.steps) # "watermark"
  BY <1>2, PlanTypes DEF CallType
<1> SUFFICES ASSUME NEW g \in Files PROVE WatermarkOK(g)'
  BY DEF Watermarks
<1>5. About(g, "watermark")' => About(g, "watermark")
  BY <1>2, <1>3, <1>4 DEF About
<1>6. About(g, "watermark") \/ About(g, "unregister") => About(g, "watermark")' \/ About(g, "unregister")'
  BY <1>2, <1>3 DEF About
<1> QED
  BY <1>1, <1>5, <1>6, WatermarkFrame DEF Watermarks

LEMMA QuietMarks ==
  ASSUME Watermarks, [Next]_vars, UNCHANGED <<real, copyFile, tracked, clean, call>>
  PROVE  Watermarks'
BY QuietFrame DEF Watermarks

LEMMA NextMarks == Typed /\ Watermarks /\ [Next]_vars => Watermarks'
<1> SUFFICES ASSUME Typed, Watermarks, [Next]_vars PROVE Watermarks'
  OBVIOUS
<1>0. FsTyped /\ TurnTyped /\ CountTyped /\ CallTyped
  BY DEF Typed
<1>1. CASE BeginTurn \/ EndTurn \/ ClearConversation
  BY <1>1, QuietMarks DEF BeginTurn, EndTurn, ClearConversation, fsVars
<1>2. CASE Restart
  <2>1. /\ \A f \in Files : f \notin tracked'
        /\ call' = [c \in Clients |-> NoCall]
    BY <1>2 DEF Restart
  <2>2. \A f \in Files : \A step : ~About(f, step)'
    BY <2>1 DEF About, NoCall
  <2> QED
    BY <2>1, <2>2 DEF Watermarks, WatermarkOK, Marked
<1>3. ASSUME NEW t \in Turns, CaptureBaseline(t) \/ RecordWrite(t) \/ Finalize(t) PROVE Watermarks'
  <2>1. UNCHANGED <<real, copyFile, tracked, clean, call>>
    BY <1>3 DEF CaptureBaseline, RecordWrite, Finalize, BaselineReady, CollectExternalChanges,
                CollectWorkingCopyChanges, Freeze, fsVars
  <2> QED
    BY <2>1, QuietMarks
<1>4. ASSUME NEW t \in Turns, FsWrite(t) PROVE Watermarks'
  <2>1. tool[t].file \in Files /\ Fresh \in Contents
    BY <1>0, <1>4, FreshIsContent DEF FsWrite, TurnTyped
  <2>2. TurnWrites(t, tool[t].file, Fresh) /\ call' = call
    BY <1>4 DEF FsWrite
  <2> QED
    BY <2>1, <2>2, TurnWritesMarks
<1>5. ASSUME NEW f \in Files, ShellChange(f) PROVE Watermarks'
  <2>1. turn \in Turns /\ call' = call
    BY <1>0, <1>5, ContentTypes DEF ShellChange, TurnTyped
  <2>2. PICK content \in {Fresh, Absent} : TurnWrites(turn, f, content)
    BY <1>5 DEF ShellChange
  <2>3. content \in Contents
    BY <1>0, <1>5, ContentTypes, FreshIsContent DEF ShellChange, InputWrite
  <2> QED
    BY <2>1, <2>2, <2>3, TurnWritesMarks
<1>6. ASSUME NEW f \in Files, Open(f) PROVE Watermarks'
  BY <1>6, OpenMarks
<1>7. ASSUME NEW f \in Files, Outside(f) PROVE Watermarks'
  BY <1>7, OutsideMarks
<1>8. ASSUME NEW f \in Files, Notice(f) \/ FsRead(f) PROVE Watermarks'
  BY <1>8, QuietMarks DEF Notice, FsRead, fsVars
<1>9. ASSUME NEW c \in Clients, CallStep(c) PROVE Watermarks'
  <2>1. call[c].file \in Files
    BY <1>0, <1>9 DEF CallStep, CallTyped, CallType
  <2> QED
    BY <1>9, <2>1, CallStepMarks
<1>10. ASSUME NEW c \in Clients, Settle(c) \/ \E kind \in Kinds : StartCall(c, kind) PROVE Watermarks'
  <2>1. call[c].steps = <<>>
    <3>1. CASE Settle(c)
      BY <3>1 DEF Settle
    <3>2. ASSUME NEW kind \in Kinds, StartCall(c, kind) PROVE call[c].steps = <<>>
      <4>1. call[c] = NoCall
        BY <3>2 DEF StartCall
      <4> QED
        BY <4>1 DEF NoCall
    <3> QED
      BY <1>10, <3>1, <3>2
  <2> QED
    BY <1>10, <2>1, ContinueMarks
<1>11. CASE UNCHANGED vars
  BY <1>11, QuietMarks DEF vars, fsVars
<1> QED
  BY <1>1, <1>2, <1>3, <1>4, <1>5, <1>6, <1>7, <1>8, <1>9, <1>10, <1>11 DEF Next, Review

LEMMA WatermarksHold == Spec => []Watermarks
<1>1. Init => Watermarks
  <2> SUFFICES ASSUME Init, NEW f \in Files PROVE WatermarkOK(f)
    BY DEF Watermarks
  <2>1. \A step : ~About(f, step)
    BY DEF Init, About, NoCall
  <2> QED
    BY <2>1 DEF Init, WatermarkOK, Marked
<1> QED
  BY <1>1, NextMarks, TypesHold, PTL DEF Spec

(* What the app drops without asking is saved: a sandbox that does not     *)
(* count as dirty holds what the user's file holds, as long as nobody      *)
(* wrote the file behind it and no review call is under way (ensure,       *)
(* promote, refreshDirtyFlag).                                             *)
THEOREM CleanSandboxesAreSaved == Spec => []CleanCopiesAreSaved
<1>1. Typed /\ Watermarks => CleanCopiesAreSaved
  <2> SUFFICES ASSUME Typed, Watermarks, NEW f \in tracked, ~Dirty(f), ~InHand(f, {}), ~Stray(f)
               PROVE  copyFile[f] = OrEmpty(real[f])
    BY DEF CleanCopiesAreSaved, Stray
  <2>1. f \in Files /\ copyFile[f] \in Contents
    BY DEF Typed, FsTyped
  <2>2. \A step : ~About(f, step)
    BY DEF InHand, About
  <2>3. clean[f] \in {Never, OrEmpty(real[f])}
    BY <2>1, <2>2 DEF Watermarks, WatermarkOK, Marked
  <2> QED
    BY <2>1, <2>3, ContentTypes DEF Dirty
<1> QED
  BY <1>1, TypesHold, WatermarksHold, PTL

-----------------------------------------------------------------------------
(* Unsaved edits *)

(* Opening a file, again or after a restart, keeps the sandbox there is;   *)
(* only a tool of a turn or a review call about the file replaces it.      *)
THEOREM UnsavedEditsSurvive == Spec => UnsavedEditsAreKept
<1> DEFINE Kept(f) == copyFile[f] \notin {Absent, real[f], Empty} /\ copyFile'[f] # copyFile[f] =>
              \/ \E t \in Turns : wrote'[t][f] # wrote[t][f] \/ wrote[t][f] = 2
              \/ \E c \in Clients : call[c].file = f
<1>1. ASSUME Typed, [Next]_vars, NEW f \in Files PROVE Kept(f)
  <2>0. FsTyped /\ TurnTyped /\ HistTyped
    BY <1>1 DEF Typed
  <2> SUFFICES ASSUME copyFile[f] # Absent, copyFile'[f] # copyFile[f]
               PROVE  \/ \E t \in Turns : wrote'[t][f] # wrote[t][f] \/ wrote[t][f] = 2
                      \/ \E c \in Clients : call[c].file = f
    OBVIOUS
  <2>1. ASSUME NEW t \in Turns, NEW g \in Files, NEW content, TurnWrites(t, g, content)
        PROVE  wrote'[t][f] # wrote[t][f] \/ wrote[t][f] = 2
    <3>1. g = f
      BY <2>0, <2>1 DEF TurnWrites, FsTyped
    <3>2. wrote' = [wrote EXCEPT ![t][f] = IF wrote[t][f] = 0 THEN 1 ELSE 2] /\ wrote[t][f] \in 0 .. 2
      BY <2>0, <2>1, <3>1 DEF TurnWrites, HistTyped
    <3>3. wrote'[t][f] = IF wrote[t][f] = 0 THEN 1 ELSE 2
      BY <2>0, <3>2 DEF HistTyped
    <3> QED
      BY <3>2, <3>3
  <2>2. ASSUME NEW g \in Files, Ensure(g) PROVE FALSE
    <3>1. UNCHANGED copyFile \/ (copyFile[g] = Absent /\ copyFile' = [copyFile EXCEPT ![g] = OrEmpty(real[g])])
      BY <2>2 DEF Ensure
    <3> QED
      BY <2>0, <3>1 DEF FsTyped
  <2>3. ASSUME NEW t \in Turns, FsWrite(t) PROVE \E u \in Turns : wrote'[u][f] # wrote[u][f] \/ wrote[u][f] = 2
    <3>1. tool[t].file \in Files /\ TurnWrites(t, tool[t].file, Fresh)
      BY <2>0, <2>3 DEF FsWrite, TurnTyped
    <3> QED
      BY <2>1, <3>1
  <2>4. ASSUME NEW g \in Files, ShellChange(g) PROVE \E u \in Turns : wrote'[u][f] # wrote[u][f] \/ wrote[u][f] = 2
    <3>1. turn \in Turns /\ \E content : TurnWrites(turn, g, content)
      BY <2>0, <2>4, ContentTypes DEF ShellChange, TurnTyped
    <3> QED
      BY <2>1, <3>1
  <2>5. ASSUME NEW c \in Clients, CallStep(c) PROVE call[c].file = f
    <3> DEFINE k == call[c]
               e == card[k.set][k.file]
    <3>1. Effect(Head(k.steps), k.file, e) /\ k.file \in Files /\ Head(k.steps) \in Words
      <4>1. Effect(Head(k.steps), k.file, e) /\ k.file # NoFile /\ k.steps # <<>>
        BY <2>5 DEF CallStep
      <4>2. k \in CallType
        BY <1>1 DEF Typed, CallTyped
      <4> QED
        BY <4>1, <4>2, PlanTypes DEF CallType
    <3> HIDE DEF e
    <3>2. (\E v : copyFile' = [copyFile EXCEPT ![k.file] = v]) \/ UNCHANGED copyFile
      <4>1. CASE Head(k.steps) \in {"promote", "restore", "original", "rewrite", "watermark", "unregister"}
        BY <3>1, <4>1 DEF Effect, SetReal
      <4>2. CASE Head(k.steps) \in {"remove", "refill", "edit"}
        BY <3>1, <4>2 DEF Effect, SetCopy
      <4>3. CASE Head(k.steps) = "seed"
        BY <2>2, <3>1, <4>3 DEF Effect
      <4> QED
        BY <3>1, <4>1, <4>2, <4>3 DEF Words
    <3> QED
      BY <2>0, <3>2 DEF FsTyped
  <2>6. ASSUME NEW g \in Files, Open(g) PROVE FALSE
    BY <2>2, <2>6 DEF Open
  <2>7. CASE BeginTurn \/ EndTurn \/ ClearConversation \/ Restart \/ UNCHANGED vars
    <3>1. copyFile' = copyFile
      <4>1. CASE BeginTurn \/ EndTurn \/ ClearConversation
        BY <4>1 DEF BeginTurn, EndTurn, ClearConversation, fsVars
      <4>3. CASE Restart
        BY <4>3 DEF Restart
      <4>2. CASE UNCHANGED vars
        BY <4>2 DEF vars, fsVars
      <4> QED
        BY <2>7, <4>1, <4>2, <4>3
    <3> QED
      BY <3>1
  <2>8. ASSUME NEW t \in Turns, CaptureBaseline(t) \/ RecordWrite(t) \/ Finalize(t) PROVE FALSE
    BY <2>8 DEF CaptureBaseline, RecordWrite, Finalize, BaselineReady, CollectExternalChanges,
                CollectWorkingCopyChanges, Freeze, fsVars
  <2>9. ASSUME NEW g \in Files, Notice(g) \/ FsRead(g) \/ Outside(g) PROVE FALSE
    BY <2>9, SMTT(30) DEF Notice, FsRead, Outside, fsVars
  <2>10. ASSUME NEW c \in Clients, Settle(c) \/ \E kind \in Kinds : StartCall(c, kind) PROVE FALSE
    BY <2>10 DEF Settle, StartCall, fsVars
  <2> QED
    BY <1>1, <2>3, <2>4, <2>5, <2>6, <2>7, <2>8, <2>9, <2>10 DEF Next, Review
<1>2. Typed /\ [Next]_vars => [\A f \in Files : Kept(f)]_vars
  BY <1>1
<1>3. Typed /\ [Next]_vars => \A f \in Files : Kept(f)
  BY <1>1
<1> HIDE DEF Kept
<1>4. Spec => [][\A f \in Files : Kept(f)]_vars
  BY <1>2, TypesHold, PTL DEF Spec
<1> QED
  BY <1>4, PTL DEF UnsavedEditsAreKept, Kept

-----------------------------------------------------------------------------
(* A turn that meets no other one *)

Base(c) == IF c = Absent THEN Never ELSE c
Walked == {"walk", "scan", "freeze"}

(* It runs or is being finalized, and no other turn did meanwhile. *)
Lone(t) == t \notin mixed /\ (turn = t \/ fin[t].stage # "none")

(* The maps of the store, and the tools at work, are all its own. *)
Sole(t) ==
  /\ t = begun /\ turn \in {0, t}
  /\ \A u \in Turns \ {t} : fin[u].stage = "none" /\ tool[u] = NoTool /\ u \notin capturing
  /\ workdir /\ sets = {}
  /\ turn = t => ready = t /\ fin[t].stage = "none"
  /\ fin[t].stage = "wait" => fin[t].waits = t
  /\ fin[t].stage \in Walked => t \notin capturing
  /\ fin[t].stage \in {"walk", "scan"} => fin[t].ok
  /\ fin[t].stage # "none" /\ fin[t].ok => tool[t] = NoTool

Busy(c) == call[c].kind # "none"
NoReview == \A c \in Clients : ~Busy(c)

(* Nobody else wrote f while t ran, and t had begun when its baseline was  *)
(* taken.                                                                  *)
Sound(t, f) == \A why \in {"outside", "late"} : <<t, f, why>> \notin flaws

(* The baseline is the folder as it was when the turn began, and what the  *)
(* walk found different is listed from then on.                            *)
Known(t, f) ==
  /\ start[t][f] \in Contents
  /\ Sound(t, f) /\ t \notin capturing => baseline[f] = Base(start[t][f])
  /\ Sound(t, f) /\ fin[t].ok =>
        /\ fin[t].stage \in Walked => fin[t].base[f] = Base(start[t][f])
        /\ fin[t].stage \in {"scan", "freeze"} /\ real[f] # start[t][f] => pending[f].type # "none"

Alone(t) == Sole(t) /\ NoReview /\ \A f \in Files : Known(t, f)
LoneTurns == \A t \in Turns : Lone(t) => Alone(t)

(* A step that leaves the turn and the store alone; what it writes, it     *)
(* tells.                                                                  *)
LEMMA LoneFrame ==
  ASSUME Typed, NEW t \in Turns, Alone(t), flaws \subseteq flaws', NoReview',
         UNCHANGED <<turn, begun, tool, pending, baseline, ready, workdir, capturing, fin, sets, start>>,
         \A f \in Files : real'[f] # real[f] => ~Sound(t, f)'
  PROVE  Alone(t)'
<1>1. Sole(t)'
  BY DEF Alone, Sole
<1>2. ASSUME NEW f \in Files PROVE Known(t, f)'
  <2>1. Known(t, f)
    BY DEF Alone
  <2>2. Sound(t, f)' => Sound(t, f) /\ real'[f] = real[f]
    BY DEF Sound
  <2> QED
    BY <2>1, <2>2 DEF Known
<1> QED
  BY <1>1, <1>2 DEF Alone

LEMMA BeginsAlone ==
  ASSUME Typed, BeginTurn
  PROVE  LoneTurns'
<1> SUFFICES ASSUME NEW t \in Turns, Lone(t)' PROVE Alone(t)'
  BY DEF LoneTurns
<1>1. begun + 1 \in Turns /\ turn' = begun + 1 /\ begun' = begun + 1 /\ FsTyped /\ StoreTyped
  BY Bounds DEF BeginTurn, Typed, TurnTyped, Turns
<1> DEFINE met == Turns \ Over
<1>2. mixed' = IF met = {} THEN {} ELSE (mixed \ Over) \cup met \cup {begun + 1}
  BY DEF BeginTurn
<1>3. t = begun + 1
  <2>1. CASE fin[t].stage # "none"
    <3>1. t \in met
      BY <2>1, Nothing DEF Over
    <3> QED
      BY <1>2, <3>1 DEF Lone
  <2>2. CASE fin[t].stage = "none"
    <3>1. fin' = fin
      BY DEF BeginTurn
    <3> QED
      BY <1>1, <2>2, <3>1 DEF Lone
  <2> QED
    BY <2>1, <2>2
<1>4. \A u \in Turns : u \in Over
  BY <1>2, <1>3 DEF Lone
<1>5. /\ \A u \in Turns : fin[u].stage = "none" /\ tool[u] = NoTool /\ u \notin capturing
      /\ \A c \in Clients : call[c].set \notin Turns
  BY <1>4, Nothing DEF Over
<1>6. Sole(t)'
  <2>1. /\ UNCHANGED <<tool, fin>> /\ ready' = t /\ capturing' = capturing \cup {t}
        /\ workdir' = TRUE /\ sets' = {}
    BY <1>3 DEF BeginTurn, DropCards
  <2> QED
    BY <1>1, <1>3, <1>5, <2>1 DEF Sole, Walked
<1>7. NoReview'
  BY <1>5 DEF BeginTurn, NoReview, Busy, Typed, CallTyped
<1>8. ASSUME NEW f \in Files PROVE Known(t, f)'
  <2>1. start' = [u \in Turns |-> IF u = begun + 1 THEN real ELSE IF u \in Over THEN NoBaseline ELSE start[u]]
        /\ fin' = fin /\ t \in capturing'
    BY <1>3 DEF BeginTurn
  <2>2. start'[t][f] = real[f] /\ real[f] \in Contents
    BY <1>1, <1>3, <2>1 DEF FsTyped
  <2>3. fin'[t].stage = "none"
    BY <1>5, <2>1
  <2> QED
    BY <2>1, <2>2, <2>3 DEF Known, Walked
<1> QED
  BY <1>6, <1>7, <1>8 DEF Alone

(* The turn ends: it waits for its own capture. *)
LEMMA EndsAlone ==
  ASSUME Typed, LoneTurns, [Next]_vars, EndTurn
  PROVE  LoneTurns'
<1> SUFFICES ASSUME NEW t \in Turns, Lone(t)' PROVE Alone(t)'
  BY DEF LoneTurns
<1>1. /\ turn # 0 /\ turn' = 0
      /\ UNCHANGED <<real, begun, tool, pending, baseline, ready, workdir, capturing, sets, call, start, flaws, mixed>>
  BY DEF EndTurn, fsVars, cardVars, histVars
<1>2. PICK ok \in BOOLEAN : /\ ok => tool[turn] = NoTool
                            /\ fin' = [fin EXCEPT ![turn] = [NoFin EXCEPT !.stage = "wait", !.waits = ready, !.ok = ok]]
  BY DEF EndTurn
<1>3. turn \in Turns /\ fin \in [Turns -> FinType] /\ t # 0
  BY <1>1, ContentTypes DEF Typed, TurnTyped, StoreTyped
<1>4. t = turn /\ Alone(t)
  <2>1. fin'[t].stage # "none" /\ t \notin mixed
    BY <1>1, <1>3 DEF Lone
  <2>2. t # turn => fin'[t] = fin[t]
    BY <1>2, <1>3
  <2>3. Lone(t)
    BY <2>1, <2>2 DEF Lone
  <2> QED
    BY <1>1, <2>3 DEF LoneTurns, Alone, Sole
<1>5. fin'[t].stage = "wait" /\ fin'[t].waits = ready /\ fin'[t].ok = ok
  BY <1>2, <1>3, <1>4 DEF NoFin
<1>6. \A u \in Turns \ {t} : fin'[u] = fin[u]
  BY <1>2, <1>3, <1>4
<1>7. Sole(t)'
  BY <1>1, <1>2, <1>4, <1>5, <1>6 DEF Alone, Sole, Walked
<1>8. NoReview'
  BY <1>1, <1>4 DEF Alone, NoReview, Busy
<1>9. ASSUME NEW f \in Files PROVE Known(t, f)'
  <2>1. Known(t, f) /\ (Sound(t, f)' => Sound(t, f))
    BY <1>1, <1>4 DEF Alone, Sound
  <2> QED
    BY <1>1, <1>5, <2>1 DEF Known, Walked
<1> QED
  BY <1>7, <1>8, <1>9 DEF Alone

(* captureBaseline and the steps of finalizeTurn. *)
LEMMA FinalizesAlone ==
  ASSUME Typed, LoneTurns, [Next]_vars, NEW u \in Turns, CaptureBaseline(u) \/ Finalize(u)
  PROVE  LoneTurns'
<1> SUFFICES ASSUME NEW t \in Turns, Lone(t)' PROVE Alone(t)'
  BY DEF LoneTurns
<1>0. fin \in [Turns -> FinType] /\ real \in [Files -> Contents]
  BY DEF Typed, StoreTyped, FsTyped
<1>1. UNCHANGED <<real, turn, begun, tool, call, start, mixed>>
  BY DEF CaptureBaseline, Finalize, BaselineReady, CollectExternalChanges, CollectWorkingCopyChanges, Freeze,
         fsVars, turnVars, cardVars, histVars
<1>2. CASE CaptureBaseline(u)
  <2>1. /\ u \in capturing /\ capturing' = capturing \ {u} /\ UNCHANGED <<pending, ready, workdir, fin, sets>>
        /\ baseline' = [f \in Files |-> IF real[f] = Absent THEN Never ELSE real[f]]
    BY <1>2 DEF CaptureBaseline, cardVars
  <2>2. Alone(t)
    BY <1>1, <2>1 DEF Lone, LoneTurns
  <2>3. u = t
    BY <2>1, <2>2 DEF Alone, Sole
  <2>4. Sole(t)' /\ NoReview'
    BY <1>1, <2>1, <2>2 DEF Alone, Sole, NoReview, Busy
  <2>5. ASSUME NEW f \in Files PROVE Known(t, f)'
    <3>1. Sound(t, f)' => real[f] = start[t][f] /\ Sound(t, f)
      <4>1. flaws' = flaws \cup {<<t, g, "late">> : g \in {h \in Files : real[h] # start[t][h]}}
        BY <1>2, <2>3 DEF CaptureBaseline
      <4>2. real[f] # start[t][f] => <<t, f, "late">> \in flaws'
        BY <4>1
      <4> QED
        BY <4>1, <4>2 DEF Sound
    <3>2. baseline'[f] = Base(real[f])
      BY <2>1 DEF Base
    <3>3. Known(t, f)
      BY <2>2 DEF Alone
    <3> QED
      BY <1>1, <2>1, <2>3, <3>1, <3>2, <3>3 DEF Known
  <2> QED
    BY <2>4, <2>5 DEF Alone
<1>3. CASE Finalize(u)
  <2>1. fin[u].stage # "none" /\ fin[u].stage \in {"wait"} \cup Walked
    BY <1>3 DEF Finalize, BaselineReady, CollectExternalChanges, CollectWorkingCopyChanges, Freeze, Walked
  <2>2. \A w \in Turns \ {u} : fin'[w] = fin[w]
    BY <1>0, <1>3 DEF Finalize, BaselineReady, CollectExternalChanges, CollectWorkingCopyChanges, Freeze
  <2>3. Lone(t)
    BY <1>1, <2>1, <2>2 DEF Lone
  <2>4. Alone(t)
    BY <2>3 DEF LoneTurns
  <2>5. u = t
    BY <2>1, <2>4 DEF Alone, Sole
  <2>6. turn = 0
    BY <2>1, <2>4, <2>5 DEF Alone, Sole
  <2>7. CASE BaselineReady(t)
    <3>1. /\ fin[t].stage = "wait" /\ fin[t].waits \notin capturing
          /\ UNCHANGED <<pending, baseline, ready, workdir, capturing, sets, flaws>>
      BY <2>7 DEF BaselineReady, cardVars, histVars
    <3>2. workdir /\ t \notin capturing
      BY <2>4, <3>1 DEF Alone, Sole
    <3>3. fin' = [fin EXCEPT ![t] = [fin[t] EXCEPT !.stage = IF workdir /\ fin[t].ok THEN "walk" ELSE "freeze",
                                                   !.base = baseline]]
      BY <1>0, <2>7 DEF BaselineReady
    <3>4. /\ fin'[t].stage = (IF fin[t].ok THEN "walk" ELSE "freeze") /\ fin'[t].base = baseline
          /\ fin'[t].ok = fin[t].ok
      BY <1>0, <3>2, <3>3 DEF FinType
    <3>5. Sole(t)' /\ NoReview'
      BY <1>1, <2>2, <2>4, <2>5, <2>6, <3>1, <3>2, <3>4 DEF Alone, Sole, NoReview, Busy, Walked
    <3>6. ASSUME NEW f \in Files PROVE Known(t, f)'
      <4>1. Known(t, f) /\ (Sound(t, f)' => Sound(t, f))
        BY <2>4, <3>1 DEF Alone, Sound
      <4> QED
        BY <1>1, <3>1, <3>2, <3>4, <4>1 DEF Known
    <3> QED
      BY <3>5, <3>6 DEF Alone
  <2>8. CASE CollectExternalChanges(t)
    <3>1. /\ fin[t].stage = "walk" /\ UNCHANGED <<baseline, ready, workdir, capturing, sets, flaws>>
          /\ fin' = [fin EXCEPT ![t] = [fin[t] EXCEPT !.stage = "scan"]]
      BY <1>0, <2>8 DEF CollectExternalChanges, cardVars, histVars
    <3>2. fin'[t].stage = "scan" /\ fin'[t].base = fin[t].base /\ fin'[t].ok = fin[t].ok
      BY <1>0, <3>1 DEF FinType
    <3>3. Sole(t)' /\ NoReview'
      BY <1>1, <2>2, <2>4, <2>5, <2>6, <3>1, <3>2 DEF Alone, Sole, NoReview, Busy, Walked
    <3>4. ASSUME NEW f \in Files PROVE Known(t, f)'
      <4>1. Known(t, f) /\ (Sound(t, f)' => Sound(t, f)) /\ fin[t].stage = "walk"
        BY <2>4, <3>1 DEF Alone, Sound
      <4>2. ASSUME Sound(t, f), fin[t].ok, real[f] # start[t][f] PROVE pending'[f].type # "none"
        <5> DEFINE e == External(f, fin[t].base[f])
        <5>1. pending'[f] = IF pending[f].type # "none" \/ e[1] = "none" THEN pending[f]
                            ELSE [type |-> e[1], orig |-> e[2], new |-> e[3], status |-> "pending"]
          BY <2>8 DEF CollectExternalChanges
        <5>2. fin[t].base[f] = Base(start[t][f]) /\ start[t][f] \in Contents
          BY <4>1, <4>2 DEF Known, Walked
        <5>3. e[1] # "none"
          BY <4>2, <5>2, ContentTypes DEF External, Base
        <5> HIDE DEF e
        <5> QED
          BY <5>1, <5>3
      <4> QED
        BY <1>1, <3>1, <3>2, <4>1, <4>2 DEF Known, Walked
    <3> QED
      BY <3>3, <3>4 DEF Alone
  <2>9. CASE CollectWorkingCopyChanges(t)
    <3>1. /\ fin[t].stage = "scan" /\ UNCHANGED <<baseline, ready, workdir, capturing, sets, flaws>>
          /\ fin' = [fin EXCEPT ![t] = [fin[t] EXCEPT !.stage = "freeze"]]
      BY <1>0, <2>9 DEF CollectWorkingCopyChanges, cardVars, histVars
    <3>2. fin'[t].stage = "freeze" /\ fin'[t].base = fin[t].base /\ fin'[t].ok = fin[t].ok
      BY <1>0, <3>1 DEF FinType
    <3>3. Sole(t)' /\ NoReview'
      BY <1>1, <2>2, <2>4, <2>5, <2>6, <3>1, <3>2 DEF Alone, Sole, NoReview, Busy, Walked
    <3>4. ASSUME NEW f \in Files PROVE Known(t, f)'
      <4>1. Known(t, f) /\ (Sound(t, f)' => Sound(t, f))
        BY <2>4, <3>1 DEF Alone, Sound
      <4>2. pending[f].type # "none" => pending'[f].type # "none"
        BY <2>9 DEF CollectWorkingCopyChanges
      <4> QED
        BY <1>1, <3>1, <3>2, <4>1, <4>2 DEF Known, Walked
    <3> QED
      BY <3>3, <3>4 DEF Alone
  <2>10. CASE Freeze(t)
    <3>1. fin'[t].stage = "none"
      BY <1>0, <2>10, Nothing DEF Freeze
    <3> QED
      BY <1>1, <2>6, <3>1, ContentTypes DEF Lone
  <2> QED
    BY <1>3, <2>5, <2>7, <2>8, <2>9, <2>10 DEF Finalize
<1> QED
  BY <1>2, <1>3

(* Its tools, which only the turn itself runs. *)
LEMMA WorksAlone ==
  ASSUME Typed, LoneTurns, [Next]_vars,
         \/ \E u \in Turns : FsWrite(u) \/ RecordWrite(u)
         \/ \E f \in Files : FsRead(f) \/ ShellChange(f)
  PROVE  LoneTurns'
<1> SUFFICES ASSUME NEW t \in Turns, Lone(t)' PROVE Alone(t)'
  BY DEF LoneTurns
<1>1. UNCHANGED <<turn, begun, baseline, ready, workdir, capturing, fin, sets, call, start, mixed>>
  BY DEF FsWrite, RecordWrite, FsRead, ShellChange, turnVars, storeVars, cardVars, histVars
<1>2. Alone(t)
  BY <1>1 DEF Lone, LoneTurns
<1>3. \A u \in Turns \ {t} : tool'[u] = tool[u]
  <2>1. ASSUME NEW u \in Turns, FsWrite(u) \/ RecordWrite(u) PROVE u = t
    <3>1. tool[u] # NoTool
      BY <2>1, Nothing DEF FsWrite, RecordWrite
    <3> QED
      BY <1>2, <3>1 DEF Alone, Sole
  <2>2. ASSUME NEW f \in Files, FsRead(f) PROVE turn = t
    BY <1>2, <2>2 DEF FsRead, Alone, Sole
  <2>3. tool \in [Turns -> ToolType]
    BY DEF Typed, TurnTyped
  <2>4. ASSUME NEW u \in Turns, FsWrite(u) PROVE \A v \in Turns \ {t} : tool'[v] = tool[v]
    BY <2>1, <2>3, <2>4 DEF FsWrite
  <2>5. ASSUME NEW u \in Turns, RecordWrite(u) PROVE \A v \in Turns \ {t} : tool'[v] = tool[v]
    BY <2>1, <2>3, <2>5 DEF RecordWrite
  <2>6. ASSUME NEW f \in Files, FsRead(f) PROVE \A v \in Turns \ {t} : tool'[v] = tool[v]
    BY <2>2, <2>3, <2>6 DEF FsRead
  <2>7. ASSUME NEW f \in Files, ShellChange(f) PROVE tool' = tool
    BY <2>7 DEF ShellChange, turnVars
  <2> QED
    BY <2>4, <2>5, <2>6, <2>7
<1>4. ~(fin[t].stage # "none" /\ fin[t].ok)
  <2> SUFFICES ASSUME fin[t].stage # "none", fin[t].ok PROVE FALSE
    OBVIOUS
  <2>1. turn = 0 /\ tool[t] = NoTool
    BY <1>2 DEF Alone, Sole
  <2>2. \A u \in Turns : tool[u] = NoTool
    BY <1>2, <2>1 DEF Alone, Sole
  <2>3. \A u \in Turns : ~FsWrite(u) /\ ~RecordWrite(u)
    BY <2>2, Nothing DEF FsWrite, RecordWrite
  <2> QED
    BY <2>1, <2>3 DEF FsRead, ShellChange
<1>5. Sole(t)'
  BY <1>1, <1>2, <1>3, <1>4 DEF Alone, Sole
<1>6. NoReview'
  BY <1>1, <1>2 DEF Alone, NoReview, Busy
<1>7. ~BeginTurn
  BY <1>1 DEF BeginTurn, Typed, TurnTyped
<1>8. ASSUME NEW f \in Files PROVE Known(t, f)'
  <2>1. Known(t, f) /\ (Sound(t, f)' => Sound(t, f))
    BY <1>2, <1>7, FlawsStay DEF Alone, Sound
  <2> QED
    BY <1>1, <1>4, <2>1 DEF Known, Walked
<1> QED
  BY <1>5, <1>6, <1>8 DEF Alone

(* All that goes on around it. *)
LEMMA AroundAlone ==
  ASSUME Typed, LoneTurns, [Next]_vars,
         \/ \E f \in Files : Open(f) \/ Notice(f) \/ Outside(f)
         \/ \E c \in Clients : CallStep(c) \/ Settle(c) \/ \E kind \in Kinds : StartCall(c, kind)
         \/ UNCHANGED vars
  PROVE  LoneTurns'
<1> SUFFICES ASSUME NEW t \in Turns, Lone(t)' PROVE Alone(t)'
  BY DEF LoneTurns
<1>1. UNCHANGED <<turn, begun, tool, pending, baseline, ready, workdir, capturing, fin, sets, start, mixed>>
  <2>1. CASE \E f \in Files : Open(f) \/ Notice(f) \/ Outside(f)
    BY <2>1, SMTT(30) DEF Open, Notice, Outside, turnVars, storeVars, cardVars, histVars
  <2>2. CASE \E c \in Clients : CallStep(c) \/ Settle(c) \/ \E kind \in Kinds : StartCall(c, kind)
    BY <2>2 DEF CallStep, Settle, StartCall, turnVars, storeVars, histVars
  <2>3. CASE UNCHANGED vars
    BY <2>3 DEF vars, turnVars, storeVars, cardVars, histVars
  <2> QED
    BY <2>1, <2>2, <2>3
<1>2. Alone(t)
  BY <1>1 DEF Lone, LoneTurns
<1>3. ~BeginTurn
  BY <1>1 DEF BeginTurn, Typed, TurnTyped
<1>4. flaws \subseteq flaws'
  BY <1>3, FlawsStay
<1>5. FsTyped /\ CallTyped
  BY DEF Typed
<1>6. CASE \E f \in Files : Open(f) \/ Notice(f)
  <2>1. real' = real /\ call' = call
    BY <1>6 DEF Open, Notice
  <2> QED
    BY <1>1, <1>2, <1>4, <2>1, LoneFrame DEF Alone, NoReview, Busy
<1>7. ASSUME NEW g \in Files, Outside(g) PROVE Alone(t)'
  <2>1. call' = call /\ \E content : real' = [real EXCEPT ![g] = content]
    BY <1>7 DEF Outside
  <2>2. <<t, g, "outside">> \in flaws'
    <3>1. t <= begun
      BY <1>2 DEF Alone, Sole, Turns
    <3> QED
      BY <1>7, <3>1 DEF Outside, Flaw
  <2>3. \A f \in Files : real'[f] # real[f] => f = g
    BY <1>5, <2>1 DEF FsTyped
  <2>4. \A f \in Files : real'[f] # real[f] => ~Sound(t, f)'
    BY <2>2, <2>3 DEF Sound
  <2> QED
    BY <1>1, <1>2, <1>4, <2>1, <2>4, LoneFrame DEF Alone, NoReview, Busy
<1>8. ASSUME NEW c \in Clients, CallStep(c) \/ Settle(c) PROVE FALSE
  <2>1. call[c] = NoCall
    BY <1>2, <1>5 DEF Alone, NoReview, Busy, CallTyped
  <2> QED
    BY <1>8, <2>1, Nothing DEF CallStep, Settle
<1>9. ASSUME NEW c \in Clients, NEW kind \in Kinds, StartCall(c, kind) PROVE FALSE
  BY <1>2, <1>9 DEF Alone, Sole, StartCall
<1>10. CASE UNCHANGED vars
  <2>1. real' = real /\ call' = call
    BY <1>10 DEF vars, fsVars
  <2> QED
    BY <1>1, <1>2, <1>4, <2>1, LoneFrame DEF Alone, NoReview, Busy
<1> QED
  BY <1>6, <1>7, <1>8, <1>9, <1>10

LEMMA NextAlone == Typed /\ LoneTurns /\ [Next]_vars => LoneTurns'
<1> SUFFICES ASSUME Typed, LoneTurns, [Next]_vars PROVE LoneTurns'
  OBVIOUS
<1>1. CASE ClearConversation
  <2>1. \A t \in Turns : ~Lone(t)'
    <3> SUFFICES ASSUME NEW t \in Turns, Lone(t)' PROVE FALSE
      OBVIOUS
    <3>1. turn' = 0 /\ fin' = fin /\ mixed' = mixed \cup Finalizing
      BY <1>1 DEF ClearConversation, turnVars
    <3> QED
      BY <3>1, ContentTypes DEF Lone, Finalizing
  <2> QED
    BY <2>1 DEF LoneTurns
<1>2. CASE Restart
  <2>1. turn' = 0 /\ \A t \in Turns : fin'[t].stage = "none"
    BY <1>2, Nothing DEF Restart
  <2> QED
    BY <2>1, ContentTypes DEF LoneTurns, Lone
<1>3. CASE BeginTurn
  BY <1>3, BeginsAlone
<1>4. CASE EndTurn
  BY <1>4, EndsAlone
<1>5. ASSUME NEW t \in Turns, CaptureBaseline(t) \/ Finalize(t) PROVE LoneTurns'
  BY <1>5, FinalizesAlone
<1>6. CASE \/ \E u \in Turns : FsWrite(u) \/ RecordWrite(u)
           \/ \E f \in Files : FsRead(f) \/ ShellChange(f)
  BY <1>6, WorksAlone
<1>7. CASE \/ \E f \in Files : Open(f) \/ Notice(f) \/ Outside(f)
           \/ \E c \in Clients : CallStep(c) \/ Settle(c) \/ \E kind \in Kinds : StartCall(c, kind)
           \/ UNCHANGED vars
  BY <1>7, AroundAlone
<1> QED
  BY <1>1, <1>2, <1>3, <1>4, <1>5, <1>6, <1>7 DEF Next, Review

LEMMA LoneTurnsHold == Spec => []LoneTurns
<1>1. Init => LoneTurns
  BY ContentTypes, Nothing DEF Init, LoneTurns, Lone
<1> QED
  BY <1>1, NextAlone, TypesHold, PTL DEF Spec

(* A turn's change set lists every file the turn changed, whoever of its   *)
(* tools did: the walk of finalizeTurn compares the folder with the        *)
(* baseline, and from the walk to the freeze nothing leaves the list       *)
(* (collectExternalChanges, upsertPending).                                *)
THEOREM ChangesAreListed == Spec => []EveryChangeIsListed
<1>1. Init => EveryChangeIsListed
  BY DEF Init, EveryChangeIsListed
<1>2. Typed /\ LoneTurns /\ EveryChangeIsListed /\ [Next]_vars => EveryChangeIsListed'
  <2> SUFFICES ASSUME Typed, LoneTurns, missed = {}, [Next]_vars PROVE missed' = {}
    BY DEF EveryChangeIsListed
  <2>1. ASSUME NEW t \in Turns, Freeze(t) PROVE missed' = {}
    <3> DEFINE gone == {g \in Files \ Listed(pending) :
                          fin[t].ok /\ t \notin mixed /\ Plain(t, g) /\ real[g] # start[t][g]}
    <3>1. ASSUME NEW g \in gone PROVE FALSE
      <4>1. g \in Files /\ g \notin Listed(pending) /\ fin[t].ok /\ t \notin mixed /\ Plain(t, g) /\ real[g] # start[t][g]
        OBVIOUS
      <4>2. fin[t].stage = "freeze"
        BY <2>1 DEF Freeze
      <4>3. Known(t, g) /\ Sound(t, g)
        BY <4>1, <4>2 DEF LoneTurns, Lone, Alone, Plain, Sound
      <4> QED
        BY <4>1, <4>2, <4>3 DEF Known, Listed
    <3>2. missed' = missed \cup {<<t, f>> : f \in gone}
      BY <2>1 DEF Freeze
    <3> HIDE DEF gone
    <3> QED
      BY <3>1, <3>2
  <2>2. ASSUME NEW t \in Turns, CaptureBaseline(t) \/ FsWrite(t) \/ RecordWrite(t) \/ BaselineReady(t)
                                \/ CollectExternalChanges(t) \/ CollectWorkingCopyChanges(t)
        PROVE  missed' = missed
    BY <2>2 DEF CaptureBaseline, FsWrite, RecordWrite, BaselineReady, CollectExternalChanges,
                CollectWorkingCopyChanges, histVars
  <2>3. ASSUME NEW f \in Files, Open(f) \/ Notice(f) \/ ShellChange(f) \/ FsRead(f) \/ Outside(f)
        PROVE  missed' = missed
    BY <2>3, SMTT(30) DEF Open, Notice, ShellChange, FsRead, Outside, histVars
  <2>4. ASSUME NEW c \in Clients, CallStep(c) \/ Settle(c) \/ \E kind \in Kinds : StartCall(c, kind)
        PROVE  missed' = missed
    BY <2>4 DEF CallStep, Settle, StartCall, histVars
  <2>5. CASE BeginTurn \/ EndTurn \/ ClearConversation
    BY <2>5 DEF BeginTurn, EndTurn, ClearConversation, histVars
  <2>6. CASE Restart
    BY <2>6 DEF Restart
  <2>7. CASE UNCHANGED vars
    BY <2>7 DEF vars, histVars
  <2> QED
    BY <2>1, <2>2, <2>3, <2>4, <2>5, <2>6, <2>7 DEF Next, Review, Finalize
<1> QED
  BY <1>1, <1>2, LoneTurnsHold, TypesHold, PTL DEF Spec

-----------------------------------------------------------------------------
(* A turn whose change set is under review *)

(* Its set is shown, or a call about it is not over. *)
Shown(t) == t \notin mixed /\ (t \in sets \/ \E c \in Clients : call[c].set = t)
OneReview == \A c, d \in Clients : Busy(c) /\ Busy(d) => c = d

(* Nothing works but the calls about it; where they have not disturbed     *)
(* each other, there is one at a time.                                     *)
Put(t) ==
  /\ t = begun /\ turn = 0 /\ sets \subseteq {t}
  /\ \A u \in Turns : fin[u].stage = "none" /\ tool[u] = NoTool
  /\ capturing = {}
  /\ \A c \in Clients : Busy(c) => call[c].set = t
  /\ \A f \in Files : start[t][f] \in Contents
  /\ \A f \in Files : <<t, f, "outside">> \notin flaws => OneReview
Puts == \A t \in Turns : Shown(t) => Put(t)

LEMMA BusyCalls ==
  ASSUME Typed, NEW c \in Clients
  PROVE  /\ call[c] \in CallType
         /\ ~Busy(c) => call[c] = NoCall /\ call[c].file = NoFile /\ call[c].steps = <<>> /\ call[c].set = 0
         /\ Busy(c) => call[c].kind \in Kinds /\ call[c].set \in Turns
         /\ call[c].file # NoFile => Busy(c) /\ call[c].file \in Files
<1>1. CallTyped /\ call[c] \in CallType
  BY DEF Typed, CallTyped
<1>2. ~Busy(c) => call[c] = NoCall /\ NoCall.steps = <<>>
  BY <1>1 DEF CallTyped, Busy, NoCall
<1>3. ~Busy(c) => call[c] = NoCall /\ call[c].file = NoFile /\ call[c].steps = <<>> /\ call[c].set = 0
  BY <1>2, Nothing
<1>4. call[c].kind \in Kinds \cup {"none"} /\ call[c].file \in Files \cup {NoFile}
  BY <1>1 DEF CallType
<1> QED
  BY <1>1, <1>3, <1>4 DEF CallTyped, Busy

(* What can happen meanwhile. *)
LEMMA PutSteps ==
  ASSUME NEW t \in Turns, Put(t), [Next]_vars
  PROVE  \/ BeginTurn \/ ClearConversation \/ Restart
         \/ \E f \in Files : Open(f) \/ Notice(f) \/ Outside(f)
         \/ \E c \in Clients : CallStep(c) \/ Settle(c) \/ \E kind \in Kinds : StartCall(c, kind)
         \/ UNCHANGED vars
<1>1. ~EndTurn /\ \A f \in Files : ~ShellChange(f) /\ ~FsRead(f)
  BY DEF Put, EndTurn, ShellChange, FsRead
<1>2. \A u \in Turns : ~CaptureBaseline(u) /\ ~FsWrite(u) /\ ~RecordWrite(u) /\ ~Finalize(u)
  BY Nothing DEF Put, CaptureBaseline, FsWrite, RecordWrite, Finalize, BaselineReady, CollectExternalChanges,
                 CollectWorkingCopyChanges, Freeze
<1> QED
  BY <1>1, <1>2 DEF Next, Review

(* A set is shown by the freeze that makes it, and by no other step. *)
LEMMA ShownBefore ==
  ASSUME Typed, [Next]_vars, NEW t \in Turns, Shown(t)'
  PROVE  /\ ~BeginTurn /\ ~Restart
         /\ Freeze(t) \/ Shown(t)
<1>0. CallTyped
  BY DEF Typed
<1>1. ~BeginTurn
  <2> SUFFICES ASSUME BeginTurn PROVE FALSE
    OBVIOUS
  <2>1. sets' = {} /\ call' = call
    BY DEF BeginTurn, DropCards
  <2>2. t \notin Over
    BY <2>1 DEF Shown, Over
  <2> DEFINE met == Turns \ Over
  <2>3. mixed' = IF met = {} THEN {} ELSE (mixed \ Over) \cup met \cup {begun + 1}
    BY DEF BeginTurn
  <2> QED
    BY <2>2, <2>3 DEF Shown
<1>2. ~Restart
  <2> SUFFICES ASSUME Restart PROVE FALSE
    OBVIOUS
  <2>1. sets' = {} /\ call' = [c \in Clients |-> NoCall]
    BY DEF Restart
  <2> QED
    BY <2>1, Nothing, ContentTypes DEF Shown
<1>3. t \notin mixed
  BY <1>1, FlawsStay DEF Shown
<1>4. CASE \E u \in Turns : Freeze(u)
  <2>1. PICK u \in Turns : Freeze(u)
    BY <1>4
  <2>2. sets' \subseteq sets \cup {u} /\ call' = call
    BY <2>1 DEF Freeze
  <2> QED
    BY <1>1, <1>2, <1>3, <2>1, <2>2 DEF Shown
<1>5. CASE \E c \in Clients : Settle(c) \/ \E kind \in Kinds : StartCall(c, kind)
  <2>1. PICK c \in Clients : Settle(c) \/ \E kind \in Kinds : StartCall(c, kind)
    BY <1>5
  <2>2. PICK r \in CallType : call' = [call EXCEPT ![c] = r] /\ r.set \in {0, call[c].set} \cup sets
    BY <2>1, CallGoesOn
  <2>3. sets' = sets
    BY <2>1 DEF Settle, StartCall
  <2>4. t # 0
    BY ContentTypes
  <2>5. t \notin sets => \E d \in Clients : call[d].set = t
    BY <1>0, <2>2, <2>3, <2>4 DEF Shown, CallTyped
  <2> QED
    BY <1>1, <1>2, <1>3, <2>5 DEF Shown
<1>6. ASSUME NEW c \in Clients, CallStep(c) PROVE Shown(t)
  <2>1. /\ call' = [call EXCEPT ![c] = [call[c] EXCEPT !.steps = Tail(call[c].steps)]]
        /\ sets' = sets
    BY <1>6 DEF CallStep
  <2>2. \A d \in Clients : call'[d].set = call[d].set
    BY <1>0, <2>1 DEF CallTyped, CallType
  <2> QED
    BY <1>3, <2>1, <2>2 DEF Shown
<1>7. sets' \subseteq sets /\ call' = call => Shown(t)
  BY <1>3 DEF Shown
<1>8. CASE EndTurn \/ ClearConversation
  BY <1>1, <1>2, <1>7, <1>8 DEF EndTurn, ClearConversation, cardVars
<1>9. ASSUME NEW u \in Turns, CaptureBaseline(u) \/ FsWrite(u) \/ RecordWrite(u) \/ BaselineReady(u)
                              \/ CollectExternalChanges(u) \/ CollectWorkingCopyChanges(u)
      PROVE  Shown(t)
  BY <1>7, <1>9 DEF CaptureBaseline, FsWrite, RecordWrite, BaselineReady, CollectExternalChanges,
                    CollectWorkingCopyChanges, cardVars
<1>10. ASSUME NEW f \in Files, Open(f) \/ Notice(f) \/ ShellChange(f) \/ FsRead(f) \/ Outside(f)
       PROVE  Shown(t)
  BY <1>7, <1>10 DEF Open, Notice, ShellChange, FsRead, Outside, cardVars
<1>11. CASE UNCHANGED vars
  BY <1>1, <1>2, <1>7, <1>11 DEF vars, cardVars
<1> QED
  BY <1>1, <1>2, <1>4, <1>5, <1>6, <1>8, <1>9, <1>10, <1>11 DEF Next, Review, Finalize

(* Frozen alone, it is alone under review. *)
LEMMA FreezePuts ==
  ASSUME Typed, LoneTurns, NEW t \in Turns, Freeze(t), Shown(t)', ~Shown(t)
  PROVE  /\ Lone(t) /\ Alone(t) /\ fin[t].ok /\ fin[t].stage = "freeze" /\ NoReview
         /\ card' = [card EXCEPT ![t] = pending] /\ UNCHANGED <<fsVars, call, flaws, mixed, start, wrote>>
         /\ Put(t)'
<1>1. /\ fin[t].stage = "freeze" /\ fin' = [fin EXCEPT ![t] = NoFin]
      /\ UNCHANGED <<fsVars, turnVars, capturing, call, flaws, mixed, start, wrote>>
  BY DEF Freeze
<1>2. t \in sets' \ sets
  BY <1>1 DEF Shown
<1>3. fin[t].ok /\ card' = [card EXCEPT ![t] = pending] /\ sets' = sets \cup {t}
  BY <1>2 DEF Freeze
<1>4. Lone(t)
  BY <1>1 DEF Lone, Shown
<1>5. Alone(t)
  BY <1>4 DEF LoneTurns
<1>6. NoReview /\ NoReview'
  BY <1>1, <1>5 DEF Alone, NoReview, Busy
<1>7. turn = 0 /\ t = begun /\ sets = {} /\ tool[t] = NoTool /\ t \notin capturing
  BY <1>1, <1>3, <1>5 DEF Alone, Sole, Walked
<1>8. capturing = {}
  BY <1>5, <1>7 DEF Alone, Sole, Typed, StoreTyped
<1>9. \A u \in Turns : fin'[u].stage = "none" /\ tool[u] = NoTool
  BY <1>1, <1>5, <1>7, Nothing DEF Alone, Sole, Typed, StoreTyped
<1>10. \A f \in Files : start[t][f] \in Contents
  BY <1>5 DEF Alone, Known
<1>11. Put(t)'
  BY <1>1, <1>3, <1>6, <1>7, <1>8, <1>9, <1>10 DEF Put, NoReview, OneReview, turnVars
<1> QED
  BY <1>1, <1>3, <1>4, <1>5, <1>6, <1>11

LEMMA NextPuts == Typed /\ Typed' /\ LoneTurns /\ Puts /\ [Next]_vars => Puts'
<1> SUFFICES ASSUME Typed, Typed', LoneTurns, Puts, [Next]_vars, NEW t \in Turns, Shown(t)' PROVE Put(t)'
  BY DEF Puts
<1>1. CASE ~Shown(t)
  BY <1>1, ShownBefore, FreezePuts
<1>2. CASE Shown(t)
  <2>0. Put(t) /\ ~BeginTurn /\ ~Restart /\ CallTyped /\ CallTyped'
    BY <1>2, ShownBefore DEF Puts, Typed
  <2>1. flaws \subseteq flaws'
    BY <2>0, FlawsStay
  <2>2. UNCHANGED <<turn, begun, fin, tool, capturing, call, start>> /\ sets' \subseteq sets => Put(t)'
    BY <2>0, <2>1 DEF Put, Busy, OneReview
  <2>3. CASE ClearConversation
    BY <2>2, <2>3 DEF ClearConversation, turnVars
  <2>4. CASE \E f \in Files : Open(f) \/ Notice(f) \/ Outside(f)
    BY <2>2, <2>4 DEF Open, Notice, Outside, turnVars, storeVars, cardVars, histVars
  <2>5. ASSUME NEW c \in Clients, CallStep(c) PROVE Put(t)'
    <3>1. /\ call' = [call EXCEPT ![c] = [call[c] EXCEPT !.steps = Tail(call[c].steps)]]
          /\ UNCHANGED <<turn, begun, fin, tool, capturing, sets, start>>
      BY <2>5 DEF CallStep, turnVars, storeVars
    <3>2. \A d \in Clients : call'[d].set = call[d].set /\ call'[d].kind = call[d].kind
      BY <2>0, <3>1 DEF CallTyped, CallType
    <3> QED
      BY <2>0, <2>1, <3>1, <3>2 DEF Put, Busy, OneReview
  <2>6. ASSUME NEW c \in Clients, Settle(c) \/ \E kind \in Kinds : StartCall(c, kind) PROVE Put(t)'
    <3>1. UNCHANGED <<turn, begun, fin, tool, capturing, sets, start>>
      BY <2>6 DEF Settle, StartCall, turnVars, storeVars, histVars
    <3>2. PICK r \in CallType : call' = [call EXCEPT ![c] = r] /\ r.set \in {0, call[c].set} \cup sets
      BY <2>6, CallGoesOn
    <3>3. ASSUME NEW d \in Clients, Busy(d)' PROVE call'[d].set = t
      <4>1. CASE d # c
        BY <2>0, <3>2, <3>3, <4>1 DEF Put, Busy, CallTyped
      <4>2. CASE d = c
        <5>1. call'[c] = r
          BY <2>0, <3>2 DEF CallTyped
        <5>2. r.set # 0
          BY <2>0, <3>3, <4>2, <5>1, ContentTypes DEF CallTyped, Busy
        <5>3. call[c].set \in {0, t}
          BY <2>0, BusyCalls DEF Put
        <5> QED
          BY <2>0, <3>2, <4>2, <5>1, <5>2, <5>3 DEF Put
      <4> QED
        BY <4>1, <4>2
    <3>4. ASSUME NEW f \in Files, <<t, f, "outside">> \notin flaws' PROVE OneReview'
      <4>1. OneReview
        BY <2>0, <2>1, <3>4 DEF Put
      <4>2. \A d \in Clients \ {c} : Busy(d)' => Busy(d)
        BY <2>0, <3>2 DEF Busy, CallTyped
      <4>3. CASE Settle(c)
        <5>1. Busy(c)
          BY <4>3, BusyCalls DEF Settle
        <5> QED
          BY <4>1, <4>2, <5>1 DEF OneReview
      <4>4. ASSUME NEW kind \in Kinds, StartCall(c, kind) PROVE OneReview'
        <5>1. ~Racing(c)
          <6> SUFFICES ASSUME Racing(c) PROVE <<t, f, "outside">> \in flaws'
            BY <3>4
          <6>1. Overlaps(c) \subseteq flaws'
            BY <4>4 DEF StartCall
          <6>2. <<t, f, "outside">> \in Overlaps(c)
            BY DEF Overlaps
          <6> QED
            BY <6>1, <6>2
        <5> QED
          BY <4>2, <5>1 DEF Racing, OneReview, Busy
      <4> QED
        BY <2>6, <4>3, <4>4
    <3> QED
      BY <2>0, <3>1, <3>3, <3>4 DEF Put
  <2>7. CASE UNCHANGED vars
    BY <2>2, <2>7 DEF vars, turnVars, storeVars, cardVars, histVars
  <2> QED
    BY <2>0, <2>3, <2>4, <2>5, <2>6, <2>7, PutSteps
<1> QED
  BY <1>1, <1>2

LEMMA PutsHold == Spec => []Puts
<1>1. Init => Puts
  <2> SUFFICES ASSUME Init, NEW t \in Turns, Shown(t) PROVE FALSE
    BY DEF Puts
  <2>1. sets = {} /\ \A c \in Clients : call[c].set = 0
    BY Nothing DEF Init
  <2> QED
    BY <2>1, ContentTypes DEF Shown
<1> QED
  BY <1>1, NextPuts, LoneTurnsHold, TypesHold, PTL DEF Spec

-----------------------------------------------------------------------------
(* What a turn writes, from the tool to the list *)

Accepts == {"accept", "acceptAll"}
Rejects == {"reject", "rejectAll"}

(* Few writers: at most one write of t, no opening, nobody else. *)
Few == {"outside", "late", "twice", "opened"}
FewEdits == {"outside", "late", "twice", "redone", "opened"}
FewMoves == {"outside", "late", "twice", "redone", "promoted", "opened"}

(* What the tools of a turn see of f. *)
Here(f) == IF f \in tracked THEN copyFile[f] ELSE real[f]

(* The entry shows the file, and knows what it was. *)
Matches(e, f) ==
  IF e.type = "deleted" THEN f \notin tracked /\ real[f] = Absent ELSE Here(f) = e.new /\ e.new # Absent
Restores(e, f, s) == (e.type = "added" <=> s = Absent) /\ (f \notin Large /\ e.type # "added" => e.orig = s)

Writes(t, f) ==
  /\ wrote[t][f] = 0 \/ f \in tracked => real[f] = start[t][f]
  /\ tool[t].file = f /\ tool[t].stage = "wrote" =>
        wrote[t][f] # 0 /\ Here(f) = tool[t].new /\ tool[t].new # Absent
  /\ tool[t].file = f /\ f \notin tracked /\ (tool[t].stage = "wrote" \/ (tool[t].stage = "read" /\ wrote[t][f] = 0)) =>
        tool[t].before = start[t][f]
  /\ pending[f].type # "none" =>
        /\ pending[f].status = "pending"
        /\ wrote[t][f] # 0 \/ (f \in tracked /\ fin[t].ok /\ fin[t].stage = "freeze")
        /\ f \notin Large => Matches(pending[f], f)
        /\ f \notin tracked => Restores(pending[f], f, start[t][f])

Working == \A t \in Turns : Lone(t) => \A f \in Files : Unspoilt(t, f, Few) => Writes(t, f)

LEMMA WritesFrame ==
  ASSUME NEW t \in Turns, NEW f \in Files, Writes(t, f),
         UNCHANGED <<real[f], copyFile[f], pending[f], start[t][f], wrote[t][f]>>, f \in tracked' <=> f \in tracked,
         tool'[t] = tool[t] \/ tool'[t] = NoTool \/ (tool[t].file # f /\ tool'[t].file # f),
         fin'[t] = fin[t] \/ fin[t].stage # "freeze"
  PROVE  Writes(t, f)'
<1>1. Here(f)' = Here(f) /\ (Matches(pending[f], f) => Matches(pending[f], f)')
  BY DEF Here, Matches
<1>2. NoTool.stage = "none"
  BY DEF NoTool
<1>3. wrote[t][f]' = 0 \/ f \in tracked' => real[f]' = start[t][f]'
  BY DEF Writes
<1>4. tool'[t].file = f /\ tool'[t].stage \in {"read", "wrote"} => tool'[t] = tool[t]
  BY <1>2
<1>5. /\ tool'[t].file = f /\ tool'[t].stage = "wrote" =>
           wrote'[t][f] # 0 /\ Here(f)' = tool'[t].new /\ tool'[t].new # Absent
      /\ tool'[t].file = f /\ f \notin tracked' /\ (tool'[t].stage = "wrote" \/ (tool'[t].stage = "read" /\ wrote'[t][f] = 0)) =>
           tool'[t].before = start'[t][f]
  BY <1>1, <1>4 DEF Writes
<1>6. pending'[f].type # "none" =>
        /\ pending'[f].status = "pending"
        /\ wrote'[t][f] # 0 \/ (f \in tracked' /\ fin'[t].ok /\ fin'[t].stage = "freeze")
        /\ f \notin Large => Matches(pending[f], f)'
        /\ f \notin tracked' => Restores(pending'[f], f, start'[t][f])
  BY <1>1 DEF Writes
<1> QED
  BY <1>3, <1>5, <1>6 DEF Writes

(* What holds after a step held before it. *)
LEMMA UnspoiltBefore ==
  ASSUME [Next]_vars, ~BeginTurn, NEW t \in Turns, NEW f, NEW whys, Unspoilt(t, f, whys)'
  PROVE  Unspoilt(t, f, whys)
BY FlawsStay DEF Unspoilt

LEMMA FewIsSound ==
  ASSUME NEW t, NEW f, Unspoilt(t, f, Few)
  PROVE  Sound(t, f) /\ t \notin mixed
BY DEF Unspoilt, Few, Sound

(* The turn writes f for the first time. *)
LEMMA FirstWrite ==
  ASSUME Typed, NEW t \in Turns, Alone(t), NEW f \in Files, NEW g \in Files, Writes(t, f), NEW content \in Contents,
         TurnWrites(t, g, content), UNCHANGED start, Unspoilt(t, f, Few)'
  PROVE  /\ g # f => UNCHANGED <<real[f], copyFile[f], wrote[t][f]>>
         /\ g = f => /\ wrote[t][f] = 0 /\ wrote'[t][f] = 1 /\ Here(f)' = content
                     /\ f \in tracked => real'[f] = start'[t][f]
         /\ tracked' = tracked
<1>1. FsTyped /\ HistTyped /\ tracked' = tracked
  BY DEF TurnWrites, Typed
<1>2. IF g \in tracked
       THEN copyFile' = [copyFile EXCEPT ![g] = content] /\ UNCHANGED real
       ELSE real' = [real EXCEPT ![g] = content] /\ UNCHANGED copyFile
  BY DEF TurnWrites
<1>3. wrote' = [wrote EXCEPT ![t][g] = IF wrote[t][g] = 0 THEN 1 ELSE 2] /\ wrote[t][f] \in 0 .. 2 /\ wrote[t][g] \in 0 .. 2
  BY <1>1 DEF TurnWrites, HistTyped
<1>4. g # f => UNCHANGED <<real[f], copyFile[f], wrote[t][f]>>
  BY <1>1, <1>2, <1>3 DEF FsTyped, HistTyped
<1>5. ASSUME g = f PROVE wrote[t][f] = 0 /\ wrote'[t][f] = 1
  <2>1. <<t, f, "twice">> \notin flaws'
    BY DEF Unspoilt, Few
  <2>2. ~(wrote[t][f] > 0)
    BY <1>5, <2>1 DEF TurnWrites
  <2>3. wrote[t][f] = 0
    BY <1>3, <2>2
  <2> QED
    BY <1>1, <1>3, <1>5, <2>3 DEF HistTyped
<1>6. ASSUME g = f PROVE Here(f)' = content /\ (f \in tracked => real'[f] = start'[t][f])
  BY <1>1, <1>2, <1>6 DEF FsTyped, Here, Writes
<1> QED
  BY <1>1, <1>4, <1>5, <1>6

(* The walk lists what the folder has and the baseline has not. *)
LEMMA WalkLists ==
  ASSUME Typed, NEW t \in Turns, Alone(t), NEW f \in Files, Writes(t, f), Sound(t, f), CollectExternalChanges(t)
  PROVE  Writes(t, f)'
<1>1. /\ fin[t].stage = "walk" /\ fin[t].ok /\ fin[t].base[f] = Base(start[t][f]) /\ start[t][f] \in Contents
      /\ UNCHANGED <<real, copyFile, tracked, start, wrote, tool>> /\ real[f] \in Contents
  BY DEF CollectExternalChanges, Alone, Sole, Known, Walked, fsVars, turnVars, histVars, Typed, FsTyped
<1> DEFINE e == External(f, fin[t].base[f])
           s == start[t][f]
<1>2. pending'[f] = IF pending[f].type # "none" \/ e[1] = "none" THEN pending[f]
                    ELSE [type |-> e[1], orig |-> e[2], new |-> e[3], status |-> "pending"]
  BY DEF CollectExternalChanges
<1>3. CASE pending'[f] = pending[f]
  BY <1>1, <1>3, WritesFrame
<1>4. CASE pending'[f] # pending[f]
  <2>1. /\ e[1] # "none" /\ pending[f].type = "none" 
        /\ pending'[f] = [type |-> e[1], orig |-> e[2], new |-> e[3], status |-> "pending"]
    BY <1>2, <1>4
  <2>2. real[f] # s
    BY <1>1, <2>1, ContentTypes DEF External, Base
  <2>3. wrote[t][f] # 0 /\ f \notin tracked
    BY <2>2 DEF Writes
  <2>4. /\ e[1] = "added" <=> s = Absent
        /\ e[1] \in {"added", "modified", "deleted"}
        /\ f \notin Large /\ e[1] # "added" => e[2] = s
        /\ IF e[1] = "deleted" THEN real[f] = Absent ELSE real[f] # Absent /\ (f \notin Large => e[3] = real[f])
    BY <1>1, <2>1, <2>2, ContentTypes DEF External, Base, Snapshot, OrEmpty
  <2> HIDE DEF e
  <2> DEFINE p == pending'[f]
  <2>5. p.type = e[1] /\ p.orig = e[2] /\ p.new = e[3] /\ p.status = "pending"
    BY <2>1
  <2>6. f \notin Large => Matches(pending[f], f)'
    BY <1>1, <2>3, <2>4, <2>5 DEF Matches, Here
  <2>7. Restores(p, f, s)
    BY <2>4, <2>5 DEF Restores
  <2> QED
    BY <1>1, <2>3, <2>5, <2>6, <2>7 DEF Writes, Here
<1> QED
  BY <1>3, <1>4

(* The scan lists the sandboxes that changed. *)
LEMMA ScanLists ==
  ASSUME Typed, NEW t \in Turns, Alone(t), NEW f \in Files, Writes(t, f), CollectWorkingCopyChanges(t)
  PROVE  Writes(t, f)'
<1>1. /\ fin[t].stage = "scan" /\ fin[t].ok
      /\ UNCHANGED <<real, copyFile, tracked, start, wrote, tool>> /\ copyFile[f] \in Contents
      /\ fin' = [fin EXCEPT ![t] = [fin[t] EXCEPT !.stage = "freeze"]]
      /\ fin[t] \in FinType /\ fin \in [Turns -> FinType]
  BY DEF CollectWorkingCopyChanges, Alone, Sole, turnVars, histVars, Typed, FsTyped, StoreTyped
<1>2. fin'[t].stage = "freeze" /\ fin'[t].ok
  BY <1>1 DEF FinType
<1> DEFINE y == IF baseline[f] = Never THEN "added" ELSE "modified"
           o == IF baseline[f] = Never THEN Absent ELSE Snapshot(f, baseline[f])
           n == OrEmpty(Snapshot(f, copyFile[f]))
<1>3. pending'[f] = IF f \notin Dirtied \/ pending[f].type # "none" THEN pending[f]
                    ELSE [type |-> y, orig |-> o, new |-> n, status |-> "pending"]
  BY DEF CollectWorkingCopyChanges
<1>4. CASE pending'[f] = pending[f]
  BY <1>1, <1>4, WritesFrame
<1>5. CASE pending'[f] # pending[f]
  <2>1. f \in Dirtied /\ pending'[f] = [type |-> y, orig |-> o, new |-> n, status |-> "pending"]
    BY <1>3, <1>5
  <2>2. f \in tracked /\ copyFile[f] # Absent
    BY <2>1 DEF Dirtied
  <2>3. y # "deleted" /\ (f \notin Large => n = copyFile[f])
    BY <2>2 DEF Snapshot, OrEmpty
  <2> HIDE DEF y, o, n
  <2> DEFINE p == pending'[f]
  <2>4. p.type = y /\ p.new = n /\ p.status = "pending"
    BY <2>1
  <2>5. f \notin Large => Matches(pending[f], f)'
    BY <1>1, <2>2, <2>3, <2>4 DEF Matches, Here
  <2> QED
    BY <1>1, <1>2, <2>2, <2>4, <2>5 DEF Writes, Here
<1> QED
  BY <1>4, <1>5

LEMMA BeginsWorking ==
  ASSUME Typed, BeginTurn, LoneTurns'
  PROVE  Working'
<1> SUFFICES ASSUME NEW t \in Turns, Lone(t)', NEW f \in Files PROVE Writes(t, f)'
  BY DEF Working
<1>1. Alone(t)'
  BY DEF LoneTurns
<1>2. t = begun + 1
  BY <1>1 DEF Alone, Sole, BeginTurn
<1>3. /\ start' = [u \in Turns |-> IF u = begun + 1 THEN real ELSE IF u \in Over THEN NoBaseline ELSE start[u]]
      /\ mixed' = IF Turns \ Over = {} THEN {} ELSE (mixed \ Over) \cup (Turns \ Over) \cup {begun + 1}
      /\ UNCHANGED <<real, tool, tracked, copyFile>> /\ pending' = NoPending
  BY DEF BeginTurn, fsVars
<1>4. t \in Over
  BY <1>2, <1>3 DEF Lone
<1>5. tool'[t].stage = "none" /\ start'[t][f] = real'[f] /\ pending'[f].type = "none"
  BY <1>2, <1>3, <1>4, Nothing DEF Over, NoPending, NoEntry
<1> QED
  BY <1>5 DEF Writes

LEMMA NextWorking == Typed /\ LoneTurns /\ LoneTurns' /\ Working /\ [Next]_vars => Working'
<1> SUFFICES ASSUME Typed, LoneTurns, LoneTurns', Working, [Next]_vars PROVE Working'
  OBVIOUS
<1>1. CASE BeginTurn
  BY <1>1, BeginsWorking
<1>2. CASE ~BeginTurn
  <2> SUFFICES ASSUME NEW t \in Turns, Lone(t)', NEW f \in Files, Unspoilt(t, f, Few)' PROVE Writes(t, f)'
    BY DEF Working
  <2>0. FsTyped /\ TurnTyped /\ StoreTyped /\ CountTyped /\ CallTyped /\ Alone(t)'
    BY DEF Typed, LoneTurns
  <2>1. Unspoilt(t, f, Few) /\ Sound(t, f) /\ t \notin mixed
    BY <1>2, UnspoiltBefore, FewIsSound
  <2>2. Lone(t) => Alone(t) /\ Writes(t, f)
    BY <2>1 DEF LoneTurns, Working
  <2>3. CASE EndTurn
    <3>1. turn # 0 /\ turn' = 0 /\ UNCHANGED <<fsVars, tool, pending, start, wrote>>
      BY <2>3 DEF EndTurn, histVars
    <3>2. turn \in Turns
      BY <2>0, <3>1, ContentTypes DEF TurnTyped
    <3>3. PICK r : fin' = [fin EXCEPT ![turn] = r]
      BY <2>3 DEF EndTurn
    <3>4. t # turn => fin'[t] = fin[t]
      BY <2>0, <3>2, <3>3 DEF StoreTyped
    <3>5. Lone(t)
      BY <2>1, <3>1, <3>4, ContentTypes DEF Lone
    <3>6. t = turn /\ fin[t].stage = "none"
      BY <2>2, <3>1, <3>5 DEF Alone, Sole
    <3> QED
      BY <2>2, <3>1, <3>5, <3>6, WritesFrame DEF fsVars
  <2>4. ASSUME NEW u \in Turns, CaptureBaseline(u) \/ BaselineReady(u) \/ CollectExternalChanges(u)
                                \/ CollectWorkingCopyChanges(u) \/ Freeze(u)
        PROVE  Writes(t, f)'
    <3>0. turn' = turn
      BY <2>4 DEF CaptureBaseline, BaselineReady, CollectExternalChanges, CollectWorkingCopyChanges, Freeze, turnVars
    <3>1. CASE CaptureBaseline(u)
      <4>1. UNCHANGED <<fsVars, tool, pending, start, wrote, fin>>
        BY <3>1 DEF CaptureBaseline, turnVars
      <4>2. Lone(t)
        BY <2>1, <3>0, <4>1 DEF Lone
      <4> QED
        BY <2>2, <4>1, <4>2, WritesFrame DEF fsVars
    <3>2. CASE ~CaptureBaseline(u)
      <4>1. fin[u].stage # "none" /\ \A w \in Turns \ {u} : fin'[w] = fin[w]
        BY <2>0, <2>4, <3>2 DEF BaselineReady, CollectExternalChanges, CollectWorkingCopyChanges, Freeze, StoreTyped
      <4>2. Lone(t)
        BY <2>1, <3>0, <4>1 DEF Lone
      <4>3. u = t /\ turn = 0 /\ Alone(t) /\ Writes(t, f)
        BY <2>2, <4>1, <4>2 DEF Alone, Sole
      <4>4. CASE BaselineReady(t)
        <5>1. UNCHANGED <<fsVars, tool, pending, start, wrote>> /\ fin[t].stage = "wait"
          BY <4>4 DEF BaselineReady, turnVars, histVars
        <5> QED
          BY <4>3, <5>1, WritesFrame DEF fsVars
      <4>5. CASE CollectExternalChanges(t)
        BY <2>1, <4>3, <4>5, WalkLists
      <4>6. CASE CollectWorkingCopyChanges(t)
        BY <4>3, <4>6, ScanLists
      <4>7. CASE Freeze(t)
        <5>1. fin'[t].stage = "none"
          BY <2>0, <4>7, Nothing DEF Freeze, StoreTyped
        <5> QED
          BY <3>0, <4>3, <5>1, ContentTypes DEF Lone
      <4> QED
        BY <2>4, <3>2, <4>3, <4>4, <4>5, <4>6, <4>7
    <3> QED
      BY <3>1, <3>2
  <2>5. ASSUME NEW u \in Turns, FsWrite(u) PROVE Writes(t, f)'
    <3>1. UNCHANGED <<turn, begun, fin, pending, start, mixed>>
      BY <2>5 DEF FsWrite, storeVars
    <3>2. Lone(t) /\ Alone(t) /\ Writes(t, f)
      BY <2>2, <3>1 DEF Lone
    <3>3. tool[u] # NoTool /\ u = t
      BY <2>5, <3>2, Nothing DEF FsWrite, Alone, Sole
    <3> DEFINE g == tool[t].file
    <3>4. g \in Files /\ Fresh \in Contents /\ Fresh # Absent /\ tool[t].stage = "read" /\ TurnWrites(t, g, Fresh)
      BY <2>0, <2>5, <3>3, FreshIsContent DEF FsWrite, TurnTyped
    <3>5. ~(fin[t].stage # "none" /\ fin[t].ok)
      BY <3>2, <3>3 DEF Alone, Sole
    <3>6. tool' = [tool EXCEPT ![t] = [tool[t] EXCEPT !.stage = "wrote", !.new = Fresh]] /\ tool[t] \in ToolType
      BY <2>0, <2>5, <3>3 DEF FsWrite, TurnTyped
    <3>7. tool'[t].stage = "wrote" /\ tool'[t].new = Fresh /\ tool'[t].file = g /\ tool'[t].before = tool[t].before
      BY <2>0, <3>6 DEF ToolType, TurnTyped
    <3>8. /\ g # f => UNCHANGED <<real[f], copyFile[f], wrote[t][f]>>
          /\ g = f => /\ wrote[t][f] = 0 /\ wrote'[t][f] = 1 /\ Here(f)' = Fresh
                      /\ f \in tracked => real'[f] = start'[t][f]
          /\ tracked' = tracked
      BY <3>1, <3>2, <3>4, FirstWrite
    <3>9. CASE g # f
      BY <3>1, <3>2, <3>7, <3>8, <3>9, WritesFrame
    <3>10. CASE g = f
      <4>1. pending'[f].type = "none"
        BY <3>1, <3>2, <3>5, <3>8, <3>10 DEF Writes
      <4>2. f \notin tracked => tool[t].before = start[t][f]
        BY <3>2, <3>4, <3>8, <3>10 DEF Writes
      <4> QED
        BY <3>1, <3>4, <3>7, <3>8, <3>10, <4>1, <4>2 DEF Writes
    <3> QED
      BY <3>9, <3>10
  <2>6. ASSUME NEW u \in Turns, RecordWrite(u) PROVE Writes(t, f)'
    <3>1. UNCHANGED <<fsVars, turn, begun, fin, start, wrote, mixed>>
      BY <2>6 DEF RecordWrite, histVars
    <3>2. Lone(t) /\ Alone(t) /\ Writes(t, f)
      BY <2>2, <3>1 DEF Lone
    <3>3. tool[u] # NoTool /\ u = t
      BY <2>6, <3>2, Nothing DEF RecordWrite, Alone, Sole
    <3> DEFINE g == tool[t].file
               y == IF tool[t].before = Absent THEN "added" ELSE "modified"
               e == [type |-> y, orig |-> tool[t].before, new |-> tool[t].new, status |-> "pending"]
    <3>4. g \in Files /\ tool[t].stage = "wrote" /\ tool' = [tool EXCEPT ![t] = NoTool]
      BY <2>0, <2>6, <3>3 DEF RecordWrite, TurnTyped
    <3>5. tool'[t] = NoTool /\ tool'[t].stage = "none"
      BY <2>0, <3>4, Nothing DEF TurnTyped
    <3>6. pending' = IF g \in Large /\ tool[t].before # Absent THEN pending ELSE [pending EXCEPT ![g] = e]
      BY <2>6, <3>3 DEF RecordWrite, Upsert
    <3>7. y \in {"added", "modified"} /\ (y = "added" <=> tool[t].before = Absent)
      OBVIOUS
    <3> HIDE DEF y
    <3>8. e.type = y /\ e.orig = tool[t].before /\ e.new = tool[t].new /\ e.status = "pending"
      OBVIOUS
    <3> HIDE DEF e
    <3>9. CASE pending'[f] = pending[f]
      BY <3>1, <3>2, <3>5, <3>9, WritesFrame DEF fsVars
    <3>10. CASE pending'[f] # pending[f]
      <4>1. g = f /\ pending'[f] = e
        BY <2>0, <3>6, <3>10 DEF StoreTyped
      <4>2. wrote[t][f] # 0 /\ Here(f) = e.new /\ e.new # Absent
        BY <3>2, <3>4, <3>8, <4>1 DEF Writes
      <4>3. f \notin tracked => Restores(e, f, start[t][f])
        BY <3>2, <3>4, <3>7, <3>8, <4>1 DEF Writes, Restores
      <4>4. UNCHANGED <<real, copyFile, tracked, start, wrote>>
        BY <3>1 DEF fsVars
      <4>5. Matches(pending[f], f)'
        BY <3>7, <3>8, <4>1, <4>2, <4>4 DEF Matches, Here
      <4>6. wrote[t][f] = 0 \/ f \in tracked => real[f] = start[t][f]
        BY <3>2 DEF Writes
      <4> QED
        BY <3>5, <3>8, <4>1, <4>2, <4>3, <4>4, <4>5, <4>6 DEF Writes
    <3> QED
      BY <3>9, <3>10
  <2>7. ASSUME NEW g \in Files, ShellChange(g) PROVE Writes(t, f)'
    <3>1. UNCHANGED <<turn, begun, tool, fin, pending, start, mixed>> /\ turn # 0
      BY <2>7 DEF ShellChange, turnVars, storeVars
    <3>2. Lone(t) /\ Alone(t) /\ Writes(t, f)
      BY <2>2, <3>1 DEF Lone
    <3>3. turn = t /\ fin[t].stage = "none"
      BY <3>1, <3>2 DEF Alone, Sole
    <3>4. PICK content \in {Fresh, Absent} : TurnWrites(t, g, content)
      BY <2>7, <3>3 DEF ShellChange
    <3>5. content \in Contents
      BY <2>0, <2>7, ContentTypes, FreshIsContent DEF ShellChange, InputWrite
    <3>6. /\ g # f => UNCHANGED <<real[f], copyFile[f], wrote[t][f]>>
          /\ g = f => /\ wrote[t][f] = 0 /\ wrote'[t][f] = 1
                      /\ f \in tracked => real'[f] = start'[t][f]
          /\ tracked' = tracked
      BY <3>1, <3>2, <3>4, <3>5, FirstWrite
    <3>7. CASE g # f
      BY <3>1, <3>2, <3>6, <3>7, WritesFrame
    <3>8. CASE g = f
      <4>1. pending'[f].type = "none"
        BY <3>1, <3>2, <3>3, <3>6, <3>8 DEF Writes
      <4>2. tool[t].file = f => tool[t].stage # "wrote"
        BY <3>2, <3>6, <3>8 DEF Writes
      <4> QED
        BY <3>1, <3>6, <3>8, <4>1, <4>2 DEF Writes
    <3> QED
      BY <3>7, <3>8
  <2>8. ASSUME NEW g \in Files, FsRead(g) PROVE Writes(t, f)'
    <3>1. UNCHANGED <<fsVars, turn, begun, fin, pending, start, wrote, mixed>> /\ turn # 0
      BY <2>8 DEF FsRead, storeVars, histVars
    <3>2. Lone(t) /\ Alone(t) /\ Writes(t, f)
      BY <2>2, <3>1 DEF Lone
    <3>3. turn = t
      BY <3>1, <3>2 DEF Alone, Sole
    <3> DEFINE b == (IF g \in tracked THEN copyFile ELSE real)[g]
               r == [stage |-> "read", file |-> g, new |-> Absent, before |-> b]
    <3>4. tool' = [tool EXCEPT ![t] = r]
      BY <2>8, <3>3 DEF FsRead
    <3>5. r.stage = "read" /\ r.file = g /\ r.before = b
      OBVIOUS
    <3>6. g \notin tracked => b = real[g]
      OBVIOUS
    <3> HIDE DEF b, r
    <3>7. tool'[t] = r
      BY <2>0, <3>4 DEF TurnTyped
    <3>8. UNCHANGED <<real, copyFile, tracked>> /\ Here(f)' = Here(f) /\ (Matches(pending[f], f) => Matches(pending[f], f)')
      BY <3>1 DEF fsVars, Here, Matches
    <3> QED
      BY <3>1, <3>2, <3>5, <3>6, <3>7, <3>8 DEF Writes
  <2>9. ASSUME NEW g \in Files, Open(g) \/ Notice(g) \/ Outside(g) PROVE Writes(t, f)'
    <3>1. UNCHANGED <<turn, begun, tool, fin, pending, start, wrote, mixed>>
      BY <2>9 DEF Open, Notice, Outside, turnVars, storeVars, histVars
    <3>2. Lone(t) /\ Alone(t) /\ Writes(t, f)
      BY <2>2, <3>1 DEF Lone
    <3>3. t \in 1 .. begun
      BY <3>2 DEF Alone, Sole, Turns
    <3>4. /\ Open(g) => <<t, g, "opened">> \in flaws'
          /\ Outside(g) => <<t, g, "outside">> \in flaws'
      <4>1. Open(g) => <<t, g, "opened">> \in flaws'
        BY <3>3 DEF Open
      <4>2. Outside(g) => <<t, g, "outside">> \in flaws'
        BY <3>3 DEF Outside, Flaw
      <4> QED
        BY <4>1, <4>2
    <3>5. Notice(g) \/ g # f
      BY <2>9, <3>4 DEF Unspoilt, Few
    <3>6. UNCHANGED <<real[f], copyFile[f]>> /\ (f \in tracked' <=> f \in tracked)
      <4>1. CASE Notice(g)
        BY <4>1 DEF Notice
      <4>2. CASE Open(g) /\ g # f
        <5>1. Ensure(g) /\ real' = real
          BY <4>2 DEF Open
        <5> QED
          BY <2>0, <4>2, <5>1, EnsureMarks
      <4>3. CASE Outside(g) /\ g # f
        BY <2>0, <4>3 DEF Outside, FsTyped
      <4> QED
        BY <2>9, <3>5, <4>1, <4>2, <4>3
    <3> QED
      BY <3>1, <3>2, <3>6, WritesFrame
  <2>10. ASSUME NEW c \in Clients, CallStep(c) \/ Settle(c) \/ \E kind \in Kinds : StartCall(c, kind) PROVE FALSE
    <3>1. UNCHANGED <<turn, fin, mixed>>
      BY <2>10 DEF CallStep, Settle, StartCall, turnVars, storeVars, histVars
    <3>2. Alone(t)
      BY <2>2, <3>1 DEF Lone
    <3>3. call[c].file = NoFile /\ sets = {}
      BY <3>2, BusyCalls DEF Alone, Sole, NoReview
    <3> QED
      BY <2>10, <3>3, SMTT(30) DEF CallStep, Settle, StartCall
  <2>11. CASE ClearConversation
    <3>1. turn' = 0 /\ fin' = fin /\ mixed' = mixed \cup Finalizing
      BY <2>11 DEF ClearConversation, turnVars
    <3> QED
      BY <3>1, ContentTypes DEF Lone, Finalizing
  <2>12. CASE Restart
    <3>1. turn' = 0 /\ fin'[t].stage = "none"
      BY <2>12, Nothing DEF Restart
    <3> QED
      BY <3>1, ContentTypes DEF Lone
  <2>13. CASE UNCHANGED vars
    <3>1. UNCHANGED <<fsVars, turn, fin, tool, pending, start, wrote, mixed>>
      BY <2>13 DEF vars, turnVars, storeVars, histVars
    <3> QED
      BY <2>2, <3>1, WritesFrame DEF Lone, fsVars
  <2> QED
    BY <1>2, <2>3, <2>4, <2>5, <2>6, <2>7, <2>8, <2>9, <2>10, <2>11, <2>12, <2>13 DEF Next, Review, Finalize
<1> QED
  BY <1>1, <1>2

LEMMA WorkingHolds == Spec => []Working
<1>1. Init => Working
  BY ContentTypes, Nothing DEF Init, Working, Lone
<1> QED
  BY <1>1, NextWorking, LoneTurnsHold, TypesHold, PTL DEF Spec

-----------------------------------------------------------------------------
(* What a review makes of a file that only it has moved *)

Rest(f) == UNCHANGED <<real[f], copyFile[f]>> /\ (f \in tracked' <=> f \in tracked)

(* Nothing of the review happens. *)
Quiet(t, f) == Rest(f) /\ UNCHANGED <<call, start>> /\ card'[t][f] = card[t][f]

(* The call takes the next step on its file. *)
Moves(c, t, f) ==
  /\ OneReview /\ call[c].file \in Files /\ call[c].steps # <<>> /\ UNCHANGED start
  /\ call'[c].kind = call[c].kind /\ call'[c].file = call[c].file /\ call'[c].todo = call[c].todo
  /\ call'[c].to = call[c].to /\ call'[c].steps = Tail(call[c].steps)
  /\ \A d \in Clients \ {c} : call'[d] = call[d]
  /\ call[c].file # f => Rest(f) /\ card'[t][f] = card[t][f]
  /\ call[c].file = f => /\ Effect(Head(call[c].steps), f, card[t][f])
                         /\ card'[t][f].type = card[t][f].type
                         /\ Head(call[c].steps) # "edit" => card'[t][f] = card[t][f]
                         /\ Head(call[c].steps) = "promote" => <<t, f, "promoted">> \in flaws'

(* Call k of client c turns to its next file, or returns. *)
TurnsTo(c, k, t) ==
  \/ call' = [call EXCEPT ![c] = NoCall] /\ k.todo = {}
  \/ \E r \in CallType, g \in k.todo :
        /\ call' = [call EXCEPT ![c] = r]
        /\ r.kind = k.kind /\ r.file = g /\ r.todo = k.todo \ {g}
        /\ \/ /\ k.kind \in Accepts /\ card'[t][g].status \notin {"pending", "edited"}
              /\ r.steps = <<>> /\ r.to = card'[t][g].status
           \/ /\ k.kind \in Accepts => card'[t][g].status \in {"pending", "edited"}
              /\ r.steps = Steps(k.kind, g, card'[t][g].status) /\ r.to = Outcome(k.kind)

Settles(c, k, t, f) ==
  /\ k = call[c] /\ k.steps = <<>> /\ k.file \in Files
  /\ card'[t][f].status = IF k.file = f THEN k.to ELSE card[t][f].status
Starts(k, t, f) ==
  /\ ~InHand(f, {})
  /\ card'[t][f].status = card[t][f].status
  /\ k.kind \in {"undo", "edit"} /\ f \in k.todo => <<t, f, "redone">> \in flaws'
  /\ k.kind = "rejectAll" /\ f \in Listed(card[t]) \ k.todo => card[t][f].status = "rejected"

GoesOn(c, k, t, f) ==
  /\ OneReview /\ Rest(f) /\ UNCHANGED start /\ k.kind \in Kinds
  /\ card'[t][f].type = card[t][f].type /\ card'[t][f].orig = card[t][f].orig /\ card'[t][f].new = card[t][f].new
  /\ Settles(c, k, t, f) \/ Starts(k, t, f)
  /\ TurnsTo(c, k, t)

LEMMA CallStepMoves ==
  ASSUME Typed, NEW t \in Turns, Put(t), NEW c \in Clients, CallStep(c), OneReview, NEW f \in Files
  PROVE  Moves(c, t, f)
<1> DEFINE k == call[c]
           step == Head(k.steps)
<1>0. FsTyped /\ CardTyped /\ CallTyped /\ CountTyped
  BY DEF Typed
<1>1. k.file \in Files /\ k.steps # <<>> /\ k.set = t /\ k \in CallType /\ start' = start
  <2>1. k.file # NoFile /\ k.steps # <<>> /\ start' = start
    BY DEF CallStep
  <2> QED
    BY <2>1, BusyCalls DEF Put
<1>2. call' = [call EXCEPT ![c] = [k EXCEPT !.steps = Tail(k.steps)]]
  BY DEF CallStep
<1>3. /\ call'[c].kind = k.kind /\ call'[c].file = k.file /\ call'[c].todo = k.todo
      /\ call'[c].to = k.to /\ call'[c].steps = Tail(k.steps)
      /\ \A d \in Clients \ {c} : call'[d] = call[d]
  BY <1>0, <1>1, <1>2 DEF CallTyped, CallType
<1>4. step = "edit" => CanWrite
  BY DEF CallStep
<1>5. /\ Effect(step, k.file, card[t][k.file])
      /\ card' = IF step = "edit" THEN [card EXCEPT ![t] = [card[t] EXCEPT ![k.file] = [card[t][k.file] EXCEPT !.new = Fresh]]]
                 ELSE card
      /\ step = "promote" => <<t, k.file, "promoted">> \in flaws'
  BY <1>1 DEF CallStep
<1>6. card[t][k.file] \in Entries /\ card[t] \in [Files -> Entries] /\ card \in [Turns -> [Files -> Entries]]
  BY <1>0, <1>1 DEF CardTyped
<1>7. card'[t][k.file].type = card[t][k.file].type /\ \A g \in Files \ {k.file} : card'[t][g] = card[t][g]
  BY <1>1, <1>5, <1>6 DEF Entries
<1>8. k.file # f => Rest(f)
  <2> SUFFICES ASSUME k.file # f PROVE Rest(f)
    OBVIOUS
  <2>1. UNCHANGED <<real[f], copyFile[f]>>
    BY StepTouchesOne
  <2>2. step \in Words
    BY <1>1, PlanTypes DEF CallType
  <2>3. f \in tracked' <=> f \in tracked
    <3>1. CASE step \in {"unregister", "seed"}
      BY <1>5, <3>1 DEF Effect, Ensure
    <3>2. CASE step \notin {"unregister", "seed"}
      <4>1. tracked' = tracked
        BY <1>5, <2>2, <3>2 DEF Effect, SetReal, SetCopy, Words
      <4> QED
        BY <4>1
    <3> QED
      BY <3>1, <3>2
  <2> QED
    BY <2>1, <2>3 DEF Rest
<1> QED
  BY <1>1, <1>3, <1>5, <1>7, <1>8 DEF Moves

(* The way of a call through its files. *)
LEMMA ContinueTurns ==
  ASSUME Typed, NEW t \in Turns, NEW c \in Clients, NEW k \in CallType, k.kind \in Kinds, k.set = t,
         card'[t] \in [Files -> Entries], Continue(c, k, card'[t])
  PROVE  TurnsTo(c, k, t)
<1>0. CardTyped /\ CallTyped
  BY DEF Typed
<1> DEFINE files == card'[t]
<1>1. Continue(c, k, files) /\ files \in [Files -> Entries]
  OBVIOUS
<1> HIDE DEF files
<1>2. \/ call' = [call EXCEPT ![c] = NoCall]
      \/ \E r \in CallType, g \in k.todo :
                 /\ call' = [call EXCEPT ![c] = r]
                 /\ r.kind = k.kind /\ r.set = k.set /\ r.file = g /\ r.todo = k.todo \ {g}
                 /\ \/ /\ k.kind \in {"accept", "acceptAll"} /\ files[g].status \notin {"pending", "edited"}
                       /\ r.steps = <<>> /\ r.to = files[g].status
                    \/ /\ k.kind \in {"accept", "acceptAll"} => files[g].status \in {"pending", "edited"}
                       /\ r.steps = Steps(k.kind, g, files[g].status) /\ r.to = Outcome(k.kind)
  BY <1>0, <1>1, ContinueTyped
<1>3. CASE call' = [call EXCEPT ![c] = NoCall]
  <2>1. call'[c].kind = "none"
    BY <1>0, <1>3, Nothing DEF CallTyped
  <2>2. ASSUME k.todo # {} PROVE FALSE
    <3>1. PICK g \in k.todo :
            LET status == files[g].status
                skip == k.kind \in {"accept", "acceptAll"} /\ status \notin {"pending", "edited"}
            IN /\ call' = [call EXCEPT ![c] =
                    [k EXCEPT !.todo = @ \ {g}, !.file = g,
                              !.steps = IF skip THEN <<>> ELSE Steps(k.kind, g, status),
                              !.to = IF skip THEN status ELSE Outcome(k.kind)]]
               /\ UNCHANGED active
      BY <1>1, <2>2 DEF Continue
    <3>2. call'[c].kind = k.kind
      BY <1>0, <3>1 DEF CallTyped, CallType
    <3> QED
      BY <2>1, <3>2 DEF Kinds
  <2> QED
    BY <1>3, <2>2 DEF TurnsTo
<1>4. CASE call' # [call EXCEPT ![c] = NoCall]
  BY <1>2, <1>4 DEF TurnsTo, files, Accepts
<1> QED
  BY <1>3, <1>4

LEMMA SettleGoesOn ==
  ASSUME Typed, NEW t \in Turns, Put(t), NEW c \in Clients, Settle(c), OneReview, NEW f \in Files
  PROVE  GoesOn(c, call[c], t, f)
<1> DEFINE k == call[c]
<1>0. FsTyped /\ CardTyped /\ CallTyped
  BY DEF Typed
<1>1. k.file \in Files /\ k.steps = <<>> /\ k.set = t /\ k \in CallType /\ k.kind \in Kinds
  <2>1. k.file # NoFile /\ k.steps = <<>>
    BY DEF Settle
  <2> QED
    BY <2>1, BusyCalls DEF Put
<1>2. UNCHANGED <<real, copyFile, tracked, start>>
  BY DEF Settle, fsVars, histVars
<1> DEFINE e == [card[t][k.file] EXCEPT !.status = k.to]
<1>3. card[t][k.file] \in Entries /\ card[t] \in [Files -> Entries] /\ k.to \in Statuses
  BY <1>0, <1>1 DEF CardTyped, CallType
<1>4. e \in Entries /\ e.status = k.to /\ e.type = card[t][k.file].type /\ e.orig = card[t][k.file].orig /\ e.new = card[t][k.file].new
  BY <1>3 DEF Entries
<1>5. card' = [card EXCEPT ![t] = [card[t] EXCEPT ![k.file] = e]] /\ Continue(c, k, [card[t] EXCEPT ![k.file] = e])
  BY <1>1 DEF Settle
<1> HIDE DEF e
<1>6. card'[t] = [card[t] EXCEPT ![k.file] = e] /\ card'[t] \in [Files -> Entries]
  BY <1>0, <1>3, <1>4, <1>5 DEF CardTyped
<1>7. TurnsTo(c, k, t)
  BY <1>1, <1>5, <1>6, ContinueTurns
<1>8. /\ card'[t][f].type = card[t][f].type /\ card'[t][f].orig = card[t][f].orig /\ card'[t][f].new = card[t][f].new
      /\ card'[t][f].status = IF k.file = f THEN k.to ELSE card[t][f].status
  BY <1>1, <1>3, <1>4, <1>6
<1>9. Settles(c, k, t, f)
  BY <1>1, <1>8 DEF Settles
<1> QED
  BY <1>1, <1>2, <1>7, <1>8, <1>9 DEF GoesOn, Rest

LEMMA StartGoesOn ==
  ASSUME Typed, NEW t \in Turns, Put(t), NEW c \in Clients, NEW kind \in Kinds, StartCall(c, kind), OneReview,
         NEW f \in Files, <<t, f, "outside">> \notin flaws'
  PROVE  \E k \in CallType : GoesOn(c, k, t, f)
<1>0. FsTyped /\ CardTyped /\ CallTyped
  BY DEF Typed
<1>1. UNCHANGED <<real, copyFile, tracked, start, card>> /\ call[c] = NoCall
  BY DEF StartCall, fsVars
<1>2. PICK u \in sets : \E todo \in Todo(kind, u) :
         /\ Continue(c, [NoCall EXCEPT !.kind = kind, !.set = u, !.todo = todo], card[u])
         /\ flaws' = flaws \cup Overlaps(c) \cup Redone(kind, u, todo)
  BY DEF StartCall
<1>3. u = t
  BY DEF Put
<1>4. PICK todo \in Todo(kind, t) :
         /\ Continue(c, [NoCall EXCEPT !.kind = kind, !.set = t, !.todo = todo], card[t])
         /\ flaws' = flaws \cup Overlaps(c) \cup Redone(kind, t, todo)
  BY <1>2, <1>3
<1>5. todo \in SUBSET Files
  BY DEF Todo, Kinds, Listed
<1> DEFINE k == [NoCall EXCEPT !.kind = kind, !.set = t, !.todo = todo]
<1>6. k \in CallType /\ k.kind = kind /\ k.set = t /\ k.todo = todo
  BY <1>5, Nothing, ContentTypes DEF CallType
<1>7. Continue(c, k, card[t]) /\ Overlaps(c) \cup Redone(kind, t, todo) \subseteq flaws'
  BY <1>4
<1> HIDE DEF k
<1>8. TurnsTo(c, k, t)
  <2>1. card'[t] \in [Files -> Entries] /\ Continue(c, k, card'[t])
    BY <1>0, <1>1, <1>7 DEF CardTyped
  <2> QED
    BY <1>6, <2>1, ContinueTurns
<1>9. ~InHand(f, {})
  <2>1. ~Racing(c)
    <3> SUFFICES ASSUME Racing(c) PROVE FALSE
      OBVIOUS
    <3>1. <<t, f, "outside">> \in Overlaps(c)
      BY DEF Overlaps
    <3> QED
      BY <1>7, <3>1
  <2>2. ASSUME NEW d \in Clients, call[d].file = f PROVE FALSE
    <3>1. f # NoFile /\ Busy(d)
      BY <2>2, Bounds, BusyCalls
    <3>2. d = c
      BY <2>1, <3>1 DEF Racing, Busy
    <3> QED
      BY <1>1, <2>2, <3>1, <3>2, Nothing
  <2> QED
    BY <2>2 DEF InHand
<1>10. kind \in {"undo", "edit"} /\ f \in todo => <<t, f, "redone">> \in flaws'
  <2> SUFFICES ASSUME kind \in {"undo", "edit"}, f \in todo PROVE <<t, f, "redone">> \in flaws'
    OBVIOUS
  <2>1. <<t, f, "redone">> \in Redone(kind, t, todo)
    BY DEF Redone
  <2> QED
    BY <1>7, <2>1
<1>11. kind = "rejectAll" /\ f \in Listed(card[t]) \ todo => card[t][f].status = "rejected"
  <2>1. kind = "rejectAll" => todo = {g \in Listed(card[t]) : card[t][g].status # "rejected"}
    BY DEF Todo
  <2> QED
    BY <2>1
<1>12. Starts(k, t, f)
  BY <1>1, <1>6, <1>9, <1>10, <1>11 DEF Starts
<1>13. GoesOn(c, k, t, f)
  BY <1>1, <1>6, <1>8, <1>12 DEF GoesOn, Rest
<1> QED
  BY <1>6, <1>13

(* All that can happen to a file meanwhile. *)
LEMMA ReviewSteps ==
  ASSUME Typed, [Next]_vars, NEW t \in Turns, Put(t), ~BeginTurn, ~Restart, NEW f \in Files,
         Unspoilt(t, f, Few)'
  PROVE  \/ Quiet(t, f)
         \/ \E c \in Clients : Moves(c, t, f)
         \/ \E c \in Clients, k \in CallType : GoesOn(c, k, t, f)
<1>0. FsTyped
  BY DEF Typed
<1>1. Unspoilt(t, f, Few) /\ <<t, f, "outside">> \notin flaws' /\ <<t, f, "opened">> \notin flaws'
  <2>1. Unspoilt(t, f, Few)
    BY UnspoiltBefore
  <2> QED
    BY <2>1 DEF Unspoilt, Few
<1>2. OneReview
  BY <1>1 DEF Put, Unspoilt, Few
<1>3. CASE ClearConversation \/ UNCHANGED vars \/ \E g \in Files : Notice(g)
  <2>1. UNCHANGED <<real, copyFile, tracked, call, card, start>>
    BY <1>3 DEF ClearConversation, Notice, vars, fsVars, cardVars, histVars
  <2> QED
    BY <2>1 DEF Quiet, Rest
<1>4. ASSUME NEW g \in Files, Open(g) PROVE Quiet(t, f)
  <2>1. UNCHANGED <<call, card, start>> /\ Ensure(g) /\ real' = real
    BY <1>4 DEF Open, cardVars
  <2>2. t \in 1 .. begun
    BY DEF Put, Turns
  <2>3. <<t, g, "opened">> \in flaws'
    BY <1>4, <2>2 DEF Open
  <2>4. g # f
    BY <1>1, <2>3
  <2>5. copyFile'[f] = copyFile[f] /\ (f \in tracked' <=> f \in tracked)
    BY <1>0, <2>1, <2>4, EnsureMarks
  <2> QED
    BY <2>1, <2>5 DEF Quiet, Rest
<1>5. ASSUME NEW g \in Files, Outside(g) PROVE Quiet(t, f)
  <2>1. UNCHANGED <<copyFile, tracked, call, card, start>>
    BY <1>5 DEF Outside, cardVars
  <2>2. t <= begun
    BY DEF Put, Turns
  <2>3. <<t, g, "outside">> \in flaws'
    BY <1>5, <2>2 DEF Outside, Flaw
  <2>4. g # f
    BY <1>1, <2>3
  <2>5. real'[f] = real[f]
    BY <1>0, <1>5, <2>4 DEF Outside, FsTyped
  <2> QED
    BY <2>1, <2>5 DEF Quiet, Rest
<1>6. ASSUME NEW c \in Clients, CallStep(c) PROVE Moves(c, t, f)
  BY <1>2, <1>6, CallStepMoves
<1>7. ASSUME NEW c \in Clients, Settle(c) PROVE \E k \in CallType : GoesOn(c, k, t, f)
  BY <1>2, <1>7, SettleGoesOn, BusyCalls
<1>8. ASSUME NEW c \in Clients, NEW kind \in Kinds, StartCall(c, kind) PROVE \E k \in CallType : GoesOn(c, k, t, f)
  BY <1>1, <1>2, <1>8, StartGoesOn
<1> QED
  BY <1>3, <1>4, <1>5, <1>6, <1>7, <1>8, PutSteps

(* The plans of accept and reject, and how they end. *)
Refills == {<<"remove", "seed">>, <<"seed">>, <<"remove", "seed", "refill">>, <<"seed", "refill">>}
Discards == {Discard, <<"remove", "seed">>, <<"seed">>}
RejectPlans == Discards \cup {<<"restore">>, <<>>}

LEMMA PlansOf ==
  ASSUME NEW kind \in Kinds, NEW f \in Files, NEW status
  PROVE  /\ Steps(kind, f, status) = <<"restore">> => f \notin tracked
         /\ kind \in Accepts => Steps(kind, f, status) = IF f \in tracked THEN Promote ELSE <<>>
         /\ kind \in Rejects => Steps(kind, f, status) = IF f \in tracked THEN Discard ELSE <<"restore">>
         /\ kind \in Accepts => Outcome(kind) = "accepted"
         /\ kind \in Rejects => Outcome(kind) = "rejected"
<1>1. Promote # <<"restore">> /\ Discard # <<"restore">> /\ <<"seed", "edit">> # <<"restore">>
      /\ <<"seed", "refill">> # <<"restore">>
  BY DEF Promote, Discard
<1>2. <<"original">> \o Discard \o <<"refill">> # <<"restore">>
  <2> DEFINE o == <<"original">>
             d == Discard
             r == <<"refill">>
  <2>1. o \in Seq(Words) /\ d \in Seq(Words) /\ r \in Seq(Words) /\ Len(o) = 1 /\ Len(d) = 3 /\ Len(r) = 1
    BY DEF Discard, Words
  <2> HIDE DEF o, d, r
  <2>2. o \o d \in Seq(Words) /\ Len(o \o d) = 4
    <3>1. o \o d \in Seq(Words) /\ Len(o \o d) = Len(o) + Len(d)
      BY <2>1, ConcatProperties
    <3> QED
      BY <2>1, <3>1
  <2>3. Len((o \o d) \o r) = 5
    <3>1. Len((o \o d) \o r) = Len(o \o d) + Len(r)
      BY <2>1, <2>2, ConcatProperties
    <3> QED
      BY <2>1, <2>2, <3>1
  <2>4. Len(<<"restore">>) = 1
    OBVIOUS
  <2>5. (o \o d) \o r # <<"restore">>
    BY <2>3, <2>4
  <2> QED
    BY <2>5 DEF o, d, r
<1>3. kind \in Accepts => Steps(kind, f, status) = (IF f \in tracked THEN Promote ELSE <<>>) /\ Outcome(kind) = "accepted"
  BY DEF Steps, Outcome, Accepts
<1>4. kind \in Rejects => Steps(kind, f, status) = (IF f \in tracked THEN Discard ELSE <<"restore">>) /\ Outcome(kind) = "rejected"
  BY DEF Steps, Outcome, Rejects
<1>5. kind \in {"undo", "edit"} /\ f \in tracked => Steps(kind, f, status) # <<"restore">>
  BY <1>1, <1>2 DEF Steps, UndoAccepted, UndoRejected
<1>6. kind \in Accepts \cup Rejects \cup {"undo", "edit"}
  BY DEF Kinds, Accepts, Rejects
<1> QED
  BY <1>1, <1>3, <1>4, <1>5, <1>6

LEMMA DiscardTails ==
  /\ Head(Discard) = "unregister" /\ Tail(Discard) = <<"remove", "seed">>
  /\ Head(<<"remove", "seed">>) = "remove" /\ Tail(<<"remove", "seed">>) = <<"seed">>
  /\ Head(<<"seed">>) = "seed" /\ Tail(<<"seed">>) = <<>>
  /\ Head(<<"restore">>) = "restore" /\ Tail(<<"restore">>) = <<>>
<1>1. Head(Discard) = "unregister" /\ Tail(Discard) = <<"remove", "seed">>
  BY DEF Discard
<1>2. Head(<<"remove", "seed">>) = "remove" /\ Tail(<<"remove", "seed">>) = <<"seed">>
  OBVIOUS
<1>3. Head(<<"seed">>) = "seed" /\ Tail(<<"seed">>) = <<>>
  OBVIOUS
<1>4. Head(<<"restore">>) = "restore" /\ Tail(<<"restore">>) = <<>>
  OBVIOUS
<1> QED
  BY <1>1, <1>2, <1>3, <1>4

LEMMA RefillTails ==
  /\ Head(<<"remove", "seed", "refill">>) = "remove" /\ Tail(<<"remove", "seed", "refill">>) = <<"seed", "refill">>
  /\ Head(<<"seed", "refill">>) = "seed" /\ Tail(<<"seed", "refill">>) = <<"refill">>
<1>1. Head(<<"remove", "seed", "refill">>) = "remove" /\ Tail(<<"remove", "seed", "refill">>) = <<"seed", "refill">>
  OBVIOUS
<1>2. Head(<<"seed", "refill">>) = "seed" /\ Tail(<<"seed", "refill">>) = <<"refill">>
  OBVIOUS
<1> QED
  BY <1>1, <1>2

(* A sandbox that was dropped is seeded again. *)
LEMMA TailsOf ==
  ASSUME NEW s \in Plans, s # <<>>
  PROVE  /\ Head(s) = "unregister" => Tail(s) \in Refills
         /\ s \in Refills => (Head(s) = "remove" /\ Tail(s) \in Refills) \/ Head(s) = "seed"
         /\ Tail(s) # <<"restore">>
         /\ s \in RejectPlans => Tail(s) \in RejectPlans \ {<<"restore">>}
<1> DEFINE Ends == /\ Head(s) = "unregister" => Tail(s) \in Refills
                   /\ s \in Refills => (Head(s) = "remove" /\ Tail(s) \in Refills) \/ Head(s) = "seed"
                   /\ Tail(s) # <<"restore">>
<1>1. CASE s \in {<<"promote", "watermark">>, <<"watermark">>}
  <2>1. CASE s = <<"promote", "watermark">>
    <3>1. Head(s) = "promote" /\ Tail(s) = <<"watermark">> /\ s \notin Refills
      BY <2>1 DEF Refills
    <3>2. Ends
      BY <3>1
    <3> QED
      BY <2>1, <3>2 DEF RejectPlans, Discards, Discard
  <2>2. CASE s = <<"watermark">>
    <3>1. Head(s) = "watermark" /\ Tail(s) = <<>> /\ s \notin Refills
      BY <2>2 DEF Refills
    <3>2. Ends
      BY <3>1
    <3> QED
      BY <2>2, <3>2 DEF RejectPlans, Discards, Discard
  <2> QED
    BY <1>1, <2>1, <2>2
<1>2. CASE s \in RejectPlans
  <2>1. CASE s \in Discards
    <3>1. CASE s = Discard
      <4>1. Head(s) = "unregister" /\ Tail(s) = <<"remove", "seed">> /\ s \notin Refills
        BY <3>1, DiscardTails DEF Refills
      <4>2. <<"remove", "seed">> \in Refills /\ <<"remove", "seed">> \in RejectPlans /\ <<"remove", "seed">> # <<"restore">>
        BY DEF Refills, RejectPlans, Discards
      <4> QED
        BY <4>1, <4>2
    <3>2. CASE s = <<"remove", "seed">>
      <4>1. Head(s) = "remove" /\ Tail(s) = <<"seed">>
        BY <3>2, DiscardTails
      <4>2. <<"seed">> \in Refills /\ <<"seed">> \in RejectPlans /\ <<"seed">> # <<"restore">>
        BY DEF Refills, RejectPlans, Discards
      <4> QED
        BY <4>1, <4>2
    <3>3. CASE s = <<"seed">>
      <4>1. Head(s) = "seed" /\ Tail(s) = <<>>
        BY <3>3, DiscardTails
      <4> QED
        BY <3>3, <4>1 DEF RejectPlans, Discards
    <3> QED
      BY <2>1, <3>1, <3>2, <3>3 DEF Discards
  <2>2. CASE s = <<"restore">>
    BY <2>2, DiscardTails DEF RejectPlans, Refills
  <2> QED
    BY <1>2, <2>1, <2>2 DEF RejectPlans
<1>3. CASE s \in {<<"remove", "seed", "refill">>, <<"seed", "refill">>} /\ s \notin RejectPlans
  <2>1. CASE s = <<"remove", "seed", "refill">>
    <3>1. Head(s) = "remove" /\ Tail(s) = <<"seed", "refill">>
      BY <2>1, RefillTails
    <3> QED
      BY <1>3, <3>1 DEF Refills
  <2>2. CASE s = <<"seed", "refill">>
    <3>1. Head(s) = "seed" /\ Tail(s) = <<"refill">>
      BY <2>2, RefillTails
    <3> QED
      BY <1>3, <3>1
  <2> QED
    BY <1>3, <2>1, <2>2
<1>4. CASE s = <<"unregister", "remove", "seed", "refill">>
  <2>1. Head(s) = "unregister" /\ Tail(s) = <<"remove", "seed", "refill">>
    BY <1>4
  <2>2. s \notin RejectPlans /\ s \notin Refills
    BY <1>4 DEF RejectPlans, Discards, Discard, Refills
  <2> QED
    BY <2>1, <2>2 DEF Refills
<1>5. CASE s = <<"original", "unregister", "remove", "seed", "refill">>
  <2>1. Head(s) = "original" /\ Tail(s) = <<"unregister", "remove", "seed", "refill">>
    BY <1>5
  <2>2. s \notin RejectPlans /\ s \notin Refills
    BY <1>5 DEF RejectPlans, Discards, Discard, Refills
  <2> QED
    BY <2>1, <2>2
<1>6. CASE s = <<"rewrite">>
  <2>1. Head(s) = "rewrite" /\ Tail(s) = <<>>
    BY <1>6
  <2>2. s \notin RejectPlans /\ s \notin Refills
    BY <1>6 DEF RejectPlans, Discards, Discard, Refills
  <2> QED
    BY <2>1, <2>2
<1>7. CASE s = <<"refill">>
  <2>1. Head(s) = "refill" /\ Tail(s) = <<>>
    BY <1>7
  <2>2. s \notin RejectPlans /\ s \notin Refills
    BY <1>7 DEF RejectPlans, Discards, Discard, Refills
  <2> QED
    BY <2>1, <2>2
<1>8. CASE s = <<"edit">>
  <2>1. Head(s) = "edit" /\ Tail(s) = <<>>
    BY <1>8
  <2>2. s \notin RejectPlans /\ s \notin Refills
    BY <1>8 DEF RejectPlans, Discards, Discard, Refills
  <2> QED
    BY <2>1, <2>2
<1>9. CASE s = <<"seed", "edit">>
  <2>1. Head(s) = "seed" /\ Tail(s) = <<"edit">>
    BY <1>9
  <2>2. s \notin RejectPlans /\ s \notin Refills
    BY <1>9 DEF RejectPlans, Discards, Discard, Refills
  <2> QED
    BY <2>1, <2>2
<1> QED
  BY <1>1, <1>2, <1>3, <1>4, <1>5, <1>6, <1>7, <1>8, <1>9 DEF Plans, RejectPlans, Discards, Discard

(* The sandbox is gone only on the way to a new one. *)
Removable(t, f) == card[t][f].type = "added" => start[t][f] = Absent
Kept(t, f) ==
  /\ \/ f \in tracked \/ Removable(t, f)
     \/ \E c \in Clients : call[c].file = f /\ call[c].steps \in Refills
  /\ \A c \in Clients : call[c].file = f /\ call[c].steps = <<"restore">> => f \notin tracked
  /\ \A c \in Clients : call[c].file = f /\ call[c].kind \in Rejects => call[c].steps \in RejectPlans
FilesKept == \A t \in Turns : Shown(t) => \A f \in Files : Unspoilt(t, f, Few) => Kept(t, f)

LEMMA MovesKeep ==
  ASSUME Typed, NEW t \in Turns, NEW f \in Files, Kept(t, f), NEW c \in Clients, Moves(c, t, f)
  PROVE  Kept(t, f)'
<1> DEFINE k == call[c]
<1>1. k \in CallType /\ k.steps \in Plans /\ k.file \in Files /\ Busy(c)
  BY Bounds, BusyCalls DEF Moves, CallType
<1>2. \A d \in Clients \ {c} : call'[d] = call[d] /\ call[d].file # f
  BY <1>1, Bounds, BusyCalls DEF Moves, OneReview
<1>3. call'[c].file = k.file /\ call'[c].kind = k.kind /\ call'[c].steps = Tail(k.steps) /\ k.steps # <<>> /\ start' = start
  BY DEF Moves
<1>4. card'[t][f].type = card[t][f].type
  BY DEF Moves
<1>5. Removable(t, f)' <=> Removable(t, f)
  BY <1>3, <1>4 DEF Removable
<1>6. CASE k.file # f
  <2>1. f \in tracked' <=> f \in tracked
    BY <1>6 DEF Moves, Rest
  <2> QED
    BY <1>2, <1>3, <1>5, <1>6, <2>1 DEF Kept
<1>7. CASE k.file = f
  <2>1. /\ Head(k.steps) = "unregister" => Tail(k.steps) \in Refills
        /\ k.steps \in Refills => (Head(k.steps) = "remove" /\ Tail(k.steps) \in Refills) \/ Head(k.steps) = "seed"
        /\ Tail(k.steps) # <<"restore">>
        /\ k.steps \in RejectPlans => Tail(k.steps) \in RejectPlans \ {<<"restore">>}
    BY <1>1, <1>3, TailsOf
  <2>2. Head(k.steps) \in Words
    BY <1>1, <1>3, PlanTypes
  <2>3. Effect(Head(k.steps), f, card[t][f])
    BY <1>7 DEF Moves
  <2>4. Head(k.steps) = "seed" => f \in tracked'
    BY <2>3 DEF Effect, Ensure
  <2>5. Head(k.steps) \notin {"seed", "unregister"} => tracked' = tracked
    BY <2>2, <2>3 DEF Effect, SetReal, SetCopy, Words
  <2>6. f \in tracked' \/ Removable(t, f)' \/ call'[c].steps \in Refills
    <3>1. f \in tracked \/ Removable(t, f) \/ k.steps \in Refills
      BY <1>2 DEF Kept
    <3> QED
      BY <1>3, <1>5, <2>1, <2>4, <2>5, <3>1
  <2> QED
    BY <1>2, <1>3, <1>7, <2>1, <2>6 DEF Kept
<1> QED
  BY <1>6, <1>7

LEMMA GoesOnKeeps ==
  ASSUME Typed, NEW t \in Turns, NEW f \in Files, Kept(t, f), NEW c \in Clients, NEW k \in CallType, GoesOn(c, k, t, f)
  PROVE  Kept(t, f)'
<1>0. CallTyped
  BY DEF Typed
<1>1. \A d \in Clients : call[d].file = f => d = c /\ call[d].steps = <<>>
  <2>1. CASE Settles(c, k, t, f)
    <3>1. call[c].steps = <<>> /\ Busy(c)
      BY <2>1, Bounds, BusyCalls DEF Settles
    <3> QED
      BY <3>1, Bounds, BusyCalls DEF GoesOn, OneReview
  <2>2. CASE Starts(k, t, f)
    BY <2>2 DEF Starts, InHand
  <2> QED
    BY <2>1, <2>2 DEF GoesOn
<1>2. <<>> \notin Refills
  BY DEF Refills
<1>3. (f \in tracked' <=> f \in tracked) /\ (Removable(t, f)' <=> Removable(t, f)) /\ (f \in tracked \/ Removable(t, f))
  BY <1>1, <1>2 DEF GoesOn, Rest, Removable, Kept
<1>4. CASE call' = [call EXCEPT ![c] = NoCall]
  <2>1. \A d \in Clients : call'[d].file # f
    BY <1>0, <1>1, <1>4, Nothing, Bounds DEF CallTyped
  <2> QED
    BY <1>3, <2>1 DEF Kept
<1>5. CASE call' # [call EXCEPT ![c] = NoCall]
  <2>1. PICK r \in CallType, g \in k.todo :
        /\ call' = [call EXCEPT ![c] = r] /\ r.kind = k.kind /\ r.file = g
        /\ r.steps = <<>> \/ r.steps = Steps(k.kind, g, card'[t][g].status)
    BY <1>5 DEF GoesOn, TurnsTo
  <2>2. call'[c] = r /\ \A d \in Clients \ {c} : call'[d].file # f
    BY <1>0, <1>1, <2>1 DEF CallTyped
  <2>3. k.kind \in Kinds /\ <<>> # <<"restore">>
    BY DEF GoesOn
  <2>4. r.steps = <<"restore">> /\ r.file = f => f \notin tracked
    BY <2>1, <2>3, PlansOf
  <2>5. r.kind \in Rejects /\ r.file = f => r.steps \in RejectPlans
    BY <2>1, <2>3, PlansOf DEF RejectPlans, Discards
  <2> QED
    BY <1>3, <2>2, <2>4, <2>5 DEF Kept
<1> QED
  BY <1>4, <1>5

LEMMA NextFilesKept == Typed /\ LoneTurns /\ Puts /\ Working /\ FilesKept /\ [Next]_vars => FilesKept'
<1> SUFFICES ASSUME Typed, LoneTurns, Puts, Working, FilesKept, [Next]_vars, NEW t \in Turns, Shown(t)',
                    NEW f \in Files, Unspoilt(t, f, Few)'
             PROVE  Kept(t, f)'
  BY DEF FilesKept
<1>1. ~BeginTurn /\ ~Restart /\ Unspoilt(t, f, Few)
  BY ShownBefore, UnspoiltBefore
<1>2. CASE ~Shown(t)
  <2>1. Freeze(t)
    BY <1>2, ShownBefore
  <2>2. /\ Lone(t) /\ NoReview /\ card' = [card EXCEPT ![t] = pending] /\ UNCHANGED <<fsVars, call, start>>
    BY <1>2, <2>1, FreezePuts
  <2>3. Writes(t, f) /\ card'[t][f] = pending[f] /\ \A c \in Clients : call'[c].file # f
    BY <1>1, <2>2, Bounds, BusyCalls DEF Working, NoReview, Typed, CardTyped
  <2>4. UNCHANGED <<tracked, start>>
    BY <2>2 DEF fsVars
  <2> QED
    BY <2>3, <2>4 DEF Kept, Removable, Writes, Restores
<1>3. CASE Shown(t)
  <2>1. Put(t) /\ Kept(t, f)
    BY <1>1, <1>3 DEF Puts, FilesKept
  <2>2. CASE Quiet(t, f)
    BY <2>1, <2>2 DEF Quiet, Rest, Kept, Removable
  <2> QED
    BY <1>1, <2>1, <2>2, ReviewSteps, MovesKeep, GoesOnKeeps
<1> QED
  BY <1>2, <1>3

LEMMA FilesKeptHold == Spec => []FilesKept
<1>1. Init => FilesKept
  <2> SUFFICES ASSUME Init, NEW t \in Turns, Shown(t) PROVE FALSE
    BY DEF FilesKept
  <2>1. sets = {} /\ \A c \in Clients : call[c].set = 0
    BY Nothing DEF Init
  <2> QED
    BY <2>1, ContentTypes DEF Shown
<1> QED
  BY <1>1, NextFilesKept, PutsHold, WorkingHolds, LoneTurnsHold, TypesHold, PTL DEF Spec

(* A reject never leaves the user without a file that was there when the   *)
(* turn began: what it removes, the turn had added (rejectFile,            *)
(* restoreFile).                                                           *)
THEOREM RejectsKeepFiles == Spec => RejectKeepsTheUsersFiles
<1> DEFINE Keeps == \A c \in Clients : \A f \in Files :
                      LET t == call[c].set IN
                      /\ call[c].file = f /\ call[c].kind \in {"reject", "rejectAll"}
                      /\ call'[c] # call[c] /\ real[f] # Absent /\ real'[f] = Absent
                      /\ Unspoilt(t, f, {"late", "twice", "outside", "opened"})
                      => start[t][f] = Absent
<1>1. ASSUME Typed, Puts, FilesKept, [Next]_vars, NEW c \in Clients, NEW f \in Files,
             call[c].file = f, call[c].kind \in Rejects, call'[c] # call[c], real[f] # Absent, real'[f] = Absent,
             Unspoilt(call[c].set, f, Few)
      PROVE  start[call[c].set][f] = Absent
  <2> DEFINE t == call[c].set
             k == call[c]
  <2>0. FsTyped /\ CallTyped
    BY <1>1 DEF Typed
  <2>1. t \in Turns /\ Busy(c) /\ k \in CallType
    BY <1>1, Bounds, BusyCalls
  <2>2. Shown(t) /\ Put(t) /\ Kept(t, f) /\ OneReview
    BY <1>1, <2>1 DEF Shown, Unspoilt, Puts, FilesKept, Few, Put
  <2>3. CallStep(c)
    <3>1. ~BeginTurn /\ ~ClearConversation /\ call' # call
      BY <1>1 DEF BeginTurn, ClearConversation
    <3>2. /\ ~Restart
          /\ \A d \in Clients : ~Settle(d)
          /\ \A d \in Clients, kind \in Kinds : ~StartCall(d, kind)
      <4>1. real' # real
        BY <1>1
      <4>2. ~Restart
        BY <4>1 DEF Restart
      <4>3. \A d \in Clients : ~Settle(d)
        BY <4>1 DEF Settle, fsVars
      <4>4. \A d \in Clients, kind \in Kinds : ~StartCall(d, kind)
        BY <4>1 DEF StartCall, fsVars
      <4> QED
        BY <4>2, <4>3, <4>4
    <3>3. \A g \in Files : ~Open(g) /\ ~Notice(g) /\ ~Outside(g)
      BY <3>1 DEF Open, Notice, Outside, cardVars
    <3>4. ~(UNCHANGED vars)
      BY <3>1 DEF vars
    <3>5. PICK d \in Clients : CallStep(d)
      BY <1>1, <2>1, <2>2, <3>1, <3>2, <3>3, <3>4, PutSteps
    <3>6. d = c
      BY <1>1, <2>0, <3>5 DEF CallStep, CallTyped
    <3> QED
      BY <3>5, <3>6
  <2>4. Moves(c, t, f)
    BY <1>1, <2>1, <2>2, <2>3, CallStepMoves
  <2>5. k.steps # <<>> /\ k.steps \in RejectPlans /\ Effect(Head(k.steps), f, card[t][f])
    BY <1>1, <2>2, <2>4 DEF Moves, Kept
  <2>6. k.steps = <<"restore">>
    <3>1. CASE k.steps \in Discards
      <4>1. Head(k.steps) \in {"unregister", "remove", "seed"}
        BY <3>1, DiscardTails DEF Discards
      <4>2. real' = real
        BY <2>5, <4>1 DEF Effect, SetCopy
      <4> QED
        BY <1>1, <4>2
    <3> QED
      BY <2>5, <3>1 DEF RejectPlans
  <2>7. Head(k.steps) = "restore" /\ <<"restore">> \notin Refills
    BY <2>6, DiscardTails DEF Refills
  <2>8. real' = [real EXCEPT ![f] = Restored(f, card[t][f])]
    BY <2>5, <2>7 DEF Effect, SetReal
  <2>9. Restored(f, card[t][f]) = Absent
    BY <1>1, <2>0, <2>8 DEF FsTyped
  <2>10. card[t][f].type = "added"
    BY <1>1, <2>9 DEF Restored
  <2>11. \A d \in Clients : call[d].file = f => d = c
    BY <1>1, <2>1, <2>2, Bounds, BusyCalls DEF OneReview
  <2>12. f \notin tracked /\ Removable(t, f)
    BY <1>1, <2>2, <2>6, <2>7, <2>11 DEF Kept
  <2> QED
    BY <2>10, <2>12 DEF Removable
<1>2. Typed /\ Puts /\ FilesKept /\ [Next]_vars => [Keeps]_vars
  BY <1>1 DEF Rejects, Few, Unspoilt
<1>3. RejectKeepsTheUsersFiles <=> [][Keeps]_vars
  BY DEF RejectKeepsTheUsersFiles
<1> QED
  BY <1>2, <1>3, TypesHold, PutsHold, FilesKeptHold, PTL DEF Spec

-----------------------------------------------------------------------------
(* Accepting *)

OnDisk(t, f) == real[f] = IF card[t][f].type = "deleted" THEN Absent ELSE card[t][f].new

(* A call that has f in hand or before it accepts or rejects. *)
Once(t, f) ==
  \A c \in Clients : Busy(c) /\ (call[c].file = f \/ f \in call[c].todo) => call[c].kind \in Accepts \cup Rejects

Accepting(t, f, k) ==
  \/ k.kind \in Rejects /\ k.to = "rejected"
  \/ k.kind \in Accepts /\ k.to = "rejected" /\ k.steps = <<>>
  \/ k.kind \in Accepts /\ k.to = "accepted" /\ k.steps = Promote /\ f \in tracked /\ Matches(card[t][f], f)
  \/ k.kind \in Accepts /\ k.to = "accepted" /\ k.steps \in {<<"watermark">>, <<>>} /\ OnDisk(t, f)
Acceptable(t, f) ==
  /\ card[t][f].status \in {"pending", "accepted", "rejected"}
  /\ card[t][f].status = "pending" => Matches(card[t][f], f)
  /\ card[t][f].status = "accepted" => OnDisk(t, f)
Accepted(t, f) ==
  /\ Once(t, f)
  /\ \A c \in Clients : call[c].file = f => Accepting(t, f, call[c])
  /\ ~InHand(f, {}) => Acceptable(t, f)
FilesAccepted ==
  \A t \in Turns : Shown(t) => \A f \in Listed(card[t]) \ Large : Unspoilt(t, f, FewEdits) => Accepted(t, f)

(* No step of a call changes what is listed. *)
LEMMA StaysListed ==
  ASSUME NEW t, NEW f \in Files,
         \/ Quiet(t, f)
         \/ \E c \in Clients : Moves(c, t, f)
         \/ \E c \in Clients, k \in CallType : GoesOn(c, k, t, f)
  PROVE  card'[t][f].type = card[t][f].type
BY DEF Quiet, Moves, GoesOn

(* While one file of a call is in hand no other is. *)
LEMMA OneInHand ==
  ASSUME Typed, OneReview, NEW c \in Clients, call[c].file \in Files, NEW f \in Files
  PROVE  /\ Busy(c)
         /\ \A d \in Clients : call[d].file = f => d = c
         /\ call[c].file # f => ~InHand(f, {})
<1>1. Busy(c)
  BY Bounds, BusyCalls
<1>2. \A d \in Clients : call[d].file = f => d = c
  BY <1>1, Bounds, BusyCalls DEF OneReview
<1> QED
  BY <1>1, <1>2 DEF InHand

(* What a call has before it, it had before. *)
LEMMA MovesOnce ==
  ASSUME Typed, NEW t, NEW f \in Files, Once(t, f), NEW c \in Clients, Moves(c, t, f)
  PROVE  Once(t, f)'
BY DEF Moves, Once, Busy

LEMMA GoesOnOnce ==
  ASSUME Typed, NEW t, NEW f \in Files, Once(t, f), NEW c \in Clients, NEW k \in CallType, GoesOn(c, k, t, f),
         <<t, f, "redone">> \notin flaws'
  PROVE  /\ f \in k.todo => k.kind \in Accepts \cup Rejects
         /\ Once(t, f)'
<1>0. CallTyped
  BY DEF Typed
<1>1. f \in k.todo => k.kind \in Accepts \cup Rejects
  <2>1. CASE Settles(c, k, t, f)
    <3>1. Busy(c)
      BY <2>1, Bounds, BusyCalls DEF Settles
    <3> QED
      BY <2>1, <3>1 DEF Settles, Once
  <2>2. CASE Starts(k, t, f)
    BY <2>2 DEF Starts, GoesOn, Kinds, Accepts, Rejects
  <2> QED
    BY <2>1, <2>2 DEF GoesOn
<1>2. CASE call' = [call EXCEPT ![c] = NoCall]
  BY <1>0, <1>1, <1>2, Nothing DEF Once, Busy, CallTyped
<1>3. CASE call' # [call EXCEPT ![c] = NoCall]
  <2>1. PICK r \in CallType, g \in k.todo :
          call' = [call EXCEPT ![c] = r] /\ r.kind = k.kind /\ r.file = g /\ r.todo = k.todo \ {g}
    BY <1>3 DEF GoesOn, TurnsTo
  <2>2. call'[c] = r /\ \A d \in Clients \ {c} : call'[d] = call[d]
    BY <1>0, <2>1 DEF CallTyped
  <2>3. r.file = f \/ f \in r.todo => r.kind \in Accepts \cup Rejects
    BY <1>1, <2>1
  <2> QED
    BY <1>1, <2>2, <2>3 DEF Once, Busy
<1> QED
  BY <1>2, <1>3, <1>1

(* Where the set says what the sandbox holds, so does the file from then   *)
(* on.                                                                     *)
LEMMA PromotePuts ==
  ASSUME Typed, NEW t, NEW f \in Files, f \in tracked, Matches(card[t][f], f), card'[t][f] = card[t][f],
         Effect("promote", f, card[t][f])
  PROVE  OnDisk(t, f)'
<1>1. card[t][f].type # "deleted" /\ copyFile[f] = card[t][f].new /\ copyFile[f] # Absent
  BY DEF Matches, Here
<1>2. real'[f] = copyFile[f]
  BY <1>1 DEF Effect, SetReal, Typed, FsTyped
<1> QED
  BY <1>1, <1>2 DEF OnDisk

LEMMA MovesAccepted ==
  ASSUME Typed, NEW t \in Turns, NEW f \in Files, Accepted(t, f), NEW c \in Clients, Moves(c, t, f)
  PROVE  Accepted(t, f)'
<1> DEFINE k == call[c]
<1>1. k.file \in Files /\ k.steps # <<>> /\ OneReview /\ call'[c].file = k.file /\ k \in CallType
      /\ call'[c].kind = k.kind /\ call'[c].to = k.to /\ call'[c].steps = Tail(k.steps)
      /\ \A d \in Clients \ {c} : call'[d] = call[d]
  BY BusyCalls DEF Moves
<1>2. \A d \in Clients : call[d].file = f => d = c
  BY <1>1, OneInHand
<1>3. Once(t, f)'
  BY MovesOnce DEF Accepted
<1>4. CASE k.file # f
  <2>1. ~InHand(f, {})
    BY <1>1, <1>4, OneInHand
  <2>2. Rest(f) /\ card'[t][f] = card[t][f]
    BY <1>4 DEF Moves
  <2>3. Acceptable(t, f)'
    BY <2>1, <2>2 DEF Accepted, Acceptable, Rest, Matches, Here, OnDisk
  <2>4. \A d \in Clients : call'[d].file # f
    BY <1>1, <1>2, <1>4
  <2> QED
    BY <1>3, <2>3, <2>4 DEF Accepted
<1>5. CASE k.file = f
  <2>1. Accepting(t, f, k)
    BY <1>5 DEF Accepted
  <2>2. InHand(f, {})'
    BY <1>1, <1>5 DEF InHand
  <2>3. Accepting(t, f, call[c])'
    <3>1. CASE k.kind \in Rejects /\ k.to = "rejected"
      BY <1>1, <3>1 DEF Accepting
    <3>2. CASE k.kind \in Accepts /\ k.to = "accepted" /\ k.steps = Promote /\ f \in tracked /\ Matches(card[t][f], f)
      <4>1. Head(Promote) = "promote" /\ Tail(Promote) = <<"watermark">>
        BY DEF Promote
      <4>2. OnDisk(t, f)'
        BY <1>5, <3>2, <4>1, PromotePuts DEF Moves
      <4> QED
        BY <1>1, <3>2, <4>1, <4>2 DEF Accepting
    <3>3. CASE k.kind \in Accepts /\ k.to = "accepted" /\ k.steps \in {<<"watermark">>, <<>>} /\ OnDisk(t, f)
      <4>1. k.steps = <<"watermark">> /\ Head(<<"watermark">>) = "watermark" /\ Tail(<<"watermark">>) = <<>>
        BY <1>1, <3>3
      <4>2. OnDisk(t, f)'
        BY <1>5, <3>3, <4>1 DEF Moves, Effect, OnDisk
      <4> QED
        BY <1>1, <3>3, <4>1, <4>2 DEF Accepting
    <3> QED
      BY <1>1, <2>1, <3>1, <3>2, <3>3 DEF Accepting
  <2> QED
    BY <1>1, <1>2, <1>3, <1>5, <2>2, <2>3 DEF Accepted
<1> QED
  BY <1>4, <1>5

LEMMA GoesOnAccepted ==
  ASSUME Typed, NEW t \in Turns, NEW f \in Files, Accepted(t, f), NEW c \in Clients, NEW k \in CallType,
         GoesOn(c, k, t, f), <<t, f, "redone">> \notin flaws'
  PROVE  Accepted(t, f)'
<1>0. CallTyped
  BY DEF Typed
<1>1. (f \in k.todo => k.kind \in Accepts \cup Rejects) /\ Once(t, f)'
  <2>1. Once(t, f)
    BY DEF Accepted
  <2> QED
    BY <2>1, GoesOnOnce
<1>2. /\ card'[t][f].type = card[t][f].type /\ card'[t][f].new = card[t][f].new
      /\ UNCHANGED <<real[f], copyFile[f]>> /\ (f \in tracked' <=> f \in tracked)
  BY DEF GoesOn, Rest
<1>3. /\ Matches(card[t][f], f) => Matches(card[t][f], f)'
      /\ OnDisk(t, f) => OnDisk(t, f)'
  BY <1>2 DEF Matches, Here, OnDisk
<1>4. Acceptable(t, f)'
  <2>1. CASE ~InHand(f, {}) /\ card'[t][f].status = card[t][f].status
    BY <1>3, <2>1 DEF Accepted, Acceptable
  <2>2. CASE Settles(c, k, t, f)
    <3>1. k.file \in Files /\ k.steps = <<>> /\ OneReview /\ k = call[c]
      BY <2>2 DEF Settles, GoesOn
    <3>2. CASE k.file # f
      BY <2>1, <2>2, <3>1, <3>2, OneInHand DEF Settles
    <3>3. CASE k.file = f
      <4>1. Accepting(t, f, k) /\ card'[t][f].status = k.to /\ Promote # <<>>
        BY <2>2, <3>1, <3>3 DEF Accepted, Settles, Promote
      <4> QED
        BY <1>3, <3>1, <4>1 DEF Accepting, Acceptable
    <3> QED
      BY <3>2, <3>3
  <2> QED
    BY <2>1, <2>2 DEF GoesOn, Starts
<1>5. \A d \in Clients \ {c} : call[d].file # f
  <2>1. CASE Settles(c, k, t, f)
    BY <2>1, OneInHand DEF Settles, GoesOn
  <2>2. CASE Starts(k, t, f)
    BY <2>2 DEF Starts, InHand
  <2> QED
    BY <2>1, <2>2 DEF GoesOn
<1>6. CASE call' = [call EXCEPT ![c] = NoCall]
  <2>1. \A d \in Clients : call'[d].file # f
    BY <1>0, <1>5, <1>6, Nothing, Bounds DEF CallTyped
  <2> QED
    BY <1>1, <1>4, <2>1 DEF Accepted
<1>7. CASE call' # [call EXCEPT ![c] = NoCall]
  <2>1. PICK r \in CallType, g \in k.todo :
          /\ call' = [call EXCEPT ![c] = r]
          /\ r.kind = k.kind /\ r.file = g
          /\ \/ /\ k.kind \in Accepts /\ card'[t][g].status \notin {"pending", "edited"}
                /\ r.steps = <<>> /\ r.to = card'[t][g].status
             \/ /\ k.kind \in Accepts => card'[t][g].status \in {"pending", "edited"}
                /\ r.steps = Steps(k.kind, g, card'[t][g].status) /\ r.to = Outcome(k.kind)
    BY <1>7 DEF GoesOn, TurnsTo
  <2>2. call'[c] = r /\ \A d \in Clients \ {c} : call'[d].file # f
    BY <1>0, <1>5, <2>1 DEF CallTyped
  <2>3. CASE g # f
    BY <1>1, <1>4, <2>1, <2>2, <2>3 DEF Accepted
  <2>4. CASE g = f
    <3>1. k.kind \in Kinds
      BY DEF GoesOn
    <3>2. Accepting(t, f, r)'
      <4>1. CASE k.kind \in Rejects
        <5>1. k.kind \notin Accepts
          BY <4>1 DEF Accepts, Rejects
        <5> QED
          BY <2>1, <3>1, <4>1, <5>1, PlansOf DEF Accepting
      <4>2. CASE k.kind \in Accepts /\ card'[t][f].status \notin {"pending", "edited"}
        BY <1>4, <2>1, <2>4, <4>2 DEF Acceptable, Accepting
      <4>3. CASE k.kind \in Accepts /\ card'[t][f].status \in {"pending", "edited"}
        <5>1. Matches(card[t][f], f)'
          BY <1>4, <4>3 DEF Acceptable
        <5>2. r.to = "accepted" /\ r.kind \in Accepts /\ r.steps = IF f \in tracked THEN Promote ELSE <<>>
          BY <2>1, <2>4, <3>1, <4>3, PlansOf
        <5>3. f \notin tracked => OnDisk(t, f)'
          BY <1>2, <5>1 DEF Matches, Here, OnDisk
        <5> QED
          BY <1>2, <5>1, <5>2, <5>3 DEF Accepting
      <4> QED
        BY <1>1, <2>4, <4>1, <4>2, <4>3
    <3>3. InHand(f, {})'
      BY <2>1, <2>2, <2>4 DEF InHand
    <3> QED
      BY <1>1, <2>2, <3>2, <3>3 DEF Accepted
  <2> QED
    BY <2>3, <2>4
<1> QED
  BY <1>6, <1>7

LEMMA NextFilesAccepted == Typed /\ LoneTurns /\ Puts /\ Working /\ FilesAccepted /\ [Next]_vars => FilesAccepted'
<1> SUFFICES ASSUME Typed, LoneTurns, Puts, Working, FilesAccepted, [Next]_vars, NEW t \in Turns, Shown(t)',
                    NEW f \in Listed(card'[t]) \ Large, Unspoilt(t, f, FewEdits)'
             PROVE  Accepted(t, f)'
  BY DEF FilesAccepted
<1>0. f \in Files \ Large
  BY DEF Listed
<1>1. /\ ~BeginTurn /\ ~Restart /\ Unspoilt(t, f, FewEdits) /\ Unspoilt(t, f, Few)' /\ <<t, f, "redone">> \notin flaws'
  <2>1. ~BeginTurn /\ ~Restart
    BY ShownBefore
  <2>2. Unspoilt(t, f, FewEdits)
    BY <2>1, UnspoiltBefore
  <2> QED
    BY <2>1, <2>2 DEF Unspoilt, Few, FewEdits
<1>2. CASE ~Shown(t)
  <2>1. Freeze(t)
    BY <1>2, ShownBefore
  <2>2. /\ Lone(t) /\ NoReview /\ card' = [card EXCEPT ![t] = pending] /\ UNCHANGED <<fsVars, call, start>>
    BY <1>2, <2>1, FreezePuts
  <2>3. Unspoilt(t, f, Few)
    BY <1>1 DEF Unspoilt, Few, FewEdits
  <2>4. Writes(t, f) /\ card'[t][f] = pending[f] /\ \A c \in Clients : call'[c].file # f /\ ~Busy(c)'
    BY <1>0, <2>2, <2>3, Bounds, BusyCalls DEF Working, NoReview, Typed, CardTyped, Busy
  <2>5. UNCHANGED <<real, copyFile, tracked>>
    BY <2>2 DEF fsVars
  <2>6. pending[f].type # "none"
    BY <2>4 DEF Listed
  <2>7. Matches(pending[f], f) /\ pending[f].status = "pending"
    BY <1>0, <2>4, <2>6 DEF Writes
  <2>8. Acceptable(t, f)'
    BY <2>4, <2>5, <2>7 DEF Acceptable, Matches, Here
  <2> QED
    BY <2>4, <2>8 DEF Accepted, Once
<1>3. CASE Shown(t)
  <2>1. Put(t)
    BY <1>3 DEF Puts
  <2>2. \/ Quiet(t, f)
        \/ \E c \in Clients : Moves(c, t, f)
        \/ \E c \in Clients, k \in CallType : GoesOn(c, k, t, f)
    BY <1>0, <1>1, <2>1, ReviewSteps
  <2>3. f \in Listed(card[t]) \ Large
    BY <1>0, <2>2, StaysListed DEF Listed
  <2>4. Accepted(t, f)
    BY <1>1, <1>3, <2>3 DEF FilesAccepted
  <2>5. CASE Quiet(t, f)
    <3>1. /\ call' = call /\ card'[t][f] = card[t][f] /\ UNCHANGED <<real[f], copyFile[f]>> /\ (f \in tracked' <=> f \in tracked)
      BY <2>5 DEF Quiet, Rest
    <3>2. (Matches(card[t][f], f) => Matches(card[t][f], f)') /\ (OnDisk(t, f) => OnDisk(t, f)')
      BY <3>1 DEF Matches, Here, OnDisk
    <3>3. Acceptable(t, f) => Acceptable(t, f)'
      BY <3>1, <3>2 DEF Acceptable
    <3>4. \A c \in Clients : Accepting(t, f, call[c]) => Accepting(t, f, call[c])'
      BY <3>1, <3>2 DEF Accepting
    <3> QED
      BY <2>4, <3>1, <3>3, <3>4 DEF Accepted, Once, Busy, InHand
  <2> QED
    BY <1>0, <1>1, <2>2, <2>4, <2>5, MovesAccepted, GoesOnAccepted
<1> QED
  BY <1>2, <1>3

LEMMA FilesAcceptedHold == Spec => []FilesAccepted
<1>1. Init => FilesAccepted
  <2> SUFFICES ASSUME Init, NEW t \in Turns, Shown(t) PROVE FALSE
    BY DEF FilesAccepted
  <2>1. sets = {} /\ \A c \in Clients : call[c].set = 0
    BY Nothing DEF Init
  <2> QED
    BY <2>1, ContentTypes DEF Shown
<1> QED
  BY <1>1, NextFilesAccepted, PutsHold, WorkingHolds, LoneTurnsHold, TypesHold, PTL DEF Spec

(* A file shown as accepted is on disk as its card shows it, whether the   *)
(* turn wrote it in place or accept promoted its sandbox (acceptFile,      *)
(* acceptAll).                                                             *)
THEOREM AcceptedFilesAreOnDisk == Spec => []AcceptedIsOnDisk
<1>1. FilesAccepted /\ Typed => AcceptedIsOnDisk
  <2> SUFFICES ASSUME FilesAccepted, Typed, NEW t \in sets, NEW f \in Listed(card[t]) \ Large,
                      card[t][f].status = "accepted", ~InHand(f, {}),
                      Unspoilt(t, f, {"outside", "late", "twice", "redone", "opened"})
               PROVE  real[f] = IF card[t][f].type = "deleted" THEN Absent ELSE card[t][f].new
    BY DEF AcceptedIsOnDisk
  <2>1. t \in Turns /\ Shown(t)
    BY DEF Typed, CardTyped, Shown, Unspoilt
  <2>2. Accepted(t, f)
    BY <2>1 DEF FilesAccepted, FewEdits
  <2> QED
    BY <2>2 DEF Accepted, Acceptable, OnDisk
<1> QED
  BY <1>1, FilesAcceptedHold, TypesHold, PTL

-----------------------------------------------------------------------------
(* Rejecting *)

Back(t, f) == real[f] = start[t][f]
(* It is as the turn found it, or restoring its original makes it so. *)
Undoable(t, f) == IF f \in tracked THEN Back(t, f) ELSE Restores(card[t][f], f, start[t][f])

Rejecting(t, f, k) ==
  \/ k.kind \in Rejects /\ k.steps \in Discards /\ Back(t, f)
  \/ k.kind \in Rejects /\ k.steps = <<"restore">> /\ f \notin tracked /\ Restores(card[t][f], f, start[t][f])
  \/ k.kind \in Rejects /\ k.steps = <<>> /\ Back(t, f) /\ Undoable(t, f)
  \/ /\ k.kind \in Accepts /\ k.steps \in {<<>>, Promote} /\ Undoable(t, f)
     /\ k.to = "rejected" => Back(t, f)
Rejected(t, f) ==
  /\ Once(t, f)
  /\ \A c \in Clients : call[c].file = f => Rejecting(t, f, call[c])
  /\ ~InHand(f, {}) => Undoable(t, f) /\ (card[t][f].status = "rejected" => Back(t, f))
  /\ \A c \in Clients : call[c].kind = "rejectAll" /\ f \notin call[c].todo /\ call[c].file # f => Back(t, f)
FilesRejected ==
  \A t \in Turns : Shown(t) => \A f \in Listed(card[t]) \ Large : Unspoilt(t, f, FewMoves) => Rejected(t, f)

LEMMA RestorePuts ==
  ASSUME Typed, NEW t \in Turns, NEW f \in Files \ Large, f \in Listed(card[t]),
         Restores(card[t][f], f, start[t][f]), UNCHANGED start, Effect("restore", f, card[t][f])
  PROVE  Back(t, f)'
<1>1. FsTyped /\ card[t][f] \in Entries
  BY DEF Typed, CardTyped
<1>2. real'[f] = Restored(f, card[t][f])
  BY <1>1 DEF Effect, SetReal, FsTyped
<1>3. CASE card[t][f].type = "added"
  BY <1>2, <1>3 DEF Restored, Restores, Back
<1>4. CASE card[t][f].type # "added"
  BY <1>2, <1>4 DEF Restored, Restores, Back
<1> QED
  BY <1>3, <1>4

LEMMA MovesRejected ==
  ASSUME Typed, NEW t \in Turns, NEW f \in Files \ Large, f \in Listed(card[t]), Rejected(t, f),
         NEW c \in Clients, Moves(c, t, f), <<t, f, "promoted">> \notin flaws'
  PROVE  Rejected(t, f)'
<1> DEFINE k == call[c]
<1>1. k.file \in Files /\ k.steps # <<>> /\ OneReview /\ call'[c].file = k.file /\ k \in CallType
      /\ call'[c].kind = k.kind /\ call'[c].to = k.to /\ call'[c].steps = Tail(k.steps) /\ call'[c].todo = k.todo
      /\ (\A d \in Clients \ {c} : call'[d] = call[d]) /\ start' = start
  BY BusyCalls DEF Moves
<1>2. /\ \A d \in Clients : call[d].file = f => d = c
      /\ \A d \in Clients : call[d].kind = "rejectAll" => d = c
  <2>1. Busy(c)
    BY <1>1, OneInHand
  <2> QED
    BY <1>1, <2>1, OneInHand DEF OneReview, Busy
<1>3. Once(t, f)'
  <2>1. Once(t, f)
    BY DEF Rejected
  <2> QED
    BY <2>1, MovesOnce
<1>4. CASE k.file # f
  <2>1. ~InHand(f, {})
    BY <1>1, <1>4, OneInHand
  <2>2. Rest(f) /\ card'[t][f] = card[t][f]
    BY <1>4 DEF Moves
  <2>3. (Back(t, f)' <=> Back(t, f)) /\ (Undoable(t, f)' <=> Undoable(t, f))
    BY <1>1, <2>2 DEF Rest, Back, Undoable
  <2>4. \A d \in Clients : call'[d].file # f
    BY <1>1, <1>2, <1>4
  <2>5. \A d \in Clients : call'[d].kind = call[d].kind /\ call'[d].todo = call[d].todo /\ call'[d].file = call[d].file
    BY <1>1
  <2> QED
    BY <1>3, <2>1, <2>2, <2>3, <2>4, <2>5 DEF Rejected
<1>5. CASE k.file = f
  <2>1. Rejecting(t, f, k) /\ Effect(Head(k.steps), f, card[t][f])
    BY <1>5 DEF Rejected, Moves
  <2>2. InHand(f, {})' /\ Head(Promote) = "promote"
    BY <1>1, <1>5 DEF InHand, Promote
  <2>3. Head(k.steps) # "promote" /\ (Head(k.steps) # "edit" => card'[t][f] = card[t][f])
    BY <1>5 DEF Moves
  <2>4. Rejecting(t, f, call[c])'
    <3>1. CASE k.kind \in Rejects /\ k.steps \in Discards /\ Back(t, f)
      <4>1. /\ Head(k.steps) \in {"unregister", "remove", "seed"}
            /\ \/ Tail(k.steps) \in Discards
               \/ Head(k.steps) = "seed" /\ Tail(k.steps) = <<>>
        BY <3>1, DiscardTails DEF Discards
      <4>2. real' = real
        BY <2>1, <4>1 DEF Effect, SetCopy
      <4>3. Back(t, f)'
        BY <1>1, <3>1, <4>2 DEF Back
      <4>4. Head(k.steps) = "seed" => f \in tracked'
        BY <2>1 DEF Effect, Ensure
      <4>5. Head(k.steps) = "seed" => Undoable(t, f)'
        BY <4>3, <4>4 DEF Undoable
      <4> QED
        BY <1>1, <3>1, <4>1, <4>3, <4>5 DEF Rejecting
    <3>2. CASE k.kind \in Rejects /\ k.steps = <<"restore">> /\ f \notin tracked /\ Restores(card[t][f], f, start[t][f])
      <4>1. Effect("restore", f, card[t][f]) /\ Tail(k.steps) = <<>> /\ card'[t][f] = card[t][f]
        BY <2>1, <2>3, <3>2, DiscardTails
      <4>2. Back(t, f)'
        BY <1>1, <3>2, <4>1, RestorePuts
      <4>3. Undoable(t, f)'
        BY <1>1, <3>2, <4>1, <4>2 DEF Undoable
      <4> QED
        BY <1>1, <3>2, <4>1, <4>2, <4>3 DEF Rejecting
    <3> QED
      BY <1>1, <2>1, <2>2, <2>3, <3>1, <3>2 DEF Rejecting
  <2>5. \A d \in Clients : call'[d].kind = "rejectAll" => d = c
    BY <1>1, <1>2
  <2> QED
    BY <1>1, <1>2, <1>3, <1>5, <2>2, <2>4, <2>5 DEF Rejected
<1> QED
  BY <1>4, <1>5

LEMMA GoesOnRejected ==
  ASSUME Typed, NEW t \in Turns, NEW f \in Files, f \in Listed(card[t]), Rejected(t, f), NEW c \in Clients,
         NEW k \in CallType, GoesOn(c, k, t, f), <<t, f, "redone">> \notin flaws'
  PROVE  Rejected(t, f)'
<1>0. CallTyped
  BY DEF Typed
<1>1. (f \in k.todo => k.kind \in Accepts \cup Rejects) /\ Once(t, f)'
  <2>1. Once(t, f)
    BY DEF Rejected
  <2> QED
    BY <2>1, GoesOnOnce
<1>2. /\ card'[t][f].type = card[t][f].type /\ card'[t][f].orig = card[t][f].orig
      /\ UNCHANGED <<real[f], copyFile[f], start>> /\ (f \in tracked' <=> f \in tracked)
  BY DEF GoesOn, Rest
<1>3. (Back(t, f)' <=> Back(t, f)) /\ (Undoable(t, f)' <=> Undoable(t, f))
  BY <1>2 DEF Back, Undoable, Restores
<1>4. /\ Undoable(t, f) /\ (card'[t][f].status = "rejected" => Back(t, f))
      /\ k.kind = "rejectAll" /\ f \notin k.todo => Back(t, f)
  <2>1. CASE Starts(k, t, f)
    BY <2>1 DEF Starts, Rejected
  <2>2. CASE Settles(c, k, t, f)
    <3>1. k.file \in Files /\ k.steps = <<>> /\ OneReview /\ k = call[c]
      BY <2>2 DEF Settles, GoesOn
    <3>2. CASE k.file # f
      <4>1. ~InHand(f, {})
        BY <3>1, <3>2, OneInHand
      <4> QED
        BY <2>2, <3>1, <3>2, <4>1 DEF Settles, Rejected
    <3>3. CASE k.file = f
      <4>1. Rejecting(t, f, k) /\ card'[t][f].status = k.to /\ <<>> \notin Discards /\ <<>> # <<"restore">>
        BY <2>2, <3>1, <3>3 DEF Rejected, Settles, Discards, Discard
      <4>2. k.kind = "rejectAll" => k.kind \notin Accepts
        BY DEF Accepts
      <4> QED
        BY <3>1, <4>1, <4>2 DEF Rejecting
    <3> QED
      BY <3>2, <3>3
  <2> QED
    BY <2>1, <2>2 DEF GoesOn
<1>5. /\ \A d \in Clients \ {c} : call[d].file # f
      /\ \A d \in Clients : call[d].kind = "rejectAll" /\ d # c => f \in call[d].todo \/ Back(t, f)
  <2>1. \A d \in Clients \ {c} : call[d].file # f
    <3>1. CASE Settles(c, k, t, f)
      BY <3>1, OneInHand DEF Settles, GoesOn
    <3>2. CASE Starts(k, t, f)
      BY <3>2 DEF Starts, InHand
    <3> QED
      BY <3>1, <3>2 DEF GoesOn
  <2> QED
    BY <2>1 DEF Rejected
<1>6. CASE call' = [call EXCEPT ![c] = NoCall]
  <2>1. call'[c] = NoCall /\ \A d \in Clients \ {c} : call'[d] = call[d]
    BY <1>0, <1>6 DEF CallTyped
  <2>2. \A d \in Clients : call'[d].file # f
    BY <1>5, <2>1, Nothing, Bounds
  <2>3. \A d \in Clients : call'[d].kind = "rejectAll" => d # c
    BY <2>1, Nothing
  <2> QED
    BY <1>1, <1>3, <1>4, <1>5, <2>1, <2>2, <2>3 DEF Rejected
<1>7. CASE call' # [call EXCEPT ![c] = NoCall]
  <2>1. PICK r \in CallType, g \in k.todo :
          /\ call' = [call EXCEPT ![c] = r]
          /\ r.kind = k.kind /\ r.file = g /\ r.todo = k.todo \ {g}
          /\ \/ /\ k.kind \in Accepts /\ card'[t][g].status \notin {"pending", "edited"}
                /\ r.steps = <<>> /\ r.to = card'[t][g].status
             \/ /\ k.kind \in Accepts => card'[t][g].status \in {"pending", "edited"}
                /\ r.steps = Steps(k.kind, g, card'[t][g].status) /\ r.to = Outcome(k.kind)
    BY <1>7 DEF GoesOn, TurnsTo
  <2>2. call'[c] = r /\ \A d \in Clients \ {c} : call'[d] = call[d] /\ call'[d].file # f
    BY <1>0, <1>5, <2>1 DEF CallTyped
  <2>3. \A d \in Clients : call'[d].kind = "rejectAll" /\ f \notin call'[d].todo /\ call'[d].file # f => Back(t, f)
    <3>1. r.kind = "rejectAll" /\ f \notin r.todo /\ r.file # f => Back(t, f)
      BY <1>4, <2>1
    <3> QED
      BY <1>5, <2>2, <3>1
  <2>4. CASE g # f
    BY <1>1, <1>3, <1>4, <2>1, <2>2, <2>3, <2>4 DEF Rejected
  <2>5. CASE g = f
    <3>1. k.kind \in Kinds
      BY DEF GoesOn
    <3>2. Rejecting(t, f, r)'
      <4>1. CASE k.kind \in Rejects
        <5>1. k.kind \notin Accepts
          BY <4>1 DEF Accepts, Rejects
        <5>2. r.kind \in Rejects /\ r.steps = IF f \in tracked THEN Discard ELSE <<"restore">>
          BY <2>1, <2>5, <3>1, <4>1, <5>1, PlansOf
        <5>3. CASE f \in tracked
          BY <1>3, <1>4, <5>2, <5>3 DEF Undoable, Rejecting, Discards
        <5>4. CASE f \notin tracked
          <6>1. Restores(card[t][f], f, start[t][f])'
            BY <1>2, <1>3, <1>4, <5>4 DEF Undoable
          <6> QED
            BY <1>2, <5>2, <5>4, <6>1 DEF Rejecting
        <5> QED
          BY <5>3, <5>4
      <4>2. CASE k.kind \in Accepts /\ card'[t][f].status \notin {"pending", "edited"}
        BY <1>3, <1>4, <2>1, <2>5, <4>2 DEF Rejecting
      <4>3. CASE k.kind \in Accepts /\ card'[t][f].status \in {"pending", "edited"}
        <5>1. r.to = "accepted" /\ r.kind \in Accepts /\ r.steps = IF f \in tracked THEN Promote ELSE <<>>
          BY <2>1, <2>5, <3>1, <4>3, PlansOf
        <5> QED
          BY <1>3, <1>4, <5>1 DEF Rejecting
      <4> QED
        BY <1>1, <2>5, <4>1, <4>2, <4>3
    <3>3. InHand(f, {})'
      BY <2>1, <2>2, <2>5 DEF InHand
    <3> QED
      BY <1>1, <1>3, <2>2, <2>3, <3>2, <3>3 DEF Rejected
  <2> QED
    BY <2>4, <2>5
<1> QED
  BY <1>6, <1>7

LEMMA NextFilesRejected == Typed /\ LoneTurns /\ Puts /\ Working /\ FilesRejected /\ [Next]_vars => FilesRejected'
<1> SUFFICES ASSUME Typed, LoneTurns, Puts, Working, FilesRejected, [Next]_vars, NEW t \in Turns, Shown(t)',
                    NEW f \in Listed(card'[t]) \ Large, Unspoilt(t, f, FewMoves)'
             PROVE  Rejected(t, f)'
  BY DEF FilesRejected
<1>0. f \in Files \ Large
  BY DEF Listed
<1>1. /\ ~BeginTurn /\ ~Restart /\ Unspoilt(t, f, FewMoves) /\ Unspoilt(t, f, Few)'
      /\ <<t, f, "redone">> \notin flaws' /\ <<t, f, "promoted">> \notin flaws'
  <2>1. ~BeginTurn /\ ~Restart
    BY ShownBefore
  <2>2. Unspoilt(t, f, FewMoves)
    BY <2>1, UnspoiltBefore
  <2> QED
    BY <2>1, <2>2 DEF Unspoilt, Few, FewMoves
<1>2. CASE ~Shown(t)
  <2>1. Freeze(t)
    BY <1>2, ShownBefore
  <2>2. /\ Lone(t) /\ NoReview /\ card' = [card EXCEPT ![t] = pending] /\ UNCHANGED <<fsVars, call, start>>
    BY <1>2, <2>1, FreezePuts
  <2>3. Unspoilt(t, f, Few)
    BY <1>1 DEF Unspoilt, Few, FewMoves
  <2>4. Writes(t, f) /\ card'[t][f] = pending[f] /\ \A c \in Clients : call'[c].file # f /\ ~Busy(c)'
    BY <1>0, <2>2, <2>3, Bounds, BusyCalls DEF Working, NoReview, Typed, CardTyped, Busy
  <2>5. UNCHANGED <<real, tracked, start>>
    BY <2>2 DEF fsVars
  <2>6. pending[f].type # "none"
    BY <2>4 DEF Listed
  <2>7. pending[f].status = "pending" /\ Undoable(t, f)'
    BY <1>0, <2>4, <2>5, <2>6 DEF Writes, Undoable, Back
  <2> QED
    BY <2>4, <2>7 DEF Rejected, Once, Busy
<1>3. CASE Shown(t)
  <2>1. Put(t)
    BY <1>3 DEF Puts
  <2>2. \/ Quiet(t, f)
        \/ \E c \in Clients : Moves(c, t, f)
        \/ \E c \in Clients, k \in CallType : GoesOn(c, k, t, f)
    BY <1>0, <1>1, <2>1, ReviewSteps
  <2>3. f \in Listed(card[t]) \ Large
    BY <1>0, <2>2, StaysListed DEF Listed
  <2>4. Rejected(t, f)
    BY <1>1, <1>3, <2>3 DEF FilesRejected
  <2>5. CASE Quiet(t, f)
    <3>1. /\ call' = call /\ card'[t][f] = card[t][f] /\ UNCHANGED <<real[f], copyFile[f], start>> /\ (f \in tracked' <=> f \in tracked)
      BY <2>5 DEF Quiet, Rest
    <3>2. (Back(t, f)' <=> Back(t, f)) /\ (Undoable(t, f)' <=> Undoable(t, f))
      BY <3>1 DEF Back, Undoable
    <3>3. \A c \in Clients : Rejecting(t, f, call[c]) => Rejecting(t, f, call[c])'
      BY <3>1, <3>2 DEF Rejecting
    <3>4. Once(t, f)'
      BY <2>4, <3>1 DEF Rejected, Once, Busy
    <3>5. InHand(f, {})' <=> InHand(f, {})
      BY <3>1 DEF InHand
    <3> QED
      BY <2>4, <3>1, <3>2, <3>3, <3>4, <3>5 DEF Rejected
  <2> QED
    BY <1>0, <1>1, <2>2, <2>3, <2>4, <2>5, MovesRejected, GoesOnRejected
<1> QED
  BY <1>2, <1>3

LEMMA FilesRejectedHold == Spec => []FilesRejected
<1>1. Init => FilesRejected
  <2> SUFFICES ASSUME Init, NEW t \in Turns, Shown(t) PROVE FALSE
    BY DEF FilesRejected
  <2>1. sets = {} /\ \A c \in Clients : call[c].set = 0
    BY Nothing DEF Init
  <2> QED
    BY <2>1, ContentTypes DEF Shown
<1> QED
  BY <1>1, NextFilesRejected, PutsHold, WorkingHolds, LoneTurnsHold, TypesHold, PTL DEF Spec

(* When Reject All returns, every listed file is as it was when the turn   *)
(* began, whether the turn wrote it in place or in a sandbox (rejectAll,   *)
(* discard, restoreFile).                                                  *)
THEOREM RejectAllRestores == Spec => RejectAllReturnsToTheStart
<1>1. ASSUME Typed, Puts, FilesRejected, [Next]_vars, NEW c \in Clients, call[c].kind = "rejectAll", call'[c] = NoCall,
             call[c].set \in sets', NEW f \in Listed(card[call[c].set]) \ Large, Unspoilt(call[c].set, f, FewMoves)
      PROVE  real[f] = start[call[c].set][f]
  <2> DEFINE t == call[c].set
             k == call[c]
  <2>0. FsTyped /\ CallTyped /\ f \in Files
    BY <1>1 DEF Typed, Listed
  <2>1. t \in Turns /\ Busy(c) /\ k \in CallType /\ NoCall.kind = "none"
    BY <1>1, BusyCalls, Nothing DEF Busy
  <2>2. Shown(t) /\ Put(t) /\ Rejected(t, f) /\ OneReview
    BY <1>1, <2>0, <2>1 DEF Shown, Unspoilt, Puts, FilesRejected, FewMoves, Put
  <2>3. call'[c] # call[c]
    BY <1>1, <2>1
  <2>4. Settle(c)
    <3>1. ~BeginTurn /\ ~ClearConversation /\ ~(UNCHANGED vars) /\ \A g \in Files : ~Open(g) /\ ~Notice(g) /\ ~Outside(g)
      <4>1. call' # call
        BY <2>3
      <4> QED
        BY <4>1 DEF BeginTurn, ClearConversation, vars, Open, Notice, Outside, cardVars
    <3>2. ~Restart
      BY <1>1 DEF Restart
    <3>3. \A d \in Clients : ~CallStep(d)
      <4> SUFFICES ASSUME NEW d \in Clients, CallStep(d) PROVE FALSE
        OBVIOUS
      <4>1. call' = [call EXCEPT ![d] = [call[d] EXCEPT !.steps = Tail(call[d].steps)]]
        BY DEF CallStep
      <4>2. call'[c].kind = k.kind
        BY <2>0, <2>1, <4>1 DEF CallTyped, CallType
      <4> QED
        BY <1>1, <2>1, <4>2
    <3>4. \A d \in Clients, kind \in Kinds : ~StartCall(d, kind)
      <4> SUFFICES ASSUME NEW d \in Clients, NEW kind \in Kinds, StartCall(d, kind) PROVE FALSE
        OBVIOUS
      <4>1. d # c
        BY <1>1, <2>1 DEF StartCall
      <4>2. PICK r \in CallType : call' = [call EXCEPT ![d] = r]
        BY <1>1, CallGoesOn
      <4> QED
        BY <2>0, <2>3, <4>1, <4>2 DEF CallTyped
    <3>5. PICK d \in Clients : Settle(d)
      BY <1>1, <2>1, <2>2, <3>1, <3>2, <3>3, <3>4, PutSteps
    <3>6. d = c
      <4>1. PICK r \in CallType : call' = [call EXCEPT ![d] = r]
        BY <1>1, <3>5, CallGoesOn
      <4> QED
        BY <2>0, <2>3, <4>1 DEF CallTyped
    <3> QED
      BY <3>5, <3>6
  <2>5. GoesOn(c, k, t, f)
    BY <1>1, <2>0, <2>1, <2>2, <2>4, SettleGoesOn
  <2>6. k.todo = {}
    <3> SUFFICES ASSUME k.todo # {} PROVE FALSE
      OBVIOUS
    <3>1. PICK r \in CallType : call' = [call EXCEPT ![c] = r] /\ r.kind = k.kind
      BY <2>5 DEF GoesOn, TurnsTo
    <3>2. call'[c] = r
      BY <2>0, <3>1 DEF CallTyped
    <3> QED
      BY <1>1, <2>1, <3>1, <3>2
  <2>7. CASE k.file # f
    BY <1>1, <2>2, <2>6, <2>7 DEF Rejected, Back
  <2>8. CASE k.file = f
    <3>1. Rejecting(t, f, k) /\ k.steps = <<>> /\ <<>> # <<"restore">> /\ <<>> \notin Discards
      BY <2>2, <2>4, <2>8 DEF Rejected, Settle, Discards, Discard
    <3>2. k.kind \notin Accepts
      BY <1>1 DEF Accepts
    <3> QED
      BY <3>1, <3>2 DEF Rejecting, Back
  <2> QED
    BY <2>7, <2>8
<1> DEFINE Rolls == RollsBack({"outside", "late", "twice", "redone", "promoted", "opened"})
<1>2. Typed /\ Puts /\ FilesRejected /\ [Next]_vars => [Rolls]_vars
  BY <1>1 DEF RollsBack, FewMoves
<1>3. RejectAllReturnsToTheStart <=> [][Rolls]_vars
  BY DEF RejectAllReturnsToTheStart
<1> QED
  BY <1>2, <1>3, TypesHold, PutsHold, FilesRejectedHold, PTL DEF Spec
=============================================================================
