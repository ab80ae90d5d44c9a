---------------------------- MODULE Sessions_proofs ----------------------------
(***************************************************************************)
(* Proofs about Sessions, for any number of turns, rounds, epochs and ends *)
(* of the process, and any number of turns that compaction keeps.          *)
(***************************************************************************)
EXTENDS Sessions, SequenceTheorems, FiniteSetTheorems, WellFoundedInduction, TLAPS

-----------------------------------------------------------------------------
(* Sequences. *)

LEMMA LeastNatural ==
  ASSUME NEW T \in SUBSET Nat, T # {}
  PROVE  \E x \in T : \A y \in T : x <= y
<1>1. PICK x \in T : \A y \in T : ~ (<<y, x>> \in OpToRel(<, Nat))
  BY WFMin, NatLessThanWellFounded
<1>2. \A y \in T : ~ (y < x)
  BY <1>1 DEF OpToRel
<1> QED
  BY <1>2

LEMMA LargestNatural ==
  ASSUME NEW n \in Nat, NEW T \in SUBSET (1 .. n), T # {}
  PROVE  Max(T) \in T /\ \A y \in T : y <= Max(T)
<1> DEFINE U == {n - t : t \in T}
<1>1. U \in SUBSET Nat /\ U # {}
  <2>1. \A t \in T : t \in 1 .. n /\ n - t \in Nat
    OBVIOUS
  <2> QED
    BY <2>1
<1>2. PICK u \in U : \A v \in U : u <= v
  BY <1>1, LeastNatural
<1>3. PICK x \in T : u = n - x
  BY <1>2
<1>4. \A y \in T : y <= x
  <2>1. ASSUME NEW y \in T
        PROVE  y <= x
    <3>1. n - y \in U
      OBVIOUS
    <3>2. n - x <= n - y /\ x \in 1 .. n /\ y \in 1 .. n
      BY <1>2, <1>3, <3>1
    <3> QED
      BY <3>2
  <2> QED
    BY <2>1
<1>5. \E z \in T : \A y \in T : z >= y
  BY <1>4
<1> QED
  BY <1>5 DEF Max

LEMMA ContentType ==
  ASSUME NEW m \in Message
  PROVE  Content(m) \subseteq Spoken
BY DEF Content, Message, Spoken

LEMMA ContentOfType ==
  ASSUME NEW h \in Seq(Message)
  PROVE  ContentOf(h) \subseteq Spoken
BY ContentType DEF ContentOf

(* Something stays and something goes. *)
LEMMA CutBounds ==
  ASSUME NEW h \in Seq(Message), Cut(h) > 0
  PROVE  Cut(h) \in 1 .. Len(h) - 1
<1> DEFINE B == Boundaries(h)
           T == {i \in B : From(h, i) >= KeepRecent}
<1>1. B \in SUBSET (1 .. Len(h)) /\ Len(h) \in Nat
  BY DEF Boundaries
<1>2. ~(Cardinality(B) <= KeepRecent) /\ Cut(h) = Max(T) - 1
  BY DEF Cut
<1>3. B # {}
  <2>1. ASSUME B = {}
        PROVE  Cardinality(B) = 0
    BY <2>1, FS_EmptySet
  <2>2. 0 <= KeepRecent
    BY ContextAssumption
  <2> HIDE DEF B
  <2> QED
    BY <1>2, <2>1, <2>2
<1>4. PICK m \in B : \A j \in B : m <= j
  BY <1>1, <1>3, LeastNatural
<1>5. {j \in B : j >= m} = B
  BY <1>1, <1>4
<1>6. From(h, m) >= KeepRecent
  <2>1. IsFiniteSet(1 .. Len(h))
    BY <1>1, FS_Interval
  <2>2. Cardinality(B) \in Nat
    BY <1>1, <2>1, FS_CardinalityType, FS_Subset
  <2>3. From(h, m) = Cardinality(B)
    BY <1>5 DEF From
  <2> QED
    BY <1>2, <2>2, <2>3, ContextAssumption
<1>7. T # {} /\ T \in SUBSET (1 .. Len(h))
  BY <1>1, <1>6
<1>8. Max(T) \in 1 .. Len(h)
  <2> HIDE DEF T
  <2>1. Max(T) \in T
    BY <1>1, <1>7, LargestNatural
  <2> QED
    BY <1>7, <2>1
<1> QED
  BY <1>2, <1>8

LEMMA CompactedHistory ==
  ASSUME NEW h \in Seq(Message), Cut(h) > 0
  PROVE  /\ Compacted(h) \in Seq(Message)
         /\ Len(Compacted(h)) = 1 + Len(h) - Cut(h)
         /\ Compacted(h)[1].role = "summary"
         /\ \A i \in 2 .. Len(Compacted(h)) : Compacted(h)[i] = h[Cut(h) + i - 1]
         /\ ContentOf(Compacted(h)) = ContentOf(h)
<1> DEFINE c == Cut(h)
           old == SubSeq(h, 1, c)
           kept == SubSeq(h, c + 1, Len(h))
           first == SummaryOf(ContentOf(old))
<1>1. c \in 1 .. Len(h) - 1 /\ Len(h) \in Nat
  BY CutBounds
<1>2. /\ old \in Seq(Message) /\ Len(old) = c /\ \A i \in 1 .. c : old[i] = h[i]
      /\ kept \in Seq(Message) /\ Len(kept) = Len(h) - c
      /\ \A i \in 1 .. Len(h) - c : kept[i] = h[c + i]
  BY <1>1
<1>3. first \in Message /\ first.role = "summary" /\ first.folds = ContentOf(old)
  BY <1>2, ContentOfType DEF SummaryOf, Message
<1>4. Compacted(h) = <<first>> \o kept
  BY DEF Compacted
<1> HIDE DEF c, old, kept, first
<1>5. /\ Compacted(h) \in Seq(Message) /\ Len(Compacted(h)) = 1 + Len(kept)
      /\ Compacted(h)[1] = first /\ \A i \in 2 .. 1 + Len(kept) : Compacted(h)[i] = kept[i - 1]
  BY <1>2, <1>3, <1>4
<1>6. \A i \in 2 .. Len(Compacted(h)) : Compacted(h)[i] = h[c + i - 1]
  <2>1. ASSUME NEW i \in 2 .. Len(Compacted(h))
        PROVE  Compacted(h)[i] = h[c + i - 1]
    <3>1. i - 1 \in 1 .. Len(h) - c /\ c + (i - 1) = c + i - 1
      BY <1>1, <1>2, <1>5, <2>1
    <3>2. Compacted(h)[i] = kept[i - 1] /\ kept[i - 1] = h[c + (i - 1)]
      BY <1>2, <1>5, <2>1, <3>1
    <3> QED
      BY <3>1, <3>2
  <2> QED
    BY <2>1
<1>7. ContentOf(Compacted(h)) = ContentOf(h)
  <2>1. Content(first) = ContentOf(old)
    BY <1>3 DEF Content
  <2>2. ASSUME NEW i \in DOMAIN h
        PROVE  Content(h[i]) \subseteq ContentOf(Compacted(h))
    <3>1. CASE i <= c
      <4>1. i \in DOMAIN old /\ old[i] = h[i] /\ 1 \in DOMAIN Compacted(h)
        BY <1>1, <1>2, <1>5, <3>1
      <4> QED
        BY <1>5, <2>1, <4>1 DEF ContentOf
    <3>2. CASE i > c
      <4> DEFINE j == i - c + 1
      <4>1. j \in 2 .. Len(Compacted(h)) /\ c + j - 1 = i
        BY <1>1, <1>2, <1>5, <3>2
      <4>2. j \in DOMAIN Compacted(h) /\ Compacted(h)[j] = h[i]
        BY <1>5, <1>6, <4>1
      <4> HIDE DEF j
      <4> QED
        BY <4>2 DEF ContentOf
    <3> QED
      BY <1>1, <3>1, <3>2
  <2>3. ASSUME NEW i \in DOMAIN Compacted(h)
        PROVE  Content(Compacted(h)[i]) \subseteq ContentOf(h)
    <3>1. CASE i = 1
      <4>1. ContentOf(old) \subseteq ContentOf(h)
        BY <1>1, <1>2 DEF ContentOf
      <4> QED
        BY <1>5, <2>1, <3>1, <4>1
    <3>2. CASE i # 1
      <4>1. i \in 2 .. Len(Compacted(h)) /\ c + i - 1 \in DOMAIN h
        BY <1>1, <1>2, <1>5, <2>3, <3>2
      <4>2. Compacted(h)[i] = h[c + i - 1]
        BY <1>6, <4>1
      <4> QED
        BY <4>1, <4>2 DEF ContentOf
    <3> QED
      BY <3>1, <3>2
  <2> QED
    BY <2>2, <2>3 DEF ContentOf
<1> QED
  BY <1>1, <1>2, <1>3, <1>5, <1>6, <1>7 DEF c

-----------------------------------------------------------------------------
(* Types. *)

LEMMA SaidType ==
  ASSUME NEW role \in {"user", "assistant"}, NEW t \in Nat
  PROVE  /\ Said(role, t) \in Spoken /\ Said(role, t) \in Message
         /\ Said(role, t).role = role /\ Said(role, t).turn = t
         /\ Content(Said(role, t)) = {Said(role, t)}
BY DEF Said, Spoken, Message, Content

LEMMA IdleIsNotRunning == Idle \notin Running /\ Idle.pc = "idle" /\ Idle.kind = "none"
BY DEF Idle, Running

LEMMA RunningTask ==
  ASSUME TypeOK, NEW s \in Slot, tasks[s].pc # "idle"
  PROVE  tasks[s] \in Running /\ session.on
<1>1. session.on
  BY IdleIsNotRunning DEF TypeOK, ChatSession, NoTasks
<1> QED
  BY <1>1, IdleIsNotRunning DEF TypeOK, ChatSession

LEMMA NewTaskType ==
  ASSUME TypeOK, NEW kind \in {"ask", "plan", "test", "compact"}
  PROVE  /\ NewTask(kind) \in Running /\ NewTask(kind).kind = kind /\ NewTask(kind).pc = "check"
         /\ NewTask(kind).turn = count.turns + 1 /\ NewTask(kind).start = Len(session.history)
         /\ [NewTask(kind) EXCEPT !.turn = 0] \in Running
         /\ [NewTask(kind) EXCEPT !.turn = 0].kind = kind /\ [NewTask(kind) EXCEPT !.turn = 0].pc = "check"
<1>1. count.turns + 1 \in Nat /\ Len(session.history) \in Nat /\ <<>> \in Seq(Message)
  BY DEF TypeOK, ChatSession
<1> QED
  BY <1>1 DEF NewTask, Running

LEMMA InModeType ==
  ASSUME TypeOK, NEW mode \in {"chat", "plan", "agent"}
  PROVE  /\ InMode(mode).history = session.history /\ InMode(mode).on = session.on
         /\ InMode(mode).overlapped = session.overlapped /\ InMode(mode).map = session.map
         /\ InMode(mode).epoch >= session.epoch /\ InMode(mode).epoch \in Nat
         /\ InMode(mode).epoch = session.epoch => InMode(mode) = session
<1> DEFINE m == [session EXCEPT !.mode = mode, !.epoch = @ + 1]
<1>1. session.epoch \in Nat
  BY DEF TypeOK, ChatSession
<1>2. /\ m.history = session.history /\ m.on = session.on /\ m.overlapped = session.overlapped
      /\ m.map = session.map /\ m.epoch = session.epoch + 1
  BY DEF TypeOK, ChatSession
<1> QED
  BY <1>1, <1>2 DEF InMode

LEMMA TurnsType ==
  ASSUME TypeOK
  PROVE  /\ Turns(1) \in [turns : Nat, stops : Nat, left : BOOLEAN]
         /\ Turns(1).turns = count.turns + 1 /\ Turns(1).left = count.left
<1>1. count.turns + 1 \in Nat /\ count \in [turns : Nat, stops : Nat, left : BOOLEAN]
  BY DEF TypeOK, ChatSession
<1> QED
  BY <1>1 DEF Turns

(* A task of the prompt's, or one behind it, that moves on by itself. *)
LEMMA TaskMoves ==
  ASSUME TypeOK, session.on, UNCHANGED <<db, session, index, sent, told>>,
         count' = count \/ count' = Turns(1), NEW s \in Slot, NEW task \in {Idle} \cup Running,
         tasks' = [tasks EXCEPT ![s] = task], task.pc = "summarising" => Cut(task.seen) > 0
  PROVE  TypeOK'
<1>1. count' \in [turns : Nat, stops : Nat, left : BOOLEAN]
  BY TurnsType DEF TypeOK, ChatSession
<1>2. tasks' \in [Slot -> {Idle} \cup Running]
  BY DEF TypeOK, ChatSession
<1>3. \A r \in Slot : tasks'[r].pc = "summarising" => Cut(tasks'[r].seen) > 0
  BY DEF TypeOK, ChatSession
<1> QED
  BY <1>1, <1>2, <1>3 DEF TypeOK, ChatSession

(* The history changes with the task, or the map it was given does. *)
LEMMA SessionMoves ==
  ASSUME TypeOK, session.on, UNCHANGED <<db, index, count>>, NEW s \in Slot, NEW task \in {Idle} \cup Running,
         tasks' = [tasks EXCEPT ![s] = task], task.pc # "summarising", told' \subseteq Spoken,
         session'.on = TRUE,
         session' \in ChatSession
  PROVE  TypeOK'
<1>1. tasks' \in [Slot -> {Idle} \cup Running]
  BY DEF TypeOK, ChatSession
<1>2. \A r \in Slot : tasks'[r].pc = "summarising" => Cut(tasks'[r].seen) > 0
  BY DEF TypeOK, ChatSession
<1> QED
  BY <1>1, <1>2 DEF TypeOK, ChatSession

LEMMA SlotFront == "front" \in Slot /\ "behind" \in Slot /\ \A s \in Slot : s = "front" \/ s = "behind"
BY DEF Slot

(* What is still to be saved of a workflow. *)
LEMMA SinceType ==
  ASSUME TypeOK, NEW task \in Running, session.on
  PROVE  /\ Since(task) \in Seq(Message)
         /\ Len(Since(task)) = IF task.start <= Len(session.history)
                               THEN Len(session.history) - task.start ELSE 0
         /\ \A i \in DOMAIN Since(task) :
              task.start + i \in DOMAIN session.history /\ Since(task)[i] = session.history[task.start + i]
<1>1. session.history \in Seq(Message) /\ Len(session.history) \in Nat /\ task.start \in Nat
  BY DEF TypeOK, ChatSession, Running
<1>2. \A i \in task.start + 1 .. Len(session.history) : session.history[i] \in Message
  BY <1>1
<1>3. /\ Since(task) \in Seq(Message)
      /\ Len(Since(task)) = IF task.start + 1 <= Len(session.history)
                            THEN Len(session.history) - (task.start + 1) + 1 ELSE 0
      /\ \A i \in 1 .. Len(session.history) - (task.start + 1) + 1 :
           Since(task)[i] = session.history[(task.start + 1) + i - 1]
  BY <1>1, <1>2, SubSeqProperties DEF Since
<1>4. Len(Since(task)) = IF task.start <= Len(session.history)
                         THEN Len(session.history) - task.start ELSE 0
  BY <1>1, <1>3
<1>5. ASSUME NEW i \in DOMAIN Since(task)
      PROVE  task.start + i \in DOMAIN session.history /\ Since(task)[i] = session.history[task.start + i]
  <2>1. i \in 1 .. Len(session.history) - task.start /\ task.start + i \in 1 .. Len(session.history)
    BY <1>1, <1>3, <1>4
  <2>2. (task.start + 1) + i - 1 = task.start + i /\ i \in 1 .. Len(session.history) - (task.start + 1) + 1
    BY <1>1, <2>1
  <2> QED
    BY <1>1, <1>3, <2>1, <2>2
<1> QED
  BY <1>3, <1>4, <1>5

LEMMA AfterSummaryType ==
  ASSUME NEW task \in Running
  PROVE  /\ AfterSummary(task) \in {Idle} \cup Running
         /\ AfterSummary(task).pc \in {"idle", "request"}
         /\ task.kind = "compact" => AfterSummary(task) = Idle
         /\ task.kind # "compact" =>
              /\ AfterSummary(task).kind = task.kind /\ AfterSummary(task).turn = task.turn
              /\ AfterSummary(task).start = task.start /\ AfterSummary(task).pc = "request"
<1> DEFINE next == [task EXCEPT !.pc = "request", !.seen = <<>>]
<1>1. /\ next \in Running /\ next.pc = "request" /\ next.kind = task.kind
      /\ next.turn = task.turn /\ next.start = task.start
  <2>1. <<>> \in Seq(Message)
    OBVIOUS
  <2> QED
    BY <2>1 DEF Running
<1>2. AfterSummary(task) = IF task.kind = "compact" THEN Idle ELSE next
  BY DEF AfterSummary
<1> HIDE DEF next
<1> QED
  BY <1>1, <1>2, IdleIsNotRunning

LEMMA SavingType ==
  ASSUME NEW task \in Running, NEW rows \in Seq(Message)
  PROVE  /\ Saving(task, rows) \in Running /\ Saving(task, rows).pc = "saving"
         /\ Saving(task, rows).save = rows /\ Saving(task, rows).kind = task.kind
BY DEF Saving, Running

LEMMA AnswerPair ==
  ASSUME NEW t \in Nat
  PROVE  /\ <<Said("user", t), Said("assistant", t)>> \in Seq(Message)
         /\ Len(<<Said("user", t), Said("assistant", t)>>) = 2
BY SaidType

LEMMA CurrentEpochIsLast ==
  ASSUME TypeOK, EpochsRise
  PROVE  CurrentEpoch \in Nat /\ \A i \in DOMAIN db : db[i].epoch <= CurrentEpoch
<1>1. CASE db = <<>>
  BY <1>1 DEF CurrentEpoch
<1>2. CASE db # <<>>
  <2> DEFINE E == {db[i].epoch : i \in DOMAIN db}
             P(e) == \A i \in DOMAIN db : db[i].epoch <= e
             last == db[Len(db)].epoch
  <2>1. Len(db) \in DOMAIN db /\ DOMAIN db = 1 .. Len(db) /\ Len(db) \in Nat
    BY <1>2 DEF TypeOK, ChatSession
  <2>2. last \in E /\ P(last)
    BY <2>1 DEF EpochsRise
  <2>3. CurrentEpoch = CHOOSE e \in E : P(e)
    BY <1>2 DEF CurrentEpoch
  <2>4. E \subseteq Nat
    <3>1. \A i \in DOMAIN db : db[i] \in Row
      BY DEF TypeOK
    <3> QED
      BY <3>1 DEF Row
  <2> HIDE DEF E, P
  <2>5. CurrentEpoch \in E /\ P(CurrentEpoch)
    BY <2>2, <2>3
  <2> QED
    BY <2>4, <2>5 DEF P
<1> QED
  BY <1>1, <1>2

LEMMA MessagesType ==
  ASSUME TypeOK
  PROVE  /\ Messages \in Seq(Message) /\ Len(Messages) = Len(db) /\ DOMAIN Messages = DOMAIN db
         /\ \A i \in DOMAIN db : Messages[i] = db[i].message
<1>1. db \in Seq(Row) /\ Len(db) \in Nat /\ DOMAIN db = 1 .. Len(db)
  BY DEF TypeOK, ChatSession
<1>2. \A i \in 1 .. Len(db) : db[i].message \in Message
  <2>1. \A i \in 1 .. Len(db) : db[i] \in Row
    BY <1>1
  <2> QED
    BY <2>1 DEF Row
<1>3. Messages = [i \in 1 .. Len(db) |-> db[i].message]
  BY <1>1 DEF Messages
<1> QED
  BY <1>1, <1>2, <1>3

LEMMA MapType ==
  ASSUME TypeOK
  PROVE  /\ MapOfEpoch \in [epoch : Nat, cost : MapCosts] /\ MapOfEpoch.epoch = session.epoch
         /\ session.map.epoch = session.epoch => MapOfEpoch = session.map
<1>1. NoMap.epoch \notin Nat
  BY DEF NoMap
<1> QED
  BY <1>1 DEF TypeOK, ChatSession, MapOfEpoch

LEMMA TypeKept ==
  ASSUME TypeOK, EpochsRise, [Next]_vars
  PROVE  TypeOK'
<1>1. CASE Ask
  BY <1>1, NewTaskType, TaskMoves, SlotFront DEF Ask, AtPrompt
<1>2. ASSUME NEW kind \in {"plan", "test"}, NEW mode \in {"plan", "agent"}, Workflow(kind, mode)
      PROVE  TypeOK'
  <2>1. /\ session.on /\ tasks' = [tasks EXCEPT !["front"] = NewTask(kind)] /\ session' = InMode(mode)
        /\ count' = Turns(1) /\ UNCHANGED <<db, index, sent, told>>
    BY <1>2 DEF Workflow, AtPrompt
  <2>2. NewTask(kind) \in Running /\ NewTask(kind).pc = "check"
    BY NewTaskType
  <2>3. InMode(mode) \in ChatSession
    <3>1. session \in ChatSession /\ session.epoch + 1 \in Nat
      BY DEF TypeOK, ChatSession
    <3> QED
      BY <3>1 DEF InMode, ChatSession
  <2>4. tasks' \in [Slot -> {Idle} \cup Running] /\ session'.on
    BY <2>1, <2>2, InModeType DEF TypeOK, ChatSession
  <2>5. \A r \in Slot : tasks'[r].pc = "summarising" => Cut(tasks'[r].seen) > 0
    BY <2>1, <2>2 DEF TypeOK, ChatSession
  <2>6. count' \in [turns : Nat, stops : Nat, left : BOOLEAN]
    BY <2>1, TurnsType
  <2> QED
    BY <2>1, <2>3, <2>4, <2>5, <2>6 DEF TypeOK, ChatSession
<1>3. CASE CompactNow
  BY <1>3, NewTaskType, TaskMoves, SlotFront DEF CompactNow, AtPrompt
<1>4. ASSUME NEW mode \in {"chat", "plan", "agent"}, SwitchMode(mode)
      PROVE  TypeOK'
  BY <1>4, InModeType DEF SwitchMode, AtPrompt, TypeOK, ChatSession, InMode
<1>5. CASE Clear
  <2>1. /\ session.on /\ db' = <<>> /\ told' = {} /\ UNCHANGED <<tasks, index, sent, count>>
        /\ session' = [session EXCEPT !.history = <<>>, !.epoch = @ + 1]
    BY <1>5 DEF Clear, AtPrompt
  <2>2. session.epoch + 1 \in Nat /\ <<>> \in Seq(Message) /\ <<>> \in Seq(Row)
    BY DEF TypeOK, ChatSession
  <2>3. session' \in ChatSession /\ session'.on = session.on
    BY <2>1, <2>2 DEF TypeOK, ChatSession
  <2> QED
    BY <2>1, <2>2, <2>3 DEF TypeOK
<1>6. ASSUME NEW s \in Slot, SkipCompaction(s)
      PROVE  TypeOK'
  <2>1. tasks[s] \in Running /\ session.on
    BY <1>6, RunningTask DEF SkipCompaction
  <2>2. [tasks[s] EXCEPT !.pc = "request"] \in Running /\ [tasks[s] EXCEPT !.pc = "request"].pc = "request"
    BY <2>1 DEF Running
  <2> QED
    BY <1>6, <2>1, <2>2, TaskMoves, IdleIsNotRunning DEF SkipCompaction, TypeOK, ChatSession
<1>7. ASSUME NEW s \in Slot, StartCompaction(s)
      PROVE  TypeOK'
  <2> DEFINE task == [tasks[s] EXCEPT !.pc = "summarising", !.seen = session.history]
  <2>1. tasks[s] \in Running /\ session.on /\ session.history \in Seq(Message)
    BY <1>7, RunningTask DEF StartCompaction, TypeOK, ChatSession
  <2>2. task \in Running /\ task.seen = session.history
    BY <2>1 DEF Running
  <2>3. tasks' = [tasks EXCEPT ![s] = task]
    BY <1>7 DEF StartCompaction
  <2> HIDE DEF task
  <2> QED
    BY <1>7, <2>1, <2>2, <2>3, TaskMoves DEF StartCompaction
<1>8. ASSUME NEW s \in Slot, Summarised(s)
      PROVE  TypeOK'
  <2>1. tasks[s] \in Running /\ session.on /\ Cut(tasks[s].seen) > 0 /\ tasks[s].seen \in Seq(Message)
    BY <1>8, RunningTask DEF Summarised, TypeOK, ChatSession, Running
  <2>2. Compacted(tasks[s].seen) \in Seq(Message)
    BY <2>1, CompactedHistory
  <2>3. session.epoch + 1 \in Nat
    BY DEF TypeOK, ChatSession
  <2>4. /\ session' \in ChatSession
        /\ session'.on = TRUE
    BY <1>8, <2>1, <2>2, <2>3 DEF Summarised, ReplaceHistory, TypeOK, ChatSession
  <2>5. tasks' = [tasks EXCEPT ![s] = AfterSummary(tasks[s])] /\ UNCHANGED <<db, index, count, told>>
    BY <1>8 DEF Summarised, TypeOK, ChatSession
  <2> QED
    BY <2>1, <2>4, <2>5, AfterSummaryType, SessionMoves DEF TypeOK, ChatSession
<1>9. ASSUME NEW s \in Slot, NotSummarised(s)
      PROVE  TypeOK'
  <2>1. tasks[s] \in Running /\ session.on
    BY <1>9, RunningTask DEF NotSummarised
  <2>2. tasks' = [tasks EXCEPT ![s] = AfterSummary(tasks[s])]
    BY <1>9 DEF NotSummarised, TypeOK, ChatSession
  <2> QED
    BY <1>9, <2>1, <2>2, AfterSummaryType, TaskMoves DEF NotSummarised
<1>10. ASSUME NEW s \in Slot, NEW costs \in Retrieved, Request(s, costs)
       PROVE  TypeOK'
  <2> DEFINE task == [tasks[s] EXCEPT !.pc = "streaming"]
  <2>1. tasks[s] \in Running /\ session.on
    BY <1>10, RunningTask DEF Request
  <2>2. task \in Running /\ task.pc = "streaming"
    BY <2>1 DEF Running
  <2>3. tasks' = [tasks EXCEPT ![s] = task] /\ session' = [session EXCEPT !.map = MapOfEpoch]
        /\ UNCHANGED <<db, index, told, count>>
    BY <1>10 DEF Request
  <2>4. /\ session' \in ChatSession
        /\ session'.on = TRUE
    BY <2>1, <2>3, MapType DEF TypeOK, ChatSession
  <2> HIDE DEF task
  <2> QED
    BY <2>1, <2>2, <2>3, <2>4, SessionMoves DEF TypeOK, ChatSession
<1>11. ASSUME NEW s \in Slot, NEW ok \in BOOLEAN, Answer(s, ok)
       PROVE  TypeOK'
  <2> DEFINE task == [tasks[s] EXCEPT !.pc = "ended", !.ok = ok]
             said == <<Said("user", tasks[s].turn), Said("assistant", tasks[s].turn)>>
  <2>1. tasks[s] \in Running /\ session.on /\ tasks[s].turn \in Nat
    BY <1>11, RunningTask DEF Answer, Running
  <2>2. task \in Running /\ task.pc = "ended"
    BY <2>1 DEF Running
  <2>3. said \in Seq(Message) /\ Said("user", tasks[s].turn) \in Spoken /\ Said("assistant", tasks[s].turn) \in Spoken
    BY <2>1, SaidType
  <2>4. tasks' = [tasks EXCEPT ![s] = task] /\ session' = [session EXCEPT !.history = @ \o said]
        /\ told' = told \cup {Said("user", tasks[s].turn), Said("assistant", tasks[s].turn)}
        /\ UNCHANGED <<db, index, count>>
    BY <1>11 DEF Answer
  <2> HIDE DEF task, said
  <2>5. session.history \o said \in Seq(Message)
    BY <2>3 DEF TypeOK, ChatSession
  <2>6. /\ session' \in ChatSession
        /\ session'.on = TRUE
    BY <2>1, <2>4, <2>5 DEF TypeOK, ChatSession
  <2>7. told' \subseteq Spoken
    BY <2>3, <2>4 DEF TypeOK, ChatSession
  <2> QED
    BY <2>1, <2>2, <2>4, <2>6, <2>7, SessionMoves
<1>12. ASSUME NEW s \in Slot, Fail(s)
       PROVE  TypeOK'
  <2> DEFINE task == [tasks[s] EXCEPT !.pc = "ended", !.ok = FALSE]
  <2>1. tasks[s] \in Running /\ session.on
    BY <1>12, RunningTask DEF Fail
  <2>2. task \in Running /\ task.pc = "ended"
    BY <2>1 DEF Running
  <2>3. tasks' = [tasks EXCEPT ![s] = task]
    BY <1>12 DEF Fail
  <2> HIDE DEF task
  <2> QED
    BY <1>12, <2>1, <2>2, <2>3, TaskMoves DEF Fail
<1>13. ASSUME NEW s \in Slot, EndTurn(s)
       PROVE  TypeOK'
  <2>1. tasks[s] \in Running /\ session.on /\ tasks[s].turn \in Nat
    BY <1>13, RunningTask DEF EndTurn, Running
  <2> DEFINE said == <<Said("user", tasks[s].turn), Said("assistant", tasks[s].turn)>>
  <2>2. Saving(tasks[s], said) \in Running /\ Saving(tasks[s], said).pc = "saving"
    BY <2>1, AnswerPair, SavingType
  <2>3. tasks' = [tasks EXCEPT ![s] = IF s = "front" /\ tasks[s].kind = "ask" /\ tasks[s].ok
                                      THEN Saving(tasks[s], said) ELSE Idle]
    BY <1>13 DEF EndTurn, TypeOK, ChatSession
  <2> HIDE DEF said
  <2> QED
    BY <1>13, <2>1, <2>2, <2>3, TaskMoves, IdleIsNotRunning DEF EndTurn
<1>14. ASSUME NEW s \in Slot, NextRound(s)
       PROVE  TypeOK'
  <2> DEFINE task == [tasks[s] EXCEPT !.pc = "check", !.round = tasks[s].round + 1, !.turn = count.turns + 1, !.ok = FALSE]
  <2>1. tasks[s] \in Running /\ session.on /\ tasks[s].round + 1 \in Nat /\ count.turns + 1 \in Nat
    BY <1>14, RunningTask DEF NextRound, Running, TypeOK, ChatSession
  <2>2. task \in Running /\ task.pc = "check"
    BY <2>1 DEF Running
  <2>3. tasks' = [tasks EXCEPT ![s] = task]
    BY <1>14, <2>1 DEF NextRound, TypeOK, Running
  <2> HIDE DEF task
  <2> QED
    BY <1>14, <2>1, <2>2, <2>3, TaskMoves DEF NextRound
<1>15. ASSUME NEW s \in Slot, EndTests(s)
       PROVE  TypeOK'
  <2>1. tasks[s] \in Running /\ session.on
    BY <1>15, RunningTask DEF EndTests
  <2>2. Saving(tasks[s], Since(tasks[s])) \in Running /\ Saving(tasks[s], Since(tasks[s])).pc = "saving"
    BY <2>1, SinceType, SavingType
  <2>3. tasks' = [tasks EXCEPT ![s] = IF s = "front" THEN Saving(tasks[s], Since(tasks[s])) ELSE Idle]
    BY <1>15 DEF EndTests, TypeOK, ChatSession
  <2> QED
    BY <1>15, <2>1, <2>2, <2>3, TaskMoves, IdleIsNotRunning DEF EndTests
<1>16. CASE SaveRow
  <2>1. tasks["front"] \in Running /\ session.on /\ front.pc = "saving" /\ front.save # <<>>
    BY <1>16, RunningTask, SlotFront DEF SaveRow, Blocked, front
  <2>2. front.save \in Seq(Message) /\ Head(front.save) \in Message /\ Tail(front.save) \in Seq(Message)
    BY <2>1 DEF front, Running
  <2> DEFINE task == [tasks["front"] EXCEPT !.save = Tail(front.save)]
             row == [message |-> Head(front.save), epoch |-> session.epoch]
  <2>3. task \in Running /\ task.pc = "saving" /\ row \in Row
    BY <2>1, <2>2 DEF Running, front, Row, TypeOK, ChatSession
  <2>4. db' = Append(db, row) /\ tasks' = [tasks EXCEPT !["front"] = task]
        /\ UNCHANGED <<session, index, sent, told, count>>
    BY <1>16 DEF SaveRow, front
  <2> HIDE DEF task, row
  <2>5. db' \in Seq(Row)
    BY <2>3, <2>4 DEF TypeOK, ChatSession
  <2>6. tasks' \in [Slot -> {Idle} \cup Running]
    BY <2>3, <2>4 DEF TypeOK, ChatSession
  <2>7. \A r \in Slot : tasks'[r].pc = "summarising" => Cut(tasks'[r].seen) > 0
    BY <2>3, <2>4 DEF TypeOK, ChatSession
  <2> QED
    BY <2>1, <2>4, <2>5, <2>6, <2>7 DEF TypeOK, ChatSession
<1>17. CASE Saved
  BY <1>17, TaskMoves, IdleIsNotRunning, SlotFront DEF Saved
<1>18. Cancellable => front \in Running /\ AfterCancel \in {Idle} \cup Running /\ AfterCancel.pc # "summarising"
  <2>1. Cancellable => front \in Running /\ session.on
    <3>1. tasks["front"] \in {Idle} \cup Running
      BY SlotFront DEF TypeOK
    <3> QED
      BY <3>1, IdleIsNotRunning DEF Cancellable, front
  <2> QED
    BY <2>1, SinceType, SavingType, IdleIsNotRunning DEF AfterCancel
<1>19. CASE Interrupt
  BY <1>18, <1>19, TaskMoves, SlotFront DEF Interrupt, Cancellable
<1>20. CASE Leave
  <2>1. /\ session.on /\ tasks' = [s \in Slot |-> IF s = "front" THEN AfterCancel ELSE front]
        /\ session' = [session EXCEPT !.overlapped = TRUE] /\ count' = [count EXCEPT !.left = TRUE]
        /\ UNCHANGED <<db, index, sent, told>>
    BY <1>20 DEF Leave, Cancellable, Slot
  <2>2. front \in Running /\ AfterCancel \in {Idle} \cup Running /\ AfterCancel.pc # "summarising"
    BY <1>18, <1>20 DEF Leave
  <2>3. tasks' \in [Slot -> {Idle} \cup Running]
    BY <2>1, <2>2
  <2>4. \A r \in Slot : tasks'[r].pc = "summarising" => Cut(tasks'[r].seen) > 0
    BY <2>1, <2>2, SlotFront DEF TypeOK, ChatSession, front
  <2>5. session'.on /\ session' \in ChatSession
    BY <2>1 DEF TypeOK, ChatSession
  <2>6. count' \in [turns : Nat, stops : Nat, left : BOOLEAN]
    BY <2>1 DEF TypeOK, ChatSession
  <2> QED
    BY <2>1, <2>3, <2>4, <2>5, <2>6 DEF TypeOK, ChatSession
<1>21. Fresh \in ChatSession
       /\ ~Fresh.overlapped /\ Fresh.on
  BY DEF Fresh, ChatSession
<1>22. CASE Stop
  <2>1. /\ session' = Off /\ tasks' = NoTasks /\ sent' = NoRequest /\ told' = {}
        /\ count' = [count EXCEPT !.stops = @ + 1] /\ UNCHANGED <<db, index>>
    BY <1>22 DEF Stop
  <2>2. Off \in ChatSession
        /\ ~Off.overlapped
    BY <1>21 DEF Off, ChatSession
  <2>3. count.stops + 1 \in Nat
    BY DEF TypeOK, ChatSession
  <2>4. count' \in [turns : Nat, stops : Nat, left : BOOLEAN]
    BY <2>1, <2>3 DEF TypeOK, ChatSession
  <2>5. tasks' \in [Slot -> {Idle} \cup Running] /\ \A r \in Slot : tasks'[r].pc = "idle"
    BY <2>1, IdleIsNotRunning DEF NoTasks
  <2> QED
    BY <2>1, <2>2, <2>4, <2>5 DEF TypeOK, ChatSession, NoTasks
<1>23. CASE Resume
  <2>1. /\ session' = [Fresh EXCEPT !.history = Messages, !.epoch = CurrentEpoch]
        /\ told' = ContentOf(Messages) /\ UNCHANGED <<db, tasks, index, sent, count>>
    BY <1>23 DEF Resume
  <2>2. session'.on /\ session' \in ChatSession
    BY <1>21, <2>1, MessagesType, CurrentEpochIsLast DEF ChatSession
  <2>3. told' \subseteq Spoken
    BY <2>1, MessagesType, ContentOfType
  <2> QED
    BY <2>1, <2>2, <2>3 DEF TypeOK, ChatSession
<1>24. ASSUME NEW cost \in MapCosts, Reindex(cost)
       PROVE  TypeOK'
  BY <1>24 DEF Reindex, TypeOK, ChatSession, NoTasks
<1>25. CASE UNCHANGED vars
  BY <1>25 DEF vars, TypeOK, ChatSession, NoTasks
<1> QED
  BY <1>1, <1>2, <1>3, <1>4, <1>5, <1>6, <1>7, <1>8, <1>9, <1>10, <1>11, <1>12, <1>13, <1>14, <1>15,
     <1>16, <1>17, <1>19, <1>20, <1>22, <1>23, <1>24, <1>25 DEF Next

-----------------------------------------------------------------------------
(* Epochs, and the prefix of the requests made in one. *)

LEMMA EpochsUp ==
  ASSUME TypeOK, EpochsRise, db' = db, session'.on => session.on, session'.epoch \in Nat,
         session'.on => session'.epoch >= session.epoch
  PROVE  EpochsRise'
<1>1. session.epoch \in Nat /\ \A i \in DOMAIN db : db[i].epoch \in Nat
  <2>1. \A i \in DOMAIN db : db[i] \in Row
    BY DEF TypeOK
  <2> QED
    BY <2>1 DEF TypeOK, ChatSession, Row
<1> QED
  BY <1>1 DEF EpochsRise

LEMMA EpochsKept ==
  ASSUME TypeOK, EpochsRise, [Next]_vars
  PROVE  EpochsRise'
<1> USE DEF TypeOK, ChatSession
<1>1. ASSUME db' = db, session' = session
      PROVE  EpochsRise'
  BY <1>1, EpochsUp
<1>2. ASSUME NEW kind \in {"plan", "test"}, NEW mode \in {"plan", "agent"}, Workflow(kind, mode)
      PROVE  EpochsRise'
  BY <1>2, InModeType, EpochsUp DEF Workflow
<1>3. ASSUME NEW mode \in {"chat", "plan", "agent"}, SwitchMode(mode)
      PROVE  EpochsRise'
  BY <1>3, InModeType, EpochsUp DEF SwitchMode
<1>4. CASE Clear
  BY <1>4 DEF Clear, EpochsRise
<1>5. ASSUME NEW s \in Slot, Summarised(s)
      PROVE  EpochsRise'
  <2>1. session' = [session EXCEPT !.history = Compacted(tasks[s].seen), !.epoch = @ + 1] /\ db' = db
    BY <1>5 DEF Summarised, ReplaceHistory
  <2>2. session'.epoch = session.epoch + 1 /\ session'.on = session.on
    BY <2>1
  <2> QED
    BY <2>1, <2>2, EpochsUp
<1>6. ASSUME NEW s \in Slot, NEW costs \in Retrieved, Request(s, costs)
      PROVE  EpochsRise'
  BY <1>6, EpochsUp DEF Request
<1>7. ASSUME NEW s \in Slot, NEW ok \in BOOLEAN, Answer(s, ok)
      PROVE  EpochsRise'
  BY <1>7, EpochsUp DEF Answer
<1>8. CASE Leave
  BY <1>8, EpochsUp DEF Leave
<1>9. CASE Stop
  BY <1>9, EpochsUp DEF Stop, Off, Fresh
<1>10. CASE Resume
  <2>1. session'.epoch = CurrentEpoch /\ db' = db
    BY <1>10 DEF Resume, Fresh
  <2>2. \A i \in DOMAIN db : db[i].epoch <= CurrentEpoch
    BY CurrentEpochIsLast
  <2> QED
    BY <2>1, <2>2 DEF EpochsRise
<1>11. CASE SaveRow
  <2> DEFINE row == [message |-> Head(front.save), epoch |-> session.epoch]
  <2>1. session.on /\ db' = Append(db, row) /\ session' = session
    BY <1>11 DEF SaveRow
  <2>2. row.epoch = session.epoch
    OBVIOUS
  <2> HIDE DEF row
  <2>3. db \in Seq(Row) /\ Len(db') = Len(db) + 1 /\ DOMAIN db' = 1 .. Len(db) + 1
        /\ DOMAIN db = 1 .. Len(db) /\ Len(db) \in Nat
        /\ db'[Len(db) + 1] = row /\ \A i \in 1 .. Len(db) : db'[i] = db[i]
    BY <2>1
  <2>4. \A i \in DOMAIN db' : db'[i].epoch <= session.epoch
    BY <2>1, <2>2, <2>3 DEF EpochsRise
  <2>5. ASSUME NEW j \in DOMAIN db', NEW i \in 1 .. j
        PROVE  db'[i].epoch <= db'[j].epoch
    <3>1. CASE j = Len(db) + 1
      BY <2>2, <2>3, <2>4, <3>1
    <3>2. CASE j # Len(db) + 1
      <4>1. j \in DOMAIN db /\ i \in DOMAIN db
        BY <2>3, <3>2
      <4> QED
        BY <2>3, <4>1 DEF EpochsRise
    <3> QED
      BY <3>1, <3>2
  <2> QED
    BY <2>1, <2>4, <2>5 DEF EpochsRise
<1>12. ASSUME NEW s \in Slot,
              \/ SkipCompaction(s) \/ StartCompaction(s) \/ NotSummarised(s) \/ Fail(s)
              \/ EndTurn(s) \/ NextRound(s) \/ EndTests(s)
       PROVE  EpochsRise'
  BY <1>1, <1>12 DEF SkipCompaction, StartCompaction, NotSummarised, Fail, EndTurn, NextRound, EndTests
<1>13. ASSUME NEW cost \in MapCosts, Reindex(cost)
       PROVE  EpochsRise'
  BY <1>1, <1>13 DEF Reindex
<1>14. CASE Ask \/ CompactNow \/ Saved \/ Interrupt \/ UNCHANGED vars
  BY <1>1, <1>14 DEF Ask, CompactNow, Saved, Interrupt, vars
<1> QED
  BY <1>2, <1>3, <1>4, <1>5, <1>6, <1>7, <1>8, <1>9, <1>10, <1>11, <1>12, <1>13, <1>14 DEF Next

LEMMA PrefixElements ==
  ASSUME NEW s \in Seq(Message), NEW t \in Seq(Message)
  PROVE  IsPrefix(s, t) <=> Len(s) <= Len(t) /\ \A i \in 1 .. Len(s) : s[i] = t[i]
<1>1. Len(s) \in Nat /\ Len(t) \in Nat
  OBVIOUS
<1>2. ASSUME Len(s) <= Len(t)
      PROVE  /\ SubSeq(s, 1, Len(s)) \in Seq(Message) /\ SubSeq(t, 1, Len(s)) \in Seq(Message)
             /\ Len(SubSeq(s, 1, Len(s))) = Len(s) /\ Len(SubSeq(t, 1, Len(s))) = Len(s)
             /\ \A i \in 1 .. Len(s) : SubSeq(s, 1, Len(s))[i] = s[i] /\ SubSeq(t, 1, Len(s))[i] = t[i]
  BY <1>1, <1>2
<1>3. ASSUME IsPrefix(s, t)
      PROVE  Len(s) <= Len(t) /\ \A i \in 1 .. Len(s) : s[i] = t[i]
  BY <1>2, <1>3 DEF IsPrefix
<1>4. ASSUME Len(s) <= Len(t), \A i \in 1 .. Len(s) : s[i] = t[i]
      PROVE  IsPrefix(s, t)
  <2>1. SubSeq(s, 1, Len(s)) = SubSeq(t, 1, Len(s))
    BY <1>2, <1>4, SeqEqual
  <2> QED
    BY <1>4, <2>1 DEF IsPrefix
<1> QED
  BY <1>3, <1>4

LEMMA PrefixOfLonger ==
  ASSUME NEW s \in Seq(Message), NEW t \in Seq(Message), NEW u \in Seq(Message),
         IsPrefix(s, t), IsPrefix(t, u)
  PROVE  IsPrefix(s, u)
<1>1. /\ Len(s) <= Len(t) /\ Len(t) <= Len(u) /\ Len(s) \in Nat /\ Len(t) \in Nat /\ Len(u) \in Nat
      /\ \A i \in 1 .. Len(s) : s[i] = t[i]
      /\ \A i \in 1 .. Len(t) : t[i] = u[i]
  BY PrefixElements
<1>2. \A i \in 1 .. Len(s) : i \in 1 .. Len(t)
  BY <1>1
<1> QED
  BY <1>1, <1>2, PrefixElements

LEMMA HistoryLasts ==
  ASSUME TypeOK, RequestKept, sent' = sent, session'.epoch \in Nat, session'.epoch >= session.epoch,
         session'.history \in Seq(Message),
         session'.epoch = session.epoch =>
             /\ session'.mode = session.mode /\ session'.map = session.map
             /\ IsPrefix(session.history, session'.history)
  PROVE  RequestKept'
<1>1. session.epoch \in Nat /\ session.history \in Seq(Message)
  BY DEF TypeOK, ChatSession
<1>2. ASSUME sent # NoRequest, sent.epoch = session'.epoch
      PROVE  session'.epoch = session.epoch
  BY <1>1, <1>2 DEF RequestKept
<1>3. ASSUME sent # NoRequest, sent.epoch = session'.epoch, sent.whole
      PROVE  IsPrefix(sent.history, session'.history)
  BY <1>1, <1>2, <1>3, PrefixOfLonger DEF RequestKept
<1> QED
  BY <1>1, <1>2, <1>3 DEF RequestKept

LEMMA SamePrefix ==
  ASSUME NEW s \in Seq(Message)
  PROVE  IsPrefix(s, s)
BY PrefixElements

LEMMA RequestKeptBy ==
  ASSUME TypeOK, EpochsRise, RequestKept, [Next]_vars
  PROVE  RequestKept'
<1> USE DEF TypeOK, ChatSession
<1>0. session \in ChatSession /\ IsPrefix(session.history, session.history)
  BY SamePrefix
<1>1. ASSUME sent' = sent, session' = session
      PROVE  RequestKept'
  BY <1>1 DEF RequestKept
<1>2. ASSUME NEW kind \in {"plan", "test"}, NEW mode \in {"plan", "agent"}, Workflow(kind, mode)
      PROVE  RequestKept'
  BY <1>0, <1>2, InModeType, HistoryLasts DEF Workflow
<1>3. ASSUME NEW mode \in {"chat", "plan", "agent"}, SwitchMode(mode)
      PROVE  RequestKept'
  BY <1>0, <1>3, InModeType, HistoryLasts DEF SwitchMode
<1>4. CASE Clear
  <2>1. session' = [session EXCEPT !.history = <<>>, !.epoch = @ + 1] /\ sent' = sent
    BY <1>4 DEF Clear
  <2>2. session'.epoch = session.epoch + 1 /\ session'.history = <<>> /\ <<>> \in Seq(Message)
    BY <1>0, <2>1
  <2> QED
    BY <1>0, <2>1, <2>2, HistoryLasts
<1>5. ASSUME NEW s \in Slot, Summarised(s)
      PROVE  RequestKept'
  <2>1. session' = [session EXCEPT !.history = Compacted(tasks[s].seen), !.epoch = @ + 1] /\ sent' = sent
    BY <1>5 DEF Summarised, ReplaceHistory
  <2>2. session'.epoch = session.epoch + 1 /\ session'.history = Compacted(tasks[s].seen)
    BY <1>0, <2>1
  <2>3. tasks[s] \in Running /\ Cut(tasks[s].seen) > 0
    BY <1>5, RunningTask DEF Summarised
  <2>4. Compacted(tasks[s].seen) \in Seq(Message)
    BY <2>3, CompactedHistory DEF Running
  <2> QED
    BY <1>0, <2>1, <2>2, <2>4, HistoryLasts
<1>6. ASSUME NEW s \in Slot, NEW costs \in Retrieved, Request(s, costs)
      PROVE  RequestKept'
  <2>1. /\ session' = [session EXCEPT !.map = MapOfEpoch]
        /\ sent'.epoch = session.epoch /\ sent'.mode = session.mode /\ sent'.map = MapOfEpoch.cost
        /\ sent'.history = Fit(session.history) /\ sent'.whole = (Fit(session.history) = session.history)
    BY <1>6 DEF Request
  <2>2. /\ session'.epoch = session.epoch /\ session'.mode = session.mode
        /\ session'.map = MapOfEpoch /\ session'.history = session.history
    BY <1>0, <2>1
  <2>3. MapOfEpoch = [epoch |-> session.epoch, cost |-> MapOfEpoch.cost]
    BY MapType
  <2>4. sent'.whole => sent'.history = session.history
    BY <2>1
  <2> QED
    BY <1>0, <2>1, <2>2, <2>3, <2>4 DEF RequestKept
<1>7. ASSUME NEW s \in Slot, NEW ok \in BOOLEAN, Answer(s, ok)
      PROVE  RequestKept'
  <2> DEFINE said == <<Said("user", tasks[s].turn), Said("assistant", tasks[s].turn)>>
  <2>1. tasks[s] \in Running
    BY <1>7, RunningTask DEF Answer
  <2>2. said \in Seq(Message)
    BY <2>1, AnswerPair DEF Running
  <2>3. session' = [session EXCEPT !.history = @ \o said] /\ sent' = sent
    BY <1>7 DEF Answer
  <2> HIDE DEF said
  <2>4. session'.history = session.history \o said /\ session'.epoch = session.epoch
        /\ session'.mode = session.mode /\ session'.map = session.map
    BY <1>0, <2>3
  <2>5. session'.history \in Seq(Message) /\ IsPrefix(session.history, session'.history)
    <3> DEFINE h == session.history
    <3>1. h \in Seq(Message) /\ session'.history = h \o said
      BY <2>4
    <3> HIDE DEF h
    <3>2. /\ h \o said \in Seq(Message) /\ Len(h) <= Len(h \o said)
          /\ \A i \in 1 .. Len(h) : h[i] = (h \o said)[i]
      BY <2>2, <3>1, ConcatProperties
    <3> QED
      BY <3>1, <3>2, PrefixElements DEF h
  <2> QED
    BY <1>0, <2>3, <2>4, <2>5, HistoryLasts
<1>8. CASE Leave
  <2>1. session' = [session EXCEPT !.overlapped = TRUE] /\ sent' = sent
    BY <1>8 DEF Leave
  <2> QED
    BY <1>0, <2>1, HistoryLasts
<1>9. CASE Stop
  BY <1>9 DEF Stop, RequestKept
<1>10. CASE Resume
  BY <1>10 DEF Resume, RequestKept
<1>11. CASE SaveRow
  BY <1>1, <1>11 DEF SaveRow
<1>12. ASSUME NEW s \in Slot,
              \/ SkipCompaction(s) \/ StartCompaction(s) \/ NotSummarised(s) \/ Fail(s)
              \/ EndTurn(s) \/ NextRound(s) \/ EndTests(s)
       PROVE  RequestKept'
  BY <1>1, <1>12 DEF SkipCompaction, StartCompaction, NotSummarised, Fail, EndTurn, NextRound, EndTests
<1>13. ASSUME NEW cost \in MapCosts, Reindex(cost)
       PROVE  RequestKept'
  BY <1>1, <1>13 DEF Reindex
<1>14. CASE Ask \/ CompactNow \/ Saved \/ Interrupt \/ UNCHANGED vars
  BY <1>1, <1>14 DEF Ask, CompactNow, Saved, Interrupt, vars
<1> QED
  BY <1>2, <1>3, <1>4, <1>5, <1>6, <1>7, <1>8, <1>9, <1>10, <1>11, <1>12, <1>13, <1>14 DEF Next

-----------------------------------------------------------------------------
(* Nothing is forgotten as long as no task goes on behind the prompt. *)

LEMMA ContentAppended ==
  ASSUME NEW h \in Seq(Message), NEW t \in Nat
  PROVE  /\ ContentOf(h) \subseteq ContentOf(h \o <<Said("user", t), Said("assistant", t)>>)
         /\ Said("user", t) \in ContentOf(h \o <<Said("user", t), Said("assistant", t)>>)
         /\ Said("assistant", t) \in ContentOf(h \o <<Said("user", t), Said("assistant", t)>>)
<1> DEFINE said == <<Said("user", t), Said("assistant", t)>>
           new == h \o said
<1>1. said \in Seq(Message) /\ Len(said) = 2 /\ said[1] = Said("user", t) /\ said[2] = Said("assistant", t)
  BY AnswerPair
<1> HIDE DEF said
<1>2. /\ new \in Seq(Message) /\ Len(new) = Len(h) + 2 /\ Len(h) \in Nat
      /\ \A i \in 1 .. Len(h) : new[i] = h[i]
      /\ new[Len(h) + 1] = said[1] /\ new[Len(h) + 2] = said[2]
  <2>1. Len(h) \in Nat
    OBVIOUS
  <2>2. /\ new \in Seq(Message) /\ Len(new) = Len(h) + Len(said)
        /\ \A i \in 1 .. Len(h) + Len(said) :
             new[i] = IF i <= Len(h) THEN h[i] ELSE said[i - Len(h)]
    BY <1>1, ConcatProperties, Zenon
  <2>3. /\ Len(h) + 1 \in 1 .. Len(h) + 2 /\ ~(Len(h) + 1 <= Len(h)) /\ (Len(h) + 1) - Len(h) = 1
        /\ Len(h) + 2 \in 1 .. Len(h) + 2 /\ ~(Len(h) + 2 <= Len(h)) /\ (Len(h) + 2) - Len(h) = 2
    BY <2>1
  <2> HIDE DEF new
  <2>4. new[Len(h) + 1] = said[1] /\ new[Len(h) + 2] = said[2]
    BY <1>1, <2>2, <2>3
  <2> QED
    BY <1>1, <2>1, <2>2, <2>4
<1>3. DOMAIN new = 1 .. Len(h) + 2 /\ DOMAIN h = 1 .. Len(h)
  BY <1>2
<1> HIDE DEF new
<1>4. ContentOf(h) \subseteq ContentOf(new)
  BY <1>2, <1>3 DEF ContentOf
<1>5. Content(new[Len(h) + 1]) = {Said("user", t)} /\ Content(new[Len(h) + 2]) = {Said("assistant", t)}
  BY <1>1, <1>2, SaidType
<1>6. Len(h) + 1 \in DOMAIN new /\ Len(h) + 2 \in DOMAIN new
  BY <1>2, <1>3
<1>7. Said("user", t) \in ContentOf(new) /\ Said("assistant", t) \in ContentOf(new)
  BY <1>5, <1>6 DEF ContentOf
<1> QED
  BY <1>4, <1>7 DEF new, said

LEMMA AloneLasts ==
  ASSUME TypeOK, Alone, told' = told, count'.left = count.left,
         session'.overlapped = session.overlapped, session'.on = session.on,
         session'.history = session.history, tasks'["behind"] = tasks["behind"],
         session.on /\ ~session.overlapped /\ tasks'["front"].pc = "summarising" =>
             tasks'["front"].seen = session.history
  PROVE  Alone'
BY DEF Alone, front

(* Alone, only the task in front runs. *)
LEMMA OnlyFront ==
  ASSUME TypeOK, Alone, session.on, ~session.overlapped, NEW s \in Slot, tasks[s].pc # "idle"
  PROVE  s = "front"
BY SlotFront, IdleIsNotRunning DEF Alone

LEMMA AloneKept ==
  ASSUME TypeOK, Alone, [Next]_vars
  PROVE  Alone'
<1> USE SlotFront
<1>0. tasks \in [Slot -> {Idle} \cup Running] /\ session \in ChatSession /\ session.history \in Seq(Message)
      /\ session.on \in BOOLEAN /\ session.overlapped \in BOOLEAN
  BY DEF TypeOK, ChatSession
<1>1. CASE Ask
  <2>1. NewTask("ask").pc = "check"
    BY NewTaskType
  <2> QED
    BY <1>0, <1>1, <2>1, AloneLasts, TurnsType DEF Ask
<1>2. ASSUME NEW kind \in {"plan", "test"}, NEW mode \in {"plan", "agent"}, Workflow(kind, mode)
      PROVE  Alone'
  <2>1. NewTask(kind).pc = "check"
    BY NewTaskType
  <2> QED
    BY <1>0, <1>2, <2>1, InModeType, AloneLasts, TurnsType DEF Workflow
<1>3. ASSUME NEW mode \in {"chat", "plan", "agent"}, SwitchMode(mode)
      PROVE  Alone'
  BY <1>0, <1>3, InModeType, AloneLasts DEF SwitchMode, Alone, front
<1>4. CASE Clear
  <2>1. session' = [session EXCEPT !.history = <<>>, !.epoch = @ + 1] /\ told' = {}
        /\ UNCHANGED <<tasks, count>> /\ front.pc = "idle"
    BY <1>4 DEF Clear, AtPrompt
  <2>2. session'.overlapped = session.overlapped /\ session'.on = session.on
    BY <1>0, <2>1 DEF ChatSession
  <2> QED
    BY <2>1, <2>2 DEF Alone, front
<1>5. ASSUME NEW s \in Slot, Summarised(s)
      PROVE  Alone'
  <2>1. /\ session' = [session EXCEPT !.history = Compacted(tasks[s].seen), !.epoch = @ + 1]
        /\ told' = told /\ count' = count /\ tasks' = [tasks EXCEPT ![s] = AfterSummary(tasks[s])]
        /\ tasks[s].pc = "summarising"
    BY <1>0, <1>5 DEF Summarised, ReplaceHistory
  <2>2. tasks[s] \in Running /\ Cut(tasks[s].seen) > 0 /\ session.on
    BY <2>1, RunningTask DEF TypeOK
  <2>3. session'.on = session.on /\ session'.overlapped = session.overlapped
        /\ session'.history = Compacted(tasks[s].seen)
    BY <1>0, <2>1 DEF ChatSession
  <2>4. ASSUME ~session.overlapped
        PROVE  /\ tasks'["behind"] = Idle /\ tasks'["front"].pc # "summarising"
               /\ told \subseteq ContentOf(session'.history)
    <3>1. s = "front" /\ tasks[s].seen = session.history
      BY <2>1, <2>2, <2>4, OnlyFront DEF Alone, front
    <3>2. ContentOf(Compacted(session.history)) = ContentOf(session.history)
      BY <1>0, <2>2, <3>1, CompactedHistory
    <3> QED
      BY <1>0, <2>1, <2>2, <2>3, <2>4, <3>1, <3>2, AfterSummaryType DEF Alone
  <2> QED
    BY <2>1, <2>3, <2>4 DEF Alone, front
<1>6. ASSUME NEW s \in Slot, NEW costs \in Retrieved, Request(s, costs)
      PROVE  Alone'
  <2>1. /\ session' = [session EXCEPT !.map = MapOfEpoch] /\ told' = told /\ count' = count
        /\ tasks' = [tasks EXCEPT ![s] = [tasks[s] EXCEPT !.pc = "streaming"]]
        /\ tasks[s].pc = "request"
    BY <1>0, <1>6 DEF Request
  <2>2. tasks[s] \in Running /\ session.on
    BY <2>1, RunningTask
  <2>3. [tasks[s] EXCEPT !.pc = "streaming"].pc = "streaming"
    BY <2>2 DEF Running
  <2>4. session'.overlapped = session.overlapped /\ session'.on = session.on
        /\ session'.history = session.history
    BY <1>0, <2>1 DEF ChatSession
  <2> QED
    BY <1>0, <2>1, <2>2, <2>3, <2>4, OnlyFront DEF Alone, front
<1>7. ASSUME NEW s \in Slot, NEW ok \in BOOLEAN, Answer(s, ok)
      PROVE  Alone'
  <2> DEFINE t == tasks[s].turn
             said == <<Said("user", t), Said("assistant", t)>>
  <2>1. /\ session' = [session EXCEPT !.history = @ \o said]
        /\ told' = told \cup {Said("user", t), Said("assistant", t)} /\ count' = count
        /\ tasks' = [tasks EXCEPT ![s] = [tasks[s] EXCEPT !.pc = "ended", !.ok = ok]]
        /\ tasks[s].pc = "streaming"
    BY <1>0, <1>7 DEF Answer
  <2>2. tasks[s] \in Running /\ session.on /\ t \in Nat
    BY <2>1, RunningTask DEF Running
  <2>3. [tasks[s] EXCEPT !.pc = "ended", !.ok = ok].pc = "ended"
    BY <2>2 DEF Running
  <2>4. session'.overlapped = session.overlapped /\ session'.on = session.on
        /\ session'.history = session.history \o said
    <3> HIDE DEF said
    <3> QED
      BY <1>0, <2>1 DEF ChatSession
  <2>5. told \subseteq ContentOf(session.history) => told' \subseteq ContentOf(session'.history)
    BY <1>0, <2>1, <2>2, <2>4, ContentAppended
  <2> HIDE DEF said, t
  <2> QED
    BY <1>0, <2>1, <2>2, <2>3, <2>4, <2>5, OnlyFront DEF Alone, front
<1>8. CASE Leave
  BY <1>0, <1>8 DEF Leave, Alone, ChatSession, TypeOK
<1>9. CASE Stop
  BY <1>0, <1>9 DEF Stop, Alone, Off, Fresh, TypeOK
<1>10. CASE Resume
  <2>1. session' = [Fresh EXCEPT !.history = Messages, !.epoch = CurrentEpoch] /\ told' = ContentOf(Messages)
        /\ tasks' = tasks /\ tasks = NoTasks /\ count' = count
    BY <1>10 DEF Resume, TypeOK
  <2>2. session'.history = Messages /\ ~session'.overlapped
    BY <2>1 DEF Fresh
  <2> QED
    BY <2>1, <2>2, IdleIsNotRunning DEF Alone, front, NoTasks
<1>11. CASE SaveRow
  <2>1. tasks' = [tasks EXCEPT !["front"] = [tasks["front"] EXCEPT !.save = Tail(tasks["front"].save)]]
        /\ tasks["front"].pc = "saving" /\ UNCHANGED <<session, told, count>>
    BY <1>0, <1>11 DEF SaveRow, Blocked, front
  <2>2. tasks'["front"].pc = "saving" /\ tasks'["behind"] = tasks["behind"]
    BY <1>0, <2>1, RunningTask DEF Running
  <2> QED
    BY <2>1, <2>2, AloneLasts
<1>12. ASSUME NEW s \in Slot,
              \/ SkipCompaction(s) \/ NotSummarised(s) \/ Fail(s) \/ EndTurn(s) \/ EndTests(s)
       PROVE  Alone'
  <2>1. tasks[s].pc # "idle" /\ UNCHANGED <<session, told, count>>
    BY <1>12 DEF SkipCompaction, NotSummarised, Fail, EndTurn, EndTests
  <2>2. tasks[s] \in Running /\ session.on
    BY <2>1, RunningTask
  <2>3. PICK task : tasks' = [tasks EXCEPT ![s] = task] /\ task.pc # "summarising"
    <3>1. CASE SkipCompaction(s)
      <4>1. [tasks[s] EXCEPT !.pc = "request"].pc = "request"
        BY <2>2 DEF Running
      <4> QED
        BY <1>0, <3>1, <4>1, IdleIsNotRunning DEF SkipCompaction
    <3>2. CASE NotSummarised(s)
      BY <1>0, <2>2, <3>2, AfterSummaryType DEF NotSummarised
    <3>3. CASE Fail(s)
      <4>1. [tasks[s] EXCEPT !.pc = "ended", !.ok = FALSE].pc = "ended"
        BY <2>2 DEF Running
      <4> QED
        BY <1>0, <3>3, <4>1 DEF Fail
    <3>4. CASE EndTurn(s)
      <4> DEFINE said == <<Said("user", tasks[s].turn), Said("assistant", tasks[s].turn)>>
      <4>0. said \in Seq(Message)
        <5>1. tasks[s].turn \in Nat
          BY <2>2 DEF Running
        <5> QED
          BY <5>1, AnswerPair
      <4>1. Saving(tasks[s], said).pc = "saving"
        <5> HIDE DEF said
        <5> QED
          BY <2>2, <4>0, SavingType
      <4> QED
        BY <1>0, <3>4, <4>1, IdleIsNotRunning DEF EndTurn
    <3>5. CASE EndTests(s)
      <4>1. Saving(tasks[s], Since(tasks[s])).pc = "saving"
        BY <2>2, SinceType, SavingType
      <4> QED
        BY <1>0, <3>5, <4>1, IdleIsNotRunning DEF EndTests
    <3> QED
      BY <1>12, <3>1, <3>2, <3>3, <3>4, <3>5
  <2> QED
    BY <1>0, <2>1, <2>2, <2>3, OnlyFront DEF Alone, front
<1>13. ASSUME NEW s \in Slot, NextRound(s)
       PROVE  Alone'
  <2>1. tasks' = [tasks EXCEPT ![s] = [tasks[s] EXCEPT !.pc = "check", !.round = tasks[s].round + 1,
                                                       !.turn = count.turns + 1, !.ok = FALSE]]
        /\ tasks[s].pc # "idle" /\ UNCHANGED <<session, told>> /\ count' = Turns(1)
    BY <1>0, <1>13 DEF NextRound
  <2>2. tasks[s] \in Running /\ session.on
    BY <2>1, RunningTask
  <2>3. [tasks[s] EXCEPT !.pc = "check", !.round = tasks[s].round + 1, !.turn = count.turns + 1, !.ok = FALSE].pc
        = "check"
    BY <2>2 DEF Running
  <2> QED
    BY <1>0, <2>1, <2>2, <2>3, OnlyFront, TurnsType DEF Alone, front
<1>14. ASSUME NEW s \in Slot, StartCompaction(s)
       PROVE  Alone'
  <2>1. tasks' = [tasks EXCEPT ![s] = [tasks[s] EXCEPT !.pc = "summarising", !.seen = session.history]]
        /\ tasks[s].pc # "idle" /\ UNCHANGED <<session, told, count>>
    BY <1>0, <1>14 DEF StartCompaction
  <2>2. tasks[s] \in Running /\ session.on
    BY <2>1, RunningTask
  <2>3. [tasks[s] EXCEPT !.pc = "summarising", !.seen = session.history].seen = session.history
    BY <2>2 DEF Running
  <2> QED
    BY <1>0, <2>1, <2>2, <2>3, OnlyFront DEF Alone, front
<1>15. CASE CompactNow
  <2>1. [NewTask("compact") EXCEPT !.turn = 0].pc = "check"
    BY NewTaskType
  <2> QED
    BY <1>0, <1>15, <2>1, AloneLasts DEF CompactNow
<1>16. CASE Saved
  BY <1>0, <1>16, AloneLasts, IdleIsNotRunning DEF Saved
<1>17. CASE Interrupt
  <2>1. front \in Running /\ session.on
    <3>1. tasks["front"].kind # Idle.kind
      BY <1>17, IdleIsNotRunning DEF Interrupt, Cancellable, front
    <3> QED
      BY <1>0, <1>17, <3>1 DEF Interrupt, Cancellable, front
  <2>2. AfterCancel.pc # "summarising"
    BY <2>1, SinceType, SavingType, IdleIsNotRunning DEF AfterCancel
  <2> QED
    BY <1>0, <1>17, <2>2, AloneLasts DEF Interrupt
<1>18. ASSUME NEW cost \in MapCosts, Reindex(cost)
       PROVE  Alone'
  BY <1>18 DEF Reindex, Alone, front
<1>19. CASE UNCHANGED vars
  BY <1>19 DEF vars, Alone, front
<1> QED
  BY <1>1, <1>2, <1>3, <1>4, <1>5, <1>6, <1>7, <1>8, <1>9, <1>10, <1>11, <1>12, <1>13, <1>14, <1>15,
     <1>16, <1>17, <1>18, <1>19 DEF Next

-----------------------------------------------------------------------------
(* Each message is a row once, until a task is left behind the prompt. *)

LEMMA MessageKinds ==
  ASSUME NEW m \in Message
  PROVE  \/ m.role = "summary"
         \/ m.role # "summary" /\ m.turn \in Nat
BY DEF Message, Spoken

LEMMA BeforeLater ==
  ASSUME NEW h \in Seq(Message), NEW t \in Nat, NEW u \in Nat, t <= u, Before(h, t)
  PROVE  Before(h, u)
<1>1. ASSUME NEW i \in DOMAIN h, h[i].role # "summary"
      PROVE  h[i].turn < u
  <2>1. h[i] \in Message /\ h[i].turn < t
    BY <1>1 DEF Before
  <2>2. h[i].turn \in Nat
    BY <1>1, <2>1, MessageKinds
  <2> QED
    BY <2>1, <2>2
<1> QED
  BY <1>1 DEF Before

LEMMA SettledLater ==
  ASSUME NEW h \in Seq(Message), NEW t \in Nat, Settled(h, t)
  PROVE  Settled(h, t + 1)
<1>1. t + 1 \in Nat /\ t + 1 + 1 \in Nat /\ t + 1 <= t + 1 + 1
  OBVIOUS
<1> QED
  BY <1>1, BeforeLater DEF Settled

LEMMA NothingSettled ==
  ASSUME NEW t
  PROVE  Settled(<<>>, t) /\ Before(<<>>, t)
BY DEF Settled, Distinct, SummaryFirst, Before

(* Folding keeps the messages apart, and the one summary first. *)
LEMMA FoldedSettled ==
  ASSUME NEW h \in Seq(Message), Cut(h) > 0, NEW t \in Nat, Settled(h, t)
  PROVE  /\ Settled(Compacted(h), t) /\ Compacted(h) # <<>>
         /\ \A u \in Nat : Before(h, u) => Before(Compacted(h), u)
         /\ \A i \in DOMAIN Compacted(h) :
              i > 1 => \E j \in DOMAIN h : j >= i /\ Compacted(h)[i] = h[j]
<1> DEFINE new == Compacted(h)
<1>1. /\ new \in Seq(Message) /\ Len(new) = 1 + Len(h) - Cut(h) /\ new[1].role = "summary"
      /\ \A i \in 2 .. Len(new) : new[i] = h[Cut(h) + i - 1]
      /\ Cut(h) \in 1 .. Len(h) - 1 /\ Len(h) \in Nat /\ Cut(h) \in Nat
  <2>1. Cut(h) \in 1 .. Len(h) - 1 /\ Len(h) \in Nat
    BY CutBounds
  <2> QED
    BY <2>1, CompactedHistory
<1> DEFINE c == Cut(h)
<1>2. DOMAIN new = 1 .. Len(new) /\ DOMAIN h = 1 .. Len(h) /\ Len(new) \in Nat /\ Len(new) > 1
  BY <1>1
<1> HIDE DEF new, c
<1>3. ASSUME NEW i \in DOMAIN new, i # 1
      PROVE  c + i - 1 \in DOMAIN h /\ c + i - 1 >= i /\ c + i - 1 > 1 /\ new[i] = h[c + i - 1]
  BY <1>1, <1>2, <1>3 DEF c
<1>4. ASSUME NEW i \in DOMAIN new, i # 1
      PROVE  new[i].role # "summary"
  BY <1>3, <1>4 DEF Settled, SummaryFirst
<1>5. SummaryFirst(new)
  BY <1>4 DEF SummaryFirst
<1>6. Distinct(new)
  <2>1. ASSUME NEW i \in DOMAIN new, NEW j \in DOMAIN new, new[i] = new[j]
        PROVE  i = j
    <3>1. CASE i = 1 \/ j = 1
      BY <1>1, <1>4, <2>1, <3>1
    <3>2. CASE i # 1 /\ j # 1
      <4>1. h[c + i - 1] = h[c + j - 1] /\ c + i - 1 \in DOMAIN h /\ c + j - 1 \in DOMAIN h
        BY <1>3, <2>1, <3>2
      <4>2. c + i - 1 = c + j - 1
        BY <4>1 DEF Settled, Distinct
      <4> QED
        BY <1>1, <1>2, <4>2 DEF c
    <3> QED
      BY <3>1, <3>2
  <2> QED
    BY <2>1 DEF Distinct
<1>7. ASSUME NEW u \in Nat, Before(h, u)
      PROVE  Before(new, u)
  <2>1. ASSUME NEW i \in DOMAIN new, new[i].role # "summary"
        PROVE  new[i].turn < u
    <3>1. i # 1
      BY <1>1, <2>1
    <3> QED
      BY <1>3, <1>7, <2>1, <3>1 DEF Before
  <2> QED
    BY <2>1 DEF Before
<1>8. ASSUME NEW i \in DOMAIN new, i > 1
      PROVE  \E j \in DOMAIN h : j >= i /\ new[i] = h[j]
  BY <1>2, <1>3, <1>8
<1>9. t + 1 \in Nat /\ new # <<>>
  BY <1>2
<1> QED
  BY <1>5, <1>6, <1>7, <1>8, <1>9 DEF new, Settled

(* A turn's two messages are new. *)
LEMMA AnsweredSettled ==
  ASSUME NEW h \in Seq(Message), NEW t \in Nat, Settled(h, t), Before(h, t)
  PROVE  LET new == h \o <<Said("user", t), Said("assistant", t)>>
         IN  /\ Settled(new, t) /\ new # <<>>
             /\ \A i \in DOMAIN new :
                  \/ i \in DOMAIN h /\ new[i] = h[i]
                  \/ new[i] \in {Said("user", t), Said("assistant", t)}
<1> DEFINE said == <<Said("user", t), Said("assistant", t)>>
           new == h \o said
<1>1. said \in Seq(Message) /\ Len(said) = 2 /\ said[1] = Said("user", t) /\ said[2] = Said("assistant", t)
  BY AnswerPair
<1>2. /\ Said("user", t).role = "user" /\ Said("user", t).turn = t
      /\ Said("assistant", t).role = "assistant" /\ Said("assistant", t).turn = t
  BY SaidType
<1> HIDE DEF said
<1>3. Len(h) \in Nat
  OBVIOUS
<1>4. /\ new \in Seq(Message) /\ Len(new) = Len(h) + Len(said)
      /\ \A i \in 1 .. Len(h) + Len(said) : new[i] = IF i <= Len(h) THEN h[i] ELSE said[i - Len(h)]
  BY <1>1, ConcatProperties, Zenon
<1>5. DOMAIN new = 1 .. Len(h) + 2 /\ DOMAIN h = 1 .. Len(h)
  BY <1>1, <1>4
<1> HIDE DEF new
<1>6. \A i \in 1 .. Len(h) : new[i] = h[i]
  BY <1>1, <1>3, <1>4
<1>7. new[Len(h) + 1] = Said("user", t) /\ new[Len(h) + 2] = Said("assistant", t)
  <2>1. /\ Len(h) + 1 \in 1 .. Len(h) + 2 /\ ~(Len(h) + 1 <= Len(h)) /\ (Len(h) + 1) - Len(h) = 1
        /\ Len(h) + 2 \in 1 .. Len(h) + 2 /\ ~(Len(h) + 2 <= Len(h)) /\ (Len(h) + 2) - Len(h) = 2
    BY <1>3
  <2> QED
    BY <1>1, <1>4, <2>1
<1>8. ASSUME NEW i \in DOMAIN new
      PROVE  i \in 1 .. Len(h) \/ i = Len(h) + 1 \/ i = Len(h) + 2
  BY <1>3, <1>5
<1>9. ASSUME NEW i \in 1 .. Len(h)
      PROVE  new[i] \notin {Said("user", t), Said("assistant", t)}
  <2>1. h[i].role # "summary" => h[i].turn < t
    BY <1>5 DEF Before
  <2>2. h[i].role # "summary" => h[i].turn # t
    BY <2>1
  <2> QED
    BY <1>2, <1>6, <2>2
<1>10. Said("user", t) # Said("assistant", t)
  BY <1>2
<1>11. Distinct(new)
  <2>1. ASSUME NEW i \in DOMAIN new, NEW j \in DOMAIN new, new[i] = new[j]
        PROVE  i = j
    <3>1. CASE i \in 1 .. Len(h) /\ j \in 1 .. Len(h)
      BY <1>5, <1>6, <2>1, <3>1 DEF Settled, Distinct
    <3>2. CASE ~(i \in 1 .. Len(h) /\ j \in 1 .. Len(h))
      BY <1>7, <1>8, <1>9, <1>10, <2>1, <3>2
    <3> QED
      BY <3>1, <3>2
  <2> QED
    BY <2>1 DEF Distinct
<1>12. SummaryFirst(new)
  BY <1>2, <1>5, <1>6, <1>7, <1>8 DEF Settled, SummaryFirst
<1>13. Before(new, t + 1)
  <2>1. t < t + 1
    OBVIOUS
  <2> QED
    BY <1>2, <1>5, <1>6, <1>7, <1>8, <2>1 DEF Settled, Before
<1>14. new # <<>>
  BY <1>3, <1>5
<1>15. ASSUME NEW i \in DOMAIN new
       PROVE  \/ i \in DOMAIN h /\ new[i] = h[i]
              \/ new[i] \in {Said("user", t), Said("assistant", t)}
  BY <1>5, <1>6, <1>7, <1>8
<1> QED
  BY <1>11, <1>12, <1>13, <1>14, <1>15 DEF Settled, new, said

(* What a workflow leaves behind is still to be saved. *)
LEMMA SinceOwed ==
  ASSUME TypeOK, session.on, NEW task \in Running, task.kind = "test", Settled(session.history, count.turns),
         Unsaved(task, Messages, session.history)
  PROVE  ToSave(Since(task), Messages, session.history, count.turns)
<1> DEFINE h == session.history
           save == Since(task)
<1>1. /\ h \in Seq(Message) /\ DOMAIN h = 1 .. Len(h) /\ Len(h) \in Nat /\ task.start \in Nat
  BY DEF TypeOK, ChatSession, Running
<1>2. /\ save \in Seq(Message)
      /\ \A i \in DOMAIN save : task.start + i \in DOMAIN h /\ save[i] = h[task.start + i]
  BY SinceType
<1>3. DOMAIN save = 1 .. Len(save) /\ Len(save) \in Nat
  BY <1>2
<1>4. /\ \A i \in DOMAIN h : i > task.start => h[i] \notin ToSet(Messages)
      /\ task.start = 0 => Messages = <<>>
  BY DEF Unsaved
<1>5. Distinct(h) /\ SummaryFirst(h) /\ Before(h, count.turns + 1)
  BY DEF Settled
<1> HIDE DEF save, h
<1>6. ASSUME NEW i \in DOMAIN save
      PROVE  /\ i \in Nat /\ i >= 1 /\ task.start + i \in DOMAIN h /\ save[i] = h[task.start + i]
             /\ task.start + i > task.start
  BY <1>1, <1>2, <1>3
<1>7. Distinct(save)
  <2>1. ASSUME NEW i \in DOMAIN save, NEW j \in DOMAIN save, save[i] = save[j]
        PROVE  i = j
    <3>1. task.start + i = task.start + j
      BY <1>5, <1>6, <2>1 DEF Distinct
    <3> QED
      BY <1>1, <1>6, <3>1
  <2> QED
    BY <2>1 DEF Distinct
<1>8. ASSUME NEW i \in DOMAIN save, save[i].role = "summary"
      PROVE  i = 1 /\ task.start = 0
  <2>1. task.start + i = 1
    BY <1>5, <1>6, <1>8 DEF SummaryFirst
  <2> QED
    BY <1>1, <1>6, <2>1
<1>9. Before(save, count.turns + 1)
  BY <1>5, <1>6 DEF Before
<1>10. \A i \in DOMAIN save : save[i] \notin ToSet(Messages)
  BY <1>4, <1>6
<1>11. ASSUME save # <<>>
       PROVE  h # <<>>
  <2>1. 1 \in DOMAIN save
    BY <1>2, <1>3, <1>11
  <2> QED
    BY <1>1, <1>6, <2>1
<1> QED
  BY <1>4, <1>7, <1>8, <1>9, <1>10, <1>11 DEF ToSave, Settled, SummaryFirst, save, h

(* So is what a turn leaves. *)
LEMMA PairOwed ==
  ASSUME NEW t \in Nat, NEW rows \in Seq(Message), Before(rows, t), NEW h, h # <<>>
  PROVE  ToSave(<<Said("user", t), Said("assistant", t)>>, rows, h, t)
<1> DEFINE said == <<Said("user", t), Said("assistant", t)>>
<1>1. said \in Seq(Message) /\ DOMAIN said = {1, 2} /\ said[1] = Said("user", t) /\ said[2] = Said("assistant", t)
  BY AnswerPair
<1>2. /\ Said("user", t).role = "user" /\ Said("user", t).turn = t
      /\ Said("assistant", t).role = "assistant" /\ Said("assistant", t).turn = t
  BY SaidType
<1> HIDE DEF said
<1>3. Distinct(said) /\ SummaryFirst(said) /\ Before(said, t + 1)
  <2>1. t < t + 1
    OBVIOUS
  <2> QED
    BY <1>1, <1>2, <2>1 DEF Distinct, SummaryFirst, Before
<1>4. ASSUME NEW i \in DOMAIN said
      PROVE  said[i] \notin ToSet(rows)
  <2>1. said[i].role # "summary" /\ said[i].turn = t
    BY <1>1, <1>2
  <2>2. ASSUME NEW j \in DOMAIN rows, rows[j] = said[i]
        PROVE  FALSE
    <3>1. t < t
      BY <2>1, <2>2 DEF Before
    <3> QED
      BY <3>1
  <2> QED
    BY <2>2 DEF ToSet
<1> QED
  BY <1>1, <1>2, <1>3, <1>4 DEF ToSave, Settled, said

(* One of the messages owed becomes a row. *)
LEMMA RowSettled ==
  ASSUME NEW rows \in Seq(Message), NEW save \in Seq(Message), NEW h, NEW t \in Nat, save # <<>>,
         Settled(rows, t), ToSave(save, rows, h, t)
  PROVE  /\ Settled(Append(rows, Head(save)), t) /\ h # <<>>
         /\ ToSave(Tail(save), Append(rows, Head(save)), h, t)
         /\ Head(save) \notin ToSet(rows)
<1> DEFINE new == Append(rows, Head(save))
           rest == Tail(save)
<1>1. /\ Len(rows) \in Nat /\ Len(save) \in Nat /\ DOMAIN rows = 1 .. Len(rows) /\ DOMAIN save = 1 .. Len(save)
      /\ 1 \in DOMAIN save /\ Head(save) = save[1] /\ save[1] \in Message
  OBVIOUS
<1>2. /\ new \in Seq(Message) /\ DOMAIN new = 1 .. Len(rows) + 1
      /\ \A i \in 1 .. Len(rows) : new[i] = rows[i]
      /\ new[Len(rows) + 1] = save[1]
  BY <1>1
<1>3. /\ rest \in Seq(Message) /\ \A i \in DOMAIN rest : i + 1 \in DOMAIN save /\ rest[i] = save[i + 1]
      /\ DOMAIN rest = 1 .. Len(rest) /\ Len(rest) \in Nat
  BY <1>1
<1>4. /\ Distinct(save) /\ SummaryFirst(save) /\ Before(save, t + 1)
      /\ \A i \in DOMAIN save : save[i] \notin ToSet(rows)
      /\ \A i \in DOMAIN save : save[i].role = "summary" => rows = <<>>
      /\ h # <<>>
  BY DEF ToSave, Settled
<1>5. Distinct(rows) /\ SummaryFirst(rows) /\ Before(rows, t + 1)
  BY DEF Settled
<1> HIDE DEF new, rest
<1>6. ASSUME NEW i \in DOMAIN new
      PROVE  i \in DOMAIN rows \/ i = Len(rows) + 1
  BY <1>1, <1>2
<1>7. ASSUME NEW i \in DOMAIN rows
      PROVE  rows[i] # save[1]
  BY <1>1, <1>4 DEF ToSet
<1>8. Distinct(new)
  <2>1. ASSUME NEW i \in DOMAIN new, NEW j \in DOMAIN new, new[i] = new[j]
        PROVE  i = j
    <3>1. CASE i \in DOMAIN rows /\ j \in DOMAIN rows
      BY <1>1, <1>2, <1>5, <2>1, <3>1 DEF Distinct
    <3>2. CASE ~(i \in DOMAIN rows /\ j \in DOMAIN rows)
      BY <1>1, <1>2, <1>6, <1>7, <2>1, <3>2
    <3> QED
      BY <3>1, <3>2
  <2> QED
    BY <2>1 DEF Distinct
<1>9. SummaryFirst(new)
  <2>1. ASSUME NEW i \in DOMAIN new, new[i].role = "summary"
        PROVE  i = 1
    <3>1. CASE i \in DOMAIN rows
      BY <1>1, <1>2, <1>5, <2>1, <3>1 DEF SummaryFirst
    <3>2. CASE i = Len(rows) + 1
      <4>1. rows = <<>>
        BY <1>1, <1>2, <1>4, <2>1, <3>2
      <4> QED
        BY <3>2, <4>1
    <3> QED
      BY <1>6, <3>1, <3>2
  <2> QED
    BY <2>1 DEF SummaryFirst
<1>10. Before(new, t + 1)
  BY <1>1, <1>2, <1>4, <1>5, <1>6 DEF Before
<1>11. ASSUME NEW i \in DOMAIN rest
       PROVE  /\ i \in Nat /\ i >= 1 /\ i + 1 \in DOMAIN save /\ rest[i] = save[i + 1]
              /\ rest[i].role # "summary" /\ rest[i] # save[1] /\ rest[i] \notin ToSet(rows)
  <2>1. i \in Nat /\ i >= 1 /\ i + 1 \in DOMAIN save /\ rest[i] = save[i + 1] /\ i + 1 # 1
    BY <1>1, <1>3
  <2> QED
    BY <1>1, <1>4, <2>1 DEF Distinct, SummaryFirst
<1>12. Distinct(rest)
  <2>1. ASSUME NEW i \in DOMAIN rest, NEW j \in DOMAIN rest, rest[i] = rest[j]
        PROVE  i = j
    <3>1. i + 1 = j + 1
      BY <1>4, <1>11, <2>1 DEF Distinct
    <3> QED
      BY <1>11, <3>1
  <2> QED
    BY <2>1 DEF Distinct
<1>13. SummaryFirst(rest) /\ Before(rest, t + 1)
  BY <1>4, <1>11 DEF SummaryFirst, Before
<1>14. ASSUME NEW i \in DOMAIN rest
       PROVE  rest[i] \notin ToSet(new)
  <2>1. ASSUME NEW j \in DOMAIN new, new[j] = rest[i]
        PROVE  FALSE
    BY <1>1, <1>2, <1>6, <1>11, <2>1 DEF ToSet
  <2> QED
    BY <2>1 DEF ToSet
<1>15. Settled(new, t) /\ Settled(rest, t)
  BY <1>8, <1>9, <1>10, <1>12, <1>13 DEF Settled
<1>16. ToSave(rest, new, h, t)
  BY <1>4, <1>11, <1>14, <1>15 DEF ToSave
<1> QED
  BY <1>1, <1>4, <1>15, <1>16 DEF new, rest

(* Only leaving a task behind changes what is promised of the rows. *)
LEMMA CountMoves ==
  ASSUME TypeOK, [Next]_vars
  PROVE  \/ count' = count
         \/ count' = Turns(1) /\ count'.left = count.left /\ count'.turns = count.turns + 1
         \/ Leave /\ count'.left
         \/ Stop /\ count'.left = count.left /\ count'.turns = count.turns
<1>1. count \in [turns : Nat, stops : Nat, left : BOOLEAN]
  BY DEF TypeOK
<1>2. CASE Ask \/ Workflow("plan", "plan") \/ Workflow("test", "agent")
  BY <1>2, TurnsType DEF Ask, Workflow
<1>3. CASE Leave
  BY <1>1, <1>3 DEF Leave
<1>4. CASE Stop
  BY <1>1, <1>4 DEF Stop
<1>5. ASSUME NEW mode \in {"chat", "plan", "agent"}, SwitchMode(mode)
      PROVE  count' = count
  BY <1>5 DEF SwitchMode
<1>6. ASSUME NEW s \in Slot, NextRound(s)
      PROVE  count' = Turns(1) /\ count'.left = count.left /\ count'.turns = count.turns + 1
  BY <1>6, TurnsType DEF NextRound
<1>7. ASSUME NEW s \in Slot,
             \/ SkipCompaction(s) \/ StartCompaction(s) \/ Summarised(s) \/ NotSummarised(s)
             \/ Fail(s) \/ EndTurn(s) \/ EndTests(s)
      PROVE  count' = count
  BY <1>7 DEF SkipCompaction, StartCompaction, Summarised, NotSummarised, Fail, EndTurn, EndTests
<1>8. ASSUME NEW s \in Slot, NEW costs \in Retrieved, Request(s, costs)
      PROVE  count' = count
  BY <1>8 DEF Request
<1>9. ASSUME NEW s \in Slot, NEW ok \in BOOLEAN, Answer(s, ok)
      PROVE  count' = count
  BY <1>9 DEF Answer
<1>10. ASSUME NEW cost \in MapCosts, Reindex(cost)
       PROVE  count' = count
  BY <1>10 DEF Reindex
<1>11. CASE CompactNow \/ Clear \/ SaveRow \/ Saved \/ Interrupt \/ Resume \/ UNCHANGED vars
  BY <1>11 DEF CompactNow, Clear, SaveRow, Saved, Interrupt, Resume, vars
<1> QED
  BY <1>2, <1>3, <1>4, <1>5, <1>6, <1>7, <1>8, <1>9, <1>10, <1>11 DEF Next

LEMMA SavingLasts ==
  ASSUME SavingInv, db' = db, session'.history = session.history, session'.on = session.on,
         count'.turns = count.turns, count'.left = count.left,
         ~count.left => Owed(tasks'["front"], Messages, session.history, count.turns)
  PROVE  SavingInv'
<1>1. Messages' = Messages
  BY DEF Messages
<1> QED
  BY <1>1 DEF SavingInv, front

(* A task of the model's turn counts as before while it only moves on. *)
LEMMA OwedMoves ==
  ASSUME NEW task \in Running, NEW next \in Running, NEW rows, NEW h, NEW turns,
         Owed(task, rows, h, turns), task.pc \notin {"ended", "saving"},
         next.kind = task.kind, next.turn = task.turn, next.start = task.start,
         next.pc \in {"summarising", "request", "streaming"},
         task.kind = "compact" => next.pc = "summarising"
  PROVE  Owed(next, rows, h, turns)
<1>1. task.pc # "idle"
  BY DEF Running
<1> QED
  BY <1>1 DEF Owed, Unsaved

LEMMA OwedIdle ==
  ASSUME NEW rows, NEW h, NEW turns
  PROVE  Owed(Idle, rows, h, turns)
BY DEF Owed, Idle

LEMMA SaveRowAppends ==
  ASSUME TypeOK, NEW row, row.message \in Message, db' = Append(db, row)
  PROVE  Messages' = Append(Messages, row.message)
<1>1. db \in Seq(Row) /\ Len(db) \in Nat /\ DOMAIN db = 1 .. Len(db)
  BY DEF TypeOK
<1>2. /\ Messages \in Seq(Message) /\ Len(Messages) = Len(db)
      /\ \A i \in 1 .. Len(db) : Messages[i] = db[i].message
  BY <1>1, MessagesType
<1>3. /\ DOMAIN db' = 1 .. Len(db) + 1 /\ db'[Len(db) + 1] = row
      /\ \A i \in 1 .. Len(db) : db'[i] = db[i]
  BY <1>1
<1>4. Messages' = [i \in 1 .. Len(db) + 1 |-> db'[i].message]
  BY <1>3 DEF Messages
<1>5. Append(Messages, row.message) =
        [i \in 1 .. Len(db) + 1 |-> IF i = Len(db) + 1 THEN row.message ELSE Messages[i]]
  BY <1>1, <1>2
<1>6. \A i \in 1 .. Len(db) + 1 :
        db'[i].message = IF i = Len(db) + 1 THEN row.message ELSE Messages[i]
  <2>1. \A i \in 1 .. Len(db) + 1 : i = Len(db) + 1 \/ i \in 1 .. Len(db)
    BY <1>1
  <2> QED
    BY <1>2, <1>3, <2>1
<1> QED
  BY <1>4, <1>5, <1>6

LEMMA SavingKept ==
  ASSUME TypeOK, Alone, SavingInv, [Next]_vars
  PROVE  SavingInv'
<1> USE SlotFront
<1> SUFFICES ASSUME ~count'.left
             PROVE  SavingInv'
  BY DEF SavingInv
<1> DEFINE n == count.turns
           h == session.history
<1>0. /\ ~count.left /\ ~session.overlapped
      /\ count' = count \/ (count' = Turns(1) /\ count'.turns = n + 1) \/ (Stop /\ count'.turns = n)
  BY CountMoves DEF Alone, TypeOK
<1>1. /\ tasks \in [Slot -> {Idle} \cup Running] /\ session \in ChatSession /\ h \in Seq(Message)
      /\ count \in [turns : Nat, stops : Nat, left : BOOLEAN] /\ n \in Nat
      /\ Messages \in Seq(Message)
  BY MessagesType DEF TypeOK, ChatSession
<1>2. /\ Settled(Messages, n) /\ Owed(front, Messages, h, n)
      /\ session.on => Settled(h, n) /\ (h = <<>> => Messages = <<>>)
  BY <1>0 DEF SavingInv
<1>3. ASSUME NEW kind \in {"ask", "plan", "test"}, session.on, front = Idle, db' = db,
             session'.history = h, session'.on = session.on, count' = Turns(1),
             tasks'["front"] = NewTask(kind)
      PROVE  SavingInv'
  <2>1. /\ NewTask(kind).kind = kind /\ NewTask(kind).pc = "check" /\ NewTask(kind).turn = n + 1
        /\ NewTask(kind).start = Len(h)
    BY NewTaskType
  <2>2. Settled(Messages, n + 1) /\ Settled(h, n + 1) /\ Before(Messages, n + 1) /\ Before(h, n + 1)
    BY <1>1, <1>2, <1>3, SettledLater DEF Settled
  <2>3. Unsaved(NewTask(kind), Messages, h)
    <3>1. Len(h) = 0 => Messages = <<>>
      BY <1>1, <1>2, <1>3
    <3>2. \A i \in DOMAIN h : ~(i > Len(h))
      BY <1>1
    <3> QED
      BY <2>1, <2>2, <3>1, <3>2 DEF Unsaved
  <2>4. Owed(NewTask(kind), Messages, h, n + 1)
    BY <1>3, <2>1, <2>3 DEF Owed
  <2>5. count'.turns = n + 1 /\ Messages' = Messages
    BY <1>3, TurnsType DEF Messages
  <2> QED
    BY <1>2, <1>3, <2>2, <2>4, <2>5 DEF SavingInv, front
<1>4. CASE Ask
  <2>1. front = Idle
    BY <1>1, <1>4 DEF Ask, AtPrompt, front, Running
  <2> QED
    BY <1>1, <1>3, <1>4, <2>1 DEF Ask, AtPrompt
<1>5. ASSUME NEW kind \in {"plan", "test"}, NEW mode \in {"plan", "agent"}, Workflow(kind, mode)
      PROVE  SavingInv'
  <2>1. front = Idle
    BY <1>1, <1>5 DEF Workflow, AtPrompt, front, Running
  <2> QED
    BY <1>1, <1>3, <1>5, <2>1, InModeType DEF Workflow, AtPrompt
<1>6. CASE CompactNow
  <2> DEFINE next == [NewTask("compact") EXCEPT !.turn = 0]
  <2>1. next.kind = "compact" /\ next.pc = "check" /\ tasks'["front"] = next
    BY <1>1, <1>6, NewTaskType DEF CompactNow
  <2> HIDE DEF next
  <2>2. Owed(next, Messages, h, n)
    BY <2>1 DEF Owed
  <2> QED
    BY <1>6, <2>1, <2>2, SavingLasts DEF CompactNow
<1>7. ASSUME NEW mode \in {"chat", "plan", "agent"}, SwitchMode(mode)
      PROVE  SavingInv'
  BY <1>2, <1>7, InModeType, SavingLasts DEF SwitchMode, front
<1>8. CASE Clear
  <2>1. session' = [session EXCEPT !.history = <<>>, !.epoch = @ + 1] /\ db' = <<>> /\ UNCHANGED <<tasks, count>>
        /\ front.pc = "idle"
    BY <1>8 DEF Clear, AtPrompt
  <2>2. session'.history = <<>> /\ front = Idle
    BY <1>1, <2>1 DEF ChatSession, Running, front
  <2>3. Messages' = <<>>
    BY <2>1 DEF Messages
  <2> QED
    BY <2>1, <2>2, <2>3, NothingSettled, OwedIdle DEF SavingInv, front
<1>9. ASSUME NEW s \in Slot, tasks[s].pc # "idle"
      PROVE  s = "front" /\ front \in Running /\ session.on
  BY <1>0, <1>9, RunningTask, OnlyFront DEF front
<1>10. ASSUME NEW next \in Running, front \in Running, session.on, front.pc \notin {"ended", "saving"},
              next.kind = front.kind, next.turn = front.turn, next.start = front.start,
              next.pc \in {"summarising", "request", "streaming"},
              front.kind = "compact" => next.pc = "summarising",
              tasks' = [tasks EXCEPT !["front"] = next], UNCHANGED <<db, count>>,
              session'.history = h, session'.on = session.on
       PROVE  SavingInv'
  BY <1>1, <1>2, <1>10, OwedMoves, SavingLasts
<1>11. ASSUME front \in Running, tasks' = [tasks EXCEPT !["front"] = Idle], UNCHANGED <<db, session, count>>
       PROVE  SavingInv'
  BY <1>1, <1>11, OwedIdle, SavingLasts
<1>12. ASSUME NEW s \in Slot, SkipCompaction(s)
       PROVE  SavingInv'
  <2>1. s = "front" /\ front \in Running /\ session.on /\ front.pc = "check"
    BY <1>9, <1>12 DEF SkipCompaction, front
  <2> DEFINE next == [front EXCEPT !.pc = "request"]
  <2>2. /\ next \in Running /\ next.kind = front.kind /\ next.turn = front.turn /\ next.start = front.start
        /\ next.pc = "request"
    BY <2>1 DEF Running
  <2>3. tasks' = [tasks EXCEPT !["front"] = IF front.kind = "compact" THEN Idle ELSE next]
        /\ UNCHANGED <<db, session, count>>
    BY <1>1, <1>12, <2>1 DEF SkipCompaction, front
  <2> HIDE DEF next
  <2> QED
    BY <1>10, <1>11, <2>1, <2>2, <2>3
<1>13. ASSUME NEW s \in Slot, StartCompaction(s)
       PROVE  SavingInv'
  <2>1. s = "front" /\ front \in Running /\ session.on /\ front.pc = "check"
    BY <1>9, <1>13 DEF StartCompaction, front
  <2> DEFINE next == [front EXCEPT !.pc = "summarising", !.seen = h]
  <2>2. /\ next \in Running /\ next.kind = front.kind /\ next.turn = front.turn /\ next.start = front.start
        /\ next.pc = "summarising"
    BY <1>1, <2>1 DEF Running
  <2>3. tasks' = [tasks EXCEPT !["front"] = next] /\ UNCHANGED <<db, session, count>>
    BY <1>1, <1>13, <2>1 DEF StartCompaction, front
  <2> HIDE DEF next
  <2> QED
    BY <1>10, <2>1, <2>2, <2>3
<1>14. ASSUME NEW s \in Slot, NotSummarised(s)
       PROVE  SavingInv'
  <2>1. s = "front" /\ front \in Running /\ session.on /\ front.pc = "summarising"
    BY <1>9, <1>14 DEF NotSummarised, front
  <2>2. tasks' = [tasks EXCEPT !["front"] = AfterSummary(front)] /\ UNCHANGED <<db, session, count>>
    BY <1>1, <1>14, <2>1 DEF NotSummarised, front
  <2>3. CASE front.kind = "compact"
    BY <1>11, <2>1, <2>2, <2>3, AfterSummaryType
  <2>4. CASE front.kind # "compact"
    <3>1. /\ AfterSummary(front) \in Running
          /\ AfterSummary(front).kind = front.kind /\ AfterSummary(front).turn = front.turn
          /\ AfterSummary(front).start = front.start /\ AfterSummary(front).pc = "request"
      BY <2>1, <2>4, AfterSummaryType, IdleIsNotRunning
    <3> QED
      BY <1>10, <2>1, <2>2, <2>4, <3>1
  <2> QED
    BY <2>3, <2>4
<1>15. ASSUME NEW s \in Slot, Summarised(s)
       PROVE  SavingInv'
  <2>1. s = "front" /\ front \in Running /\ session.on /\ front.pc = "summarising"
    BY <1>9, <1>15 DEF Summarised, front
  <2>2. /\ session' = [session EXCEPT !.history = Compacted(front.seen), !.epoch = @ + 1]
        /\ tasks' = [tasks EXCEPT !["front"] = AfterSummary(front)] /\ UNCHANGED <<db, count>>
    BY <1>1, <1>15, <2>1 DEF Summarised, ReplaceHistory, front
  <2>3. front.seen = h /\ Cut(h) > 0
    <3>1. front.seen = h
      BY <1>0, <2>1 DEF Alone
    <3> QED
      BY <2>1, <3>1 DEF TypeOK, front
  <2> DEFINE new == Compacted(h)
  <2>4. session'.history = new /\ session'.on = session.on
    BY <1>1, <2>2, <2>3 DEF ChatSession
  <2>5. /\ Settled(new, n) /\ new # <<>>
        /\ \A u \in Nat : Before(h, u) => Before(new, u)
        /\ \A i \in DOMAIN new : i > 1 => \E j \in DOMAIN h : j >= i /\ new[i] = h[j]
    BY <1>1, <1>2, <2>1, <2>3, FoldedSettled
  <2>6. new \in Seq(Message) /\ DOMAIN new = 1 .. Len(new) /\ DOMAIN h = 1 .. Len(h)
        /\ Len(new) \in Nat /\ Len(h) \in Nat
    BY <1>1, <2>3, CompactedHistory
  <2> HIDE DEF new, h
  <2>7. Owed(AfterSummary(front), Messages, new, n)
    <3>1. CASE front.kind = "compact"
      BY <2>1, <3>1, AfterSummaryType, OwedIdle
    <3>2. CASE front.kind # "compact"
      <4> DEFINE next == AfterSummary(front)
      <4>1. next.kind = front.kind /\ next.turn = front.turn /\ next.start = front.start /\ next.pc = "request"
        BY <2>1, <3>2, AfterSummaryType
      <4>2. front.turn = n /\ Unsaved(front, Messages, h)
        BY <1>2, <2>1, <3>2 DEF Owed
      <4>3. /\ Before(Messages, front.turn) /\ Before(h, front.turn)
            /\ front.kind = "test" =>
                 /\ \A i \in DOMAIN h : i > front.start => h[i] \notin ToSet(Messages)
                 /\ front.start = 0 => Messages = <<>>
        BY <2>1, <4>2 DEF Unsaved
      <4>4. Before(new, front.turn)
        BY <1>1, <2>5, <4>2, <4>3
      <4>5. ASSUME front.kind = "test", NEW i \in DOMAIN new, i > front.start
            PROVE  new[i] \notin ToSet(Messages)
        <5>1. CASE front.start = 0
          BY <4>3, <4>5, <5>1 DEF ToSet
        <5>2. CASE front.start # 0
          <6>1. front.start \in Nat
            BY <2>1 DEF Running
          <6>2. i > 1
            BY <2>6, <4>5, <5>2, <6>1
          <6>3. PICK j \in DOMAIN h : j >= i /\ new[i] = h[j]
            BY <2>5, <6>2
          <6>4. j > front.start
            BY <2>6, <4>5, <6>1, <6>3
          <6> QED
            BY <4>3, <4>5, <6>3, <6>4
        <5> QED
          BY <5>1, <5>2
      <4> HIDE DEF next
      <4>6. Unsaved(next, Messages, new)
        BY <4>1, <4>3, <4>4, <4>5 DEF Unsaved
      <4> QED
        BY <3>2, <4>1, <4>2, <4>6 DEF Owed, next
    <3> QED
      BY <3>1, <3>2
  <2>8. tasks'["front"] = AfterSummary(front) /\ Messages' = Messages
    BY <1>1, <2>2 DEF Messages
  <2> QED
    BY <1>2, <2>2, <2>4, <2>5, <2>7, <2>8 DEF SavingInv, front
<1>16. ASSUME NEW s \in Slot, NEW costs \in Retrieved, Request(s, costs)
       PROVE  SavingInv'
  <2>1. s = "front" /\ front \in Running /\ session.on /\ front.pc = "request"
    BY <1>9, <1>16 DEF Request, front
  <2> DEFINE next == [front EXCEPT !.pc = "streaming"]
  <2>2. /\ next \in Running /\ next.kind = front.kind /\ next.turn = front.turn /\ next.start = front.start
        /\ next.pc = "streaming"
    BY <2>1 DEF Running
  <2>3. /\ tasks' = [tasks EXCEPT !["front"] = next] /\ UNCHANGED <<db, count>>
        /\ session' = [session EXCEPT !.map = MapOfEpoch]
    BY <1>1, <1>16, <2>1 DEF Request, front
  <2>4. session'.history = h /\ session'.on = session.on
    BY <1>1, <2>3 DEF ChatSession
  <2>5. front.kind # "compact"
    BY <1>2, <2>1 DEF Owed
  <2> HIDE DEF next
  <2> QED
    BY <1>10, <2>1, <2>2, <2>3, <2>4, <2>5
<1>17. ASSUME NEW s \in Slot, NEW ok \in BOOLEAN, Answer(s, ok)
       PROVE  SavingInv'
  <2>1. s = "front" /\ front \in Running /\ session.on /\ front.pc = "streaming"
    BY <1>9, <1>17 DEF Answer, front
  <2> DEFINE t == front.turn
             new == h \o <<Said("user", t), Said("assistant", t)>>
             next == [front EXCEPT !.pc = "ended", !.ok = ok]
  <2>2. front.kind # "compact" /\ t = n /\ Unsaved(front, Messages, h)
    BY <1>2, <2>1 DEF Owed
  <2>3. /\ Before(Messages, n) /\ Before(h, n)
        /\ front.kind = "test" =>
             /\ \A i \in DOMAIN h : i > front.start => h[i] \notin ToSet(Messages)
             /\ front.start = 0 => Messages = <<>>
    BY <2>1, <2>2 DEF Unsaved
  <2>4. session'.history = new /\ session'.on = session.on
    <3> DEFINE said == <<Said("user", t), Said("assistant", t)>>
    <3>1. session' = [session EXCEPT !.history = @ \o said]
      BY <1>17, <2>1 DEF Answer, front
    <3> HIDE DEF said
    <3>2. session'.history = h \o said /\ session'.on = session.on
      BY <1>1, <3>1 DEF ChatSession
    <3> QED
      BY <3>2 DEF said
  <2>5. tasks' = [tasks EXCEPT !["front"] = next] /\ UNCHANGED <<db, count>>
    BY <1>1, <1>17, <2>1 DEF Answer, front
  <2>6. /\ next.kind = front.kind /\ next.turn = n /\ next.start = front.start
        /\ next.pc = "ended" /\ next \in Running
    BY <2>1, <2>2 DEF Running
  <2>7. /\ Settled(new, n) /\ new # <<>>
        /\ \A i \in DOMAIN new :
             \/ i \in DOMAIN h /\ new[i] = h[i]
             \/ new[i] \in {Said("user", n), Said("assistant", n)}
    BY <1>1, <1>2, <2>1, <2>2, <2>3, AnsweredSettled
  <2>8. Said("user", n) \notin ToSet(Messages) /\ Said("assistant", n) \notin ToSet(Messages)
    <3>1. ASSUME NEW i \in DOMAIN Messages
          PROVE  Messages[i] # Said("user", n) /\ Messages[i] # Said("assistant", n)
      <4>1. Messages[i].role # "summary" => Messages[i].turn # n
        <5>1. Messages[i].role # "summary" => Messages[i].turn < n
          BY <2>3 DEF Before
        <5> QED
          BY <1>1, <5>1
      <4> QED
        BY <1>1, <4>1, SaidType
    <3> QED
      BY <3>1 DEF ToSet
  <2> HIDE DEF new, next, h
  <2>9. ASSUME front.kind = "test", NEW i \in DOMAIN new, i > front.start
        PROVE  new[i] \notin ToSet(Messages)
    BY <2>3, <2>7, <2>8, <2>9
  <2>10. Unsaved(next, Messages, new)
    BY <2>3, <2>6, <2>7, <2>9 DEF Unsaved
  <2>11. Owed(next, Messages, new, n)
    BY <2>2, <2>6, <2>10 DEF Owed
  <2>12. tasks'["front"] = next /\ Messages' = Messages
    BY <1>1, <2>5 DEF Messages
  <2> QED
    BY <1>2, <2>4, <2>5, <2>7, <2>11, <2>12 DEF SavingInv, front
<1>18. ASSUME NEW s \in Slot, Fail(s)
       PROVE  SavingInv'
  <2>1. s = "front" /\ front \in Running /\ session.on /\ front.pc \in {"request", "streaming"}
    BY <1>9, <1>18 DEF Fail, front
  <2> DEFINE next == [front EXCEPT !.pc = "ended", !.ok = FALSE]
  <2>2. /\ next \in Running /\ next.kind = front.kind /\ next.turn = front.turn /\ next.start = front.start
        /\ next.pc = "ended" /\ ~next.ok
    BY <2>1 DEF Running
  <2>3. tasks' = [tasks EXCEPT !["front"] = next] /\ UNCHANGED <<db, session, count>>
    BY <1>1, <1>18, <2>1 DEF Fail, front
  <2> HIDE DEF next, h
  <2>4. Owed(next, Messages, h, n)
    <3>1. front.turn = n /\ Unsaved(front, Messages, h) /\ front.kind # "compact"
      BY <1>2, <2>1 DEF Owed
    <3> QED
      BY <2>1, <2>2, <3>1 DEF Owed, Unsaved
  <2>5. tasks'["front"] = next
    BY <1>1, <2>3
  <2> QED
    BY <2>3, <2>4, <2>5, SavingLasts DEF h
<1>19. ASSUME NEW rows \in Seq(Message), front \in Running,
              tasks' = [tasks EXCEPT !["front"] = Saving(front, rows)], UNCHANGED <<db, session, count>>,
              ToSave(rows, Messages, h, n), front.kind # "compact"
       PROVE  SavingInv'
  <2>1. /\ Saving(front, rows).pc = "saving" /\ Saving(front, rows).save = rows
        /\ Saving(front, rows).kind = front.kind
    BY <1>19, SavingType
  <2>2. Owed(Saving(front, rows), Messages, h, n)
    BY <1>19, <2>1 DEF Owed
  <2>3. tasks'["front"] = Saving(front, rows)
    BY <1>1, <1>19
  <2> QED
    BY <1>19, <2>2, <2>3, SavingLasts
<1>20. ASSUME NEW s \in Slot, EndTurn(s)
       PROVE  SavingInv'
  <2>1. s = "front" /\ front \in Running /\ session.on /\ front.pc = "ended" /\ front.kind \in {"ask", "plan"}
    BY <1>9, <1>20 DEF EndTurn, front
  <2> DEFINE said == <<Said("user", front.turn), Said("assistant", front.turn)>>
  <2>2. /\ tasks' = [tasks EXCEPT !["front"] =
                        IF front.kind = "ask" /\ front.ok THEN Saving(front, said) ELSE Idle]
        /\ UNCHANGED <<db, session, count>>
    BY <1>1, <1>20, <2>1 DEF EndTurn, front
  <2>3. front.turn = n /\ Before(Messages, n) /\ (front.ok => h # <<>>)
    BY <1>2, <2>1 DEF Owed, Unsaved
  <2>4. said \in Seq(Message)
    BY <1>1, <2>3, AnswerPair
  <2>5. front.ok => ToSave(said, Messages, h, n)
    BY <1>1, <2>3, PairOwed
  <2> HIDE DEF said
  <2> QED
    BY <1>11, <1>19, <2>1, <2>2, <2>4, <2>5
<1>21. ASSUME front \in Running, session.on, front.kind = "test", front.pc # "saving"
       PROVE  Since(front) \in Seq(Message) /\ ToSave(Since(front), Messages, h, n)
  <2>1. Unsaved(front, Messages, h)
    BY <1>2, <1>21 DEF Owed, Running
  <2> QED
    BY <1>2, <1>21, <2>1, SinceOwed, SinceType
<1>22. ASSUME NEW s \in Slot, EndTests(s)
       PROVE  SavingInv'
  <2>1. s = "front" /\ front \in Running /\ session.on /\ front.pc = "ended" /\ front.kind = "test"
    BY <1>9, <1>22 DEF EndTests, front
  <2>2. tasks' = [tasks EXCEPT !["front"] = Saving(front, Since(front))] /\ UNCHANGED <<db, session, count>>
    BY <1>1, <1>22, <2>1 DEF EndTests, front
  <2> QED
    BY <1>19, <1>21, <2>1, <2>2
<1>23. ASSUME NEW s \in Slot, NextRound(s)
       PROVE  SavingInv'
  <2>1. s = "front" /\ front \in Running /\ session.on /\ front.pc = "ended" /\ front.kind = "test"
    BY <1>9, <1>23 DEF NextRound, front
  <2> DEFINE next == [front EXCEPT !.pc = "check", !.round = front.round + 1, !.turn = n + 1, !.ok = FALSE]
  <2>2. /\ next.kind = "test" /\ next.turn = n + 1 /\ next.start = front.start /\ next.pc = "check"
    BY <2>1 DEF Running
  <2>3. tasks' = [tasks EXCEPT !["front"] = next] /\ UNCHANGED <<db, session>> /\ count' = Turns(1)
    BY <1>1, <1>23, <2>1 DEF NextRound, front
  <2>4. Settled(Messages, n + 1) /\ Settled(h, n + 1) /\ Before(Messages, n + 1) /\ Before(h, n + 1)
    BY <1>1, <1>2, <2>1, SettledLater DEF Settled
  <2> HIDE DEF next, h
  <2>5. Owed(next, Messages, h, n + 1)
    <3>1. Unsaved(front, Messages, h)
      BY <1>2, <2>1 DEF Owed
    <3>2. Unsaved(next, Messages, h)
      BY <2>1, <2>2, <2>4, <3>1 DEF Unsaved
    <3> QED
      BY <2>2, <3>2 DEF Owed
  <2>6. tasks'["front"] = next /\ count'.turns = n + 1 /\ Messages' = Messages
    BY <1>1, <2>3, TurnsType DEF Messages
  <2> QED
    BY <1>2, <2>1, <2>3, <2>4, <2>5, <2>6 DEF SavingInv, front, h
<1>24. CASE SaveRow
  <2>1. front \in Running /\ session.on /\ front.pc = "saving" /\ front.save # <<>>
    BY <1>9, <1>24 DEF SaveRow, Blocked, front
  <2> DEFINE next == [front EXCEPT !.save = Tail(front.save)]
             row == [message |-> Head(front.save), epoch |-> session.epoch]
  <2>2. db' = Append(db, row) /\ tasks' = [tasks EXCEPT !["front"] = next] /\ UNCHANGED <<session, count>>
    BY <1>1, <1>24, <2>1 DEF SaveRow, front
  <2>3. front.save \in Seq(Message) /\ ToSave(front.save, Messages, h, n)
    BY <1>2, <2>1 DEF Owed, Running
  <2>4. /\ Settled(Append(Messages, Head(front.save)), n) /\ h # <<>>
        /\ ToSave(Tail(front.save), Append(Messages, Head(front.save)), h, n)
    BY <1>1, <1>2, <2>1, <2>3, RowSettled
  <2>5. Messages' = Append(Messages, Head(front.save))
    <3>1. row.message = Head(front.save)
      OBVIOUS
    <3>2. Head(front.save) \in Message
      BY <2>1, <2>3
    <3> HIDE DEF row
    <3> QED
      BY <2>2, <3>1, <3>2, SaveRowAppends
  <2>6. next.pc = "saving" /\ next.kind = front.kind /\ next.save = Tail(front.save)
    BY <2>1 DEF Running
  <2>7. front.kind # "compact"
    BY <1>2, <2>1 DEF Owed
  <2> HIDE DEF next
  <2>8. Owed(next, Append(Messages, Head(front.save)), h, n)
    BY <2>1, <2>4, <2>6, <2>7 DEF Owed
  <2>9. tasks'["front"] = next
    BY <1>1, <2>2
  <2> QED
    BY <1>2, <2>1, <2>2, <2>4, <2>5, <2>8, <2>9 DEF SavingInv, front
<1>25. CASE Saved
  <2>1. front \in Running /\ tasks' = [tasks EXCEPT !["front"] = Idle] /\ UNCHANGED <<db, session, count>>
    BY <1>9, <1>25 DEF Saved, Blocked, front
  <2> QED
    BY <1>11, <2>1
<1>26. CASE Interrupt
  <2>1. front \in Running /\ session.on /\ front.pc # "saving" /\ front.kind \in {"ask", "test"}
    <3>1. front # Idle
      BY <1>26, IdleIsNotRunning DEF Interrupt, Cancellable
    <3> QED
      BY <1>1, <1>26, <3>1 DEF Interrupt, Cancellable, Blocked, front
  <2>2. tasks' = [tasks EXCEPT !["front"] = IF front.kind = "test" THEN Saving(front, Since(front)) ELSE Idle]
        /\ UNCHANGED <<db, session, count>>
    BY <1>26 DEF Interrupt, AfterCancel
  <2> QED
    BY <1>11, <1>19, <1>21, <2>1, <2>2
<1>27. CASE Leave
  BY <1>1, <1>27 DEF Leave
<1>28. CASE Stop
  <2>1. session' = Off /\ tasks' = NoTasks /\ db' = db /\ count'.turns = n
    BY <1>1, <1>28 DEF Stop
  <2>2. ~session'.on /\ tasks'["front"] = Idle /\ Messages' = Messages
    BY <2>1 DEF Off, Fresh, NoTasks, Messages
  <2> QED
    BY <1>2, <2>1, <2>2, OwedIdle DEF SavingInv, front
<1>29. CASE Resume
  <2>1. session' = [Fresh EXCEPT !.history = Messages, !.epoch = CurrentEpoch] /\ ~session.on
        /\ UNCHANGED <<db, tasks, count>>
    BY <1>29 DEF Resume
  <2>2. session'.history = Messages /\ Messages' = Messages
    BY <2>1 DEF Fresh, Messages
  <2>3. tasks'["front"] = Idle
    BY <2>1 DEF TypeOK, NoTasks
  <2> QED
    BY <1>2, <2>1, <2>2, <2>3, OwedIdle DEF SavingInv, front
<1>30. ASSUME NEW cost \in MapCosts, Reindex(cost)
       PROVE  SavingInv'
  BY <1>2, <1>30, SavingLasts DEF Reindex, front
<1>31. CASE UNCHANGED vars
  BY <1>2, <1>31, SavingLasts DEF vars, front
<1> QED
  BY <1>4, <1>5, <1>6, <1>7, <1>8, <1>12, <1>13, <1>14, <1>15, <1>16, <1>17, <1>18, <1>20, <1>22, <1>23,
     <1>24, <1>25, <1>26, <1>27, <1>28, <1>29, <1>30, <1>31 DEF Next

-----------------------------------------------------------------------------
(* The theorems. *)

LEMMA InitSession == Init => SessionInv
<1> SUFFICES ASSUME Init
             PROVE  SessionInv
  OBVIOUS
<1>1. /\ db = <<>> /\ session = Fresh /\ tasks = NoTasks /\ index \in MapCosts /\ sent = NoRequest
      /\ told = {} /\ count = [turns |-> 0, stops |-> 0, left |-> FALSE]
  BY DEF Init
<1>2. /\ session.on /\ session.history = <<>> /\ session.epoch = 0 /\ ~session.overlapped
      /\ session \in ChatSession
  <2>1. <<>> \in Seq(Message)
    OBVIOUS
  <2> QED
    BY <1>1, <2>1 DEF Fresh, ChatSession
<1>3. tasks["front"] = Idle /\ tasks["behind"] = Idle /\ \A s \in Slot : tasks[s] = Idle
  BY <1>1, SlotFront DEF NoTasks
<1>4. TypeOK
  <2>1. db \in Seq(Row)
    BY <1>1
  <2>2. tasks \in [Slot -> {Idle} \cup Running]
    BY <1>1 DEF NoTasks
  <2>3. \A s \in Slot : tasks[s].pc # "summarising"
    BY <1>3, IdleIsNotRunning
  <2>4. count \in [turns : Nat, stops : Nat, left : BOOLEAN]
    BY <1>1
  <2> QED
    BY <1>1, <1>2, <2>1, <2>2, <2>3, <2>4 DEF TypeOK
<1>5. EpochsRise
  BY <1>1 DEF EpochsRise
<1>6. RequestKept
  BY <1>1 DEF RequestKept
<1>7. Alone
  BY <1>1, <1>2, <1>3, IdleIsNotRunning DEF Alone, front
<1>8. SavingInv
  <2>1. Messages = <<>>
    BY <1>1 DEF Messages
  <2> QED
    BY <1>2, <1>3, <2>1, NothingSettled, OwedIdle DEF SavingInv, front
<1> QED
  BY <1>4, <1>5, <1>6, <1>7, <1>8 DEF SessionInv

LEMMA NextSession == SessionInv /\ [Next]_vars => SessionInv'
BY TypeKept, EpochsKept, RequestKeptBy, AloneKept, SavingKept DEF SessionInv

(* The inductive invariant: types, epochs that only rise, the last request  *)
(* kept as its epoch's history grows, a summary made from the whole history *)
(* while no task runs behind the prompt, and rows saved once until one did. *)
THEOREM SessionTheorem == Spec => []SessionInv
BY InitSession, NextSession, PTL DEF Spec

(* As long as no cancelled task goes on behind the prompt, every message of *)
(* the session is in its history, or in a summary that is.                  *)
THEOREM ForgottenTheorem == Spec => []NothingForgotten
<1>1. SessionInv => NothingForgotten
  BY DEF SessionInv, Alone, NothingForgotten
<1> QED
  BY <1>1, SessionTheorem, PTL

LEMMA SentMoves ==
  ASSUME [Next]_vars
  PROVE  \/ sent' = sent \/ Stop
         \/ \E s \in Slot : \E costs \in Retrieved : Request(s, costs)
BY DEF Next, Ask, Workflow, CompactNow, SwitchMode, Clear, SkipCompaction, StartCompaction, Summarised,
       NotSummarised, Answer, Fail, EndTurn, NextRound, EndTests, SaveRow, Saved, Interrupt, Leave,
       Resume, Reindex, vars

LEMMA RowsMove ==
  ASSUME [Next]_vars
  PROVE  db' = db \/ Clear \/ SaveRow
BY DEF Next, Ask, Workflow, CompactNow, SwitchMode, SkipCompaction, StartCompaction, Summarised,
       NotSummarised, Request, Answer, Fail, EndTurn, NextRound, EndTests, Saved, Interrupt, Leave,
       Stop, Resume, Reindex, vars

(* Within an epoch a request begins as the one before it did, whatever was  *)
(* interrupted or left behind, and whatever another process indexes.        *)
THEOREM PrefixTheorem == Spec => PrefixStable
<1>1. ASSUME SessionInv, [Next]_vars, sent' # sent, sent'.epoch = sent.epoch
      PROVE  /\ sent'.mode = sent.mode /\ sent'.map = sent.map
             /\ sent.whole /\ sent'.whole => IsPrefix(sent.history, sent'.history)
  <2>1. TypeOK /\ RequestKept
    BY <1>1 DEF SessionInv
  <2>2. session.epoch \in Nat /\ NoRequest.epoch \notin Nat
    BY <2>1 DEF TypeOK, ChatSession, NoRequest
  <2>3. sent # NoRequest => sent.epoch \in Nat
    BY <2>1 DEF RequestKept
  <2>4. ~Stop
    BY <1>1, <2>2, <2>3 DEF Stop
  <2>5. PICK s \in Slot, costs \in Retrieved : Request(s, costs)
    BY <1>1, <2>4, SentMoves
  <2>6. /\ sent'.epoch = session.epoch /\ sent'.mode = session.mode /\ sent'.map = MapOfEpoch.cost
        /\ sent'.history = Fit(session.history) /\ sent'.whole = (Fit(session.history) = session.history)
    BY <2>5 DEF Request
  <2>7. sent # NoRequest
    BY <1>1, <2>2, <2>6
  <2>8. /\ sent.mode = session.mode /\ session.map = [epoch |-> sent.epoch, cost |-> sent.map]
        /\ sent.whole => IsPrefix(sent.history, session.history)
    BY <1>1, <2>1, <2>6, <2>7 DEF RequestKept
  <2>9. session.map.epoch = session.epoch /\ session.map.cost = sent.map
    <3>1. session.map = [epoch |-> sent.epoch, cost |-> sent.map] /\ sent.epoch = session.epoch
      BY <1>1, <2>6, <2>8
    <3> QED
      BY <3>1
  <2>10. MapOfEpoch = session.map
    BY <2>9 DEF MapOfEpoch
  <2>11. sent'.whole => sent'.history = session.history
    BY <2>6
  <2> QED
    BY <2>6, <2>8, <2>9, <2>10, <2>11
<1>2. SessionInv /\ [Next]_vars =>
        [sent' # sent /\ sent'.epoch = sent.epoch =>
           /\ sent'.mode = sent.mode /\ sent'.map = sent.map
           /\ sent.whole /\ sent'.whole => IsPrefix(sent.history, sent'.history)]_vars
  BY <1>1
<1> QED
  BY <1>2, SessionTheorem, PTL DEF Spec, PrefixStable

LEMMA LastAppended ==
  ASSUME NEW rows \in Seq(Message), NEW m \in Message
  PROVE  /\ Append(rows, m) # <<>> /\ Front(Append(rows, m)) = rows /\ Last(Append(rows, m)) = m
<1> DEFINE new == Append(rows, m)
<1>1. /\ new \in Seq(Message) /\ Len(new) = Len(rows) + 1 /\ Len(rows) \in Nat
      /\ \A i \in 1 .. Len(rows) : new[i] = rows[i]
      /\ new[Len(rows) + 1] = m
  OBVIOUS
<1> HIDE DEF new
<1>2. new # <<>> /\ Last(new) = m
  BY <1>1 DEF Last
<1>3. Front(new) = rows
  <2>1. Len(new) - 1 = Len(rows)
    BY <1>1
  <2>2. /\ SubSeq(new, 1, Len(rows)) \in Seq(Message) /\ Len(SubSeq(new, 1, Len(rows))) = Len(rows)
        /\ \A i \in 1 .. Len(rows) : SubSeq(new, 1, Len(rows))[i] = rows[i]
    BY <1>1
  <2>3. SubSeq(new, 1, Len(rows)) = rows
    BY <2>2, SeqEqual
  <2> QED
    BY <2>1, <2>3 DEF Front
<1> QED
  BY <1>2, <1>3 DEF new

(* The rows implement Transcript: they grow by one message no row has, and  *)
(* go all together, until a task is left behind the prompt.                 *)
THEOREM SavedTheorem == Spec => SavedAsTranscript
<1> DEFINE rows == IF count.left THEN <<>> ELSE Messages
<1>1. Init => Rows!Init
  BY DEF Init, Rows!Init, Messages
<1>2. ASSUME SessionInv, [Next]_vars
      PROVE  Rows!Next \/ rows' = rows
  <2>1. TypeOK /\ SavingInv /\ Messages \in Seq(Message)
    BY <1>2, MessagesType DEF SessionInv
  <2>2. CASE count'.left
    BY <2>2, <1>2, <2>1 DEF Rows!Next, Rows!clear_messages
  <2>3. CASE ~count'.left
    <3>1. ~count.left
      BY <1>2, <2>1, <2>3, CountMoves DEF TypeOK
    <3>2. CASE db' = db
      BY <2>3, <3>1, <3>2 DEF Messages
    <3>3. CASE Clear
      <4>1. Messages' = <<>>
        BY <3>3 DEF Clear, Messages
      <4> QED
        BY <2>3, <4>1 DEF Rows!Next, Rows!clear_messages
    <3>4. CASE SaveRow
      <4>1. front \in Running /\ front.pc = "saving" /\ front.save # <<>>
        <5>1. tasks["front"].pc # "idle"
          BY <3>4 DEF SaveRow, Blocked, front
        <5> QED
          BY <2>1, <3>4, <5>1, SlotFront, RunningTask DEF SaveRow, Blocked, front
      <4>2. front.save \in Seq(Message)
        BY <4>1 DEF Running
      <4> DEFINE m == Head(front.save)
                 row == [message |-> m, epoch |-> session.epoch]
      <4>3. m \in Message /\ m = front.save[1] /\ 1 \in DOMAIN front.save
        BY <4>1, <4>2
      <4>4. m \notin ToSet(Messages)
        BY <2>1, <3>1, <4>1, <4>3 DEF SavingInv, Owed, ToSave
      <4>5. row.message = m /\ db' = Append(db, row)
        BY <3>4 DEF SaveRow
      <4> HIDE DEF m, row
      <4>6. Messages' = Append(Messages, m)
        BY <2>1, <4>3, <4>5, SaveRowAppends
      <4>7. rows' = Append(Messages, m) /\ rows = Messages
        BY <2>3, <3>1, <4>6
      <4>8. /\ Append(Messages, m) # <<>> /\ Rows!Front(Append(Messages, m)) = Messages
            /\ Rows!Last(Append(Messages, m)) \notin Rows!ToSet(Messages)
        BY <2>1, <4>3, <4>4, LastAppended DEF Rows!Front, Front, Rows!Last, Last, Rows!ToSet, ToSet
      <4> HIDE DEF rows
      <4>9. rows' # <<>> /\ Rows!Front(rows') = rows /\ Rows!Last(rows') \notin Rows!ToSet(rows)
        BY <4>7, <4>8
      <4> QED
        BY <4>9 DEF Rows!Next, Rows!append_message, rows
    <3> QED
      BY <1>2, <3>2, <3>3, <3>4, RowsMove
  <2> QED
    BY <2>2, <2>3
<1>3. SessionInv /\ [Next]_vars => [Rows!Next]_rows
  BY <1>2
<1> QED
  BY <1>1, <1>3, SessionTheorem, PTL DEF Spec, SavedAsTranscript, Rows!Spec

-----------------------------------------------------------------------------
(* A request fits the window. *)

(* A property that passes from each number up to n to the next holds up to n. *)
LEMMA UpTo ==
  ASSUME NEW n \in Nat, NEW T, 0 \in T, \A k \in 0 .. n - 1 : k \in T => k + 1 \in T
  PROVE  \A k \in 0 .. n : k \in T
<1> SUFFICES ASSUME \E k \in 0 .. n : k \notin T
             PROVE  FALSE
  OBVIOUS
<1> DEFINE U == {k \in 0 .. n : k \notin T}
<1>0. U \in SUBSET Nat /\ U # {}
  OBVIOUS
<1>1. PICK u \in U : \A v \in U : u <= v
  BY <1>0, LeastNatural
<1>2. u # 0 /\ u - 1 \in 0 .. n - 1 /\ u - 1 \in T
  BY <1>1
<1> QED
  BY <1>1, <1>2

(* What an inductive definition over the subsets of 1..n defines. *)
Folds(n, b, step, g) ==
  /\ g[{}] = b
  /\ \A S \in SUBSET (1 .. n) : S # {} => g[S] = step[<<g[S \ {Max(S)}], Max(S)>>]

LEMMA FoldExists ==
  ASSUME NEW n \in Nat, NEW V, NEW b \in V, NEW step \in [V \X (1 .. n) -> V]
  PROVE  \E g \in [SUBSET (1 .. n) -> V] : Folds(n, b, step, g)
<1> DEFINE T == {m \in 0 .. n : \E g \in [SUBSET (1 .. m) -> V] : Folds(m, b, step, g)}
<1>1. 0 \in T
  <2> DEFINE g == [S \in SUBSET (1 .. 0) |-> b]
  <2>1. 1 .. 0 = {}
    OBVIOUS
  <2>2. g \in [SUBSET (1 .. 0) -> V] /\ Folds(0, b, step, g)
    BY <2>1 DEF Folds
  <2> QED
    BY <2>2
<1>2. ASSUME NEW m \in 0 .. n - 1, m \in T
      PROVE  m + 1 \in T
  <2>0. m \in Nat /\ m + 1 \in Nat
    OBVIOUS
  <2>1. PICK g \in [SUBSET (1 .. m) -> V] : Folds(m, b, step, g)
    BY <1>2
  <2> DEFINE top == m + 1
  <2> DEFINE h == [S \in SUBSET (1 .. m + 1) |->
                     IF top \in S THEN step[<<g[S \ {top}], top>>] ELSE g[S]]
  <2>2. \A S \in SUBSET (1 .. m + 1) : S \ {top} \in SUBSET (1 .. m)
    OBVIOUS
  <2>3. h \in [SUBSET (1 .. m + 1) -> V]
    <3>1. ASSUME NEW S \in SUBSET (1 .. m + 1)
          PROVE  (IF top \in S THEN step[<<g[S \ {top}], top>>] ELSE g[S]) \in V
      <4>1. g[S \ {top}] \in V /\ top \in 1 .. n
        BY <2>2
      <4>2. top \notin S => S \ {top} = S
        OBVIOUS
      <4> QED
        BY <4>1, <4>2
    <3> QED
      BY <3>1
  <2>4. \A S \in SUBSET (1 .. m) : h[S] = g[S]
    OBVIOUS
  <2>5. ASSUME NEW S \in SUBSET (1 .. m + 1), S # {}
        PROVE  h[S] = step[<<h[S \ {Max(S)}], Max(S)>>]
    <3>1. Max(S) \in S /\ \A y \in S : y <= Max(S)
      <4>1. m + 1 \in Nat /\ S \in SUBSET (1 .. (m + 1)) /\ S # {}
        BY <2>0, <2>5
      <4> HIDE DEF T, h
      <4> QED
        BY ONLY <4>1, LargestNatural
    <3>2. CASE top \in S
      <4>1. Max(S) = top
        <5>1. Max(S) \in 1 .. m + 1 /\ m + 1 <= Max(S)
          BY <3>1, <3>2
        <5> HIDE DEF T, h
        <5> QED
          BY <5>1, <2>0
      <4>2. h[S \ {top}] = g[S \ {top}]
        BY <2>2, <2>4
      <4> QED
        BY <3>2, <4>1, <4>2
    <3>3. CASE top \notin S
      <4>1. S \in SUBSET (1 .. m) /\ S \ {Max(S)} \in SUBSET (1 .. m)
        <5>1. \A y \in 1 .. m + 1 : y # m + 1 => y \in 1 .. m
          BY <2>0
        <5> QED
          BY <3>3, <5>1
      <4>2. h[S] = g[S] /\ h[S \ {Max(S)}] = g[S \ {Max(S)}]
        BY <2>4, <4>1
      <4> QED
        BY <2>1, <2>5, <4>1, <4>2 DEF Folds
    <3> QED
      BY <3>2, <3>3
  <2>6. h[{}] = b
    BY <2>1, <2>4 DEF Folds
  <2> HIDE DEF h
  <2>7. Folds(m + 1, b, step, h)
    BY <2>5, <2>6 DEF Folds
  <2> QED
    BY <2>3, <2>7
<1> HIDE DEF T
<1>3. n \in T
  BY <1>1, <1>2, UpTo
<1> QED
  BY <1>3 DEF T

(* The chunks that are taken fit what retrieval may use. *)
LEMMA BlockFits ==
  ASSUME NEW costs \in Seq(Nat), NEW limit \in Nat, FrameCost <= limit
  PROVE  Block(costs, limit) \in 0 .. limit
<1> DEFINE n == Len(costs)
<1> DEFINE V == 0 .. limit
<1> DEFINE taken(spent, cost) == IF spent + cost > limit THEN spent ELSE spent + cost
<1> DEFINE step == [x \in V \X (1 .. n) |-> taken(x[1], costs[x[2]])]
<1> DEFINE rule(g) == [S \in SUBSET (1 .. n) |->
                         IF S = {} THEN FrameCost ELSE taken(g[S \ {Max(S)}], costs[Max(S)])]
<1>1. n \in Nat /\ DOMAIN costs = 1 .. n /\ \A i \in 1 .. n : costs[i] \in Nat
  OBVIOUS
<1>2. FrameCost \in V
  BY ContextAssumption
<1>3. step \in [V \X (1 .. n) -> V]
  BY <1>1
<1>4. PICK g \in [SUBSET (1 .. n) -> V] : Folds(n, FrameCost, step, g)
  <2> HIDE DEF V, step, n
  <2> QED
    BY <1>1, <1>2, <1>3, FoldExists
<1>5. g = rule(g)
  <2>1. ASSUME NEW S \in SUBSET (1 .. n)
        PROVE  g[S] = IF S = {} THEN FrameCost ELSE taken(g[S \ {Max(S)}], costs[Max(S)])
    <3>1. CASE S = {}
      BY <1>4, <3>1 DEF Folds
    <3>2. CASE S # {}
      <4>1. Max(S) \in 1 .. n
        BY <3>2, <1>1, LargestNatural
      <4>2. g[S \ {Max(S)}] \in V
        OBVIOUS
      <4>3. g[S] = step[<<g[S \ {Max(S)}], Max(S)>>]
        BY <1>4, <3>2 DEF Folds
      <4> QED
        BY <3>2, <4>1, <4>2, <4>3
    <3> QED
      BY <3>1, <3>2
  <2> QED
    BY <2>1
<1> DEFINE iter == CHOOSE g0 : g0 = rule(g0)
<1>6. iter = rule(iter)
  BY <1>5
<1>7. costs # <<>> => Block(costs, limit) = iter[1 .. n]
  BY <1>1 DEF Block, FoldLeft, MapThenFoldSet
<1>8. ASSUME NEW k \in 0 .. n - 1, iter[1 .. k] \in V
      PROVE  iter[1 .. k + 1] \in V
  <2>0. n \in Nat /\ k \in 0 .. n - 1 /\ k \in Nat /\ k + 1 \in Nat
    BY <1>1
  <2>1. 1 .. k + 1 \in SUBSET (1 .. n) /\ 1 .. k + 1 # {} /\ k + 1 \in 1 .. n
    <3> HIDE DEF n
    <3>1. k + 1 \in 1 .. n /\ k + 1 \in 1 .. k + 1
      <4>1. k + 1 \in 1 .. k + 1
        BY ONLY <2>0
      <4> QED
        BY <2>0, <4>1
    <3>2. \A x \in 1 .. k + 1 : x \in 1 .. n
      BY ONLY <2>0
    <3> QED
      BY <3>1, <3>2
  <2>2. Max(1 .. k + 1) = k + 1
    <3>1. k + 1 \in Nat /\ 1 .. k + 1 \in SUBSET (1 .. k + 1) /\ 1 .. k + 1 # {} /\ k + 1 \in 1 .. k + 1
      <4>1. k + 1 \in 1 .. k + 1
        BY ONLY <2>0
      <4> QED
        BY <2>0, <4>1
    <3>2. Max(1 .. k + 1) \in 1 .. k + 1 /\ \A y \in 1 .. k + 1 : y <= Max(1 .. k + 1)
      BY ONLY <3>1, LargestNatural
    <3> QED
      BY ONLY <3>1, <3>2
  <2>3. (1 .. k + 1) \ {k + 1} = 1 .. k
    BY <1>1
  <2>4. iter[1 .. k + 1] = taken(iter[1 .. k], costs[k + 1])
    BY <1>6, <2>1, <2>2, <2>3
  <2> QED
    BY <1>1, <1>8, <2>1, <2>4
<1>9. iter[1 .. 0] \in V
  <2>1. 1 .. 0 = {} /\ {} \in SUBSET (1 .. n)
    OBVIOUS
  <2>2. iter[{}] = FrameCost
    BY <1>6, <2>1
  <2> QED
    BY <2>1, <2>2, <1>2
<1> HIDE DEF iter, taken, rule
<1>10. iter[1 .. n] \in V
  <2> DEFINE T == {k \in 0 .. n : iter[1 .. k] \in V}
  <2>1. 0 \in T /\ \A k \in 0 .. n - 1 : k \in T => k + 1 \in T
    BY <1>1, <1>8, <1>9
  <2>2. n \in T
    <3> HIDE DEF T, n
    <3>1. \A k \in 0 .. n : k \in T
      BY ONLY <1>1, <2>1, UpTo
    <3> QED
      BY <1>1, <3>1
  <2> QED
    BY <2>2
<1>11. costs = <<>> => Block(costs, limit) = 0
  BY DEF Block
<1> QED
  BY <1>7, <1>10, <1>11

(* The history a request carries fits its segment. *)
LEMMA FitBounds ==
  ASSUME NEW h, NEW D, h \in Seq(D)
  PROVE  Len(Fit(h)) \in Nat /\ Len(Fit(h)) * MessageCost <= Limits.history
<1> DEFINE room == Limits.history \div MessageCost
<1>1. MessageCost \in Nat /\ MessageCost > 0 /\ Limits.history \in Nat
  BY ContextAssumption DEF Segment
<1>2. room \in Nat /\ room * MessageCost <= Limits.history
  BY <1>1, Z3
<1>3. Len(Fit(h)) \in Nat /\ Len(Fit(h)) <= room
  BY <1>2 DEF Fit
<1>4. Len(Fit(h)) * MessageCost <= room * MessageCost
  <2> HIDE DEF room
  <2>1. \A a, b, c \in Nat : a <= b => a * c <= b * c
    BY Z3
  <2> QED
    BY <1>1, <1>2, <1>3, <2>1
<1>5. Len(Fit(h)) * MessageCost \in Nat /\ room * MessageCost \in Nat
  <2> HIDE DEF room
  <2>1. \A a, c \in Nat : a * c \in Nat
    OBVIOUS
  <2> QED
    BY <1>1, <1>2, <1>3, <2>1
<1> QED
  BY <1>1, <1>2, <1>4, <1>5

(* And so does the request: retrieval gets no more than what is spare. *)
LEMMA UsedFits ==
  ASSUME NEW h, NEW D, h \in Seq(D), NEW mapped \in 0 .. Limits.map, NEW costs \in Seq(Nat)
  PROVE  Used(SystemCost, mapped, h, costs) <= InputBudget
<1> DEFINE slack == Slack(SystemCost, mapped)
<1> DEFINE limit == RetrievalLimit(SystemCost, mapped)
<1>0. /\ Limits.system \in Nat /\ Limits.project \in Nat /\ Limits.map \in Nat
      /\ Limits.history \in Nat /\ Limits.retrieval \in Nat
      /\ FrameCost \in Nat /\ FrameCost <= Limits.retrieval
      /\ SystemCost \in 0 .. Limits.system
  BY ContextAssumption, SessionsAssumption DEF Segment
<1>1. slack = (Limits.system - SystemCost) + Limits.project + (Limits.map - mapped)
  BY <1>0 DEF Slack, Spare
<1>2. slack \in Nat
  BY <1>0, <1>1
<1>3. limit \in Nat /\ Limits.retrieval <= limit /\ limit <= Limits.retrieval + slack
  <2> HIDE DEF slack
  <2>1. (slack * 6) \div 10 \in Nat /\ (slack * 6) \div 10 <= slack
    BY <1>2
  <2>2. limit = Limits.retrieval + (slack * 6) \div 10
    BY DEF RetrievalLimit, slack
  <2> QED
    BY <1>0, <1>2, <2>1, <2>2
<1>4. Block(costs, limit) \in 0 .. limit
  <2> HIDE DEF limit
  <2>1. FrameCost <= limit
    BY <1>0, <1>3
  <2> QED
    BY <1>3, <2>1, BlockFits
<1>5. Len(Fit(h)) * MessageCost \in Nat /\ Len(Fit(h)) * MessageCost <= Limits.history
  BY FitBounds, <1>0, ContextAssumption
<1> DEFINE spent == Len(Fit(h)) * MessageCost
<1> DEFINE block == Block(costs, limit)
<1>6. Used(SystemCost, mapped, h, costs) = SystemCost + mapped + spent + block
  BY DEF Used
<1>7. /\ spent \in Nat /\ spent <= Limits.history /\ block \in Nat
      /\ block <= limit
  BY <1>3, <1>4, <1>5
<1>8. \A s, p, m, h0, r, sys, map, sp, bl, lim \in Nat :
         /\ sys <= s /\ map <= m /\ sp <= h0 /\ bl <= lim
         /\ lim <= r + ((s - sys) + p + (m - map))
         => sys + map + sp + bl <= s + p + m + h0 + r
  OBVIOUS
<1> HIDE DEF spent, block, limit, slack
<1>9. mapped \in Nat /\ mapped <= Limits.map /\ SystemCost \in Nat /\ SystemCost <= Limits.system
  BY <1>0
<1>10. limit <= Limits.retrieval + ((Limits.system - SystemCost) + Limits.project + (Limits.map - mapped))
  BY <1>1, <1>3
<1>11. SystemCost + mapped + spent + block
         <= Limits.system + Limits.project + Limits.map + Limits.history + Limits.retrieval
  BY ONLY <1>0, <1>3, <1>7, <1>8, <1>9, <1>10
<1> QED
  BY <1>6, <1>11 DEF InputBudget

(* A request is the only step that makes one. *)
LEMMA FitsKept ==
  ASSUME TypeOK, FitsWindow, [Next]_vars
  PROVE  FitsWindow'
<1>1. CASE \E s \in Slot : \E costs \in Retrieved : Request(s, costs)
  <2>1. PICK s \in Slot, costs \in Retrieved : Request(s, costs)
    BY <1>1
  <2>2. session.history \in Seq(Message)
    BY DEF TypeOK, ChatSession
  <2>3. MapOfEpoch.cost \in 0 .. Limits.map
    <3>1. MapOfEpoch.cost \in MapCosts
      BY MapType
    <3> QED
      BY <3>1, SessionsAssumption
  <2>4. costs \in Seq(Nat)
    BY SessionsAssumption
  <2>5. sent'.used = Used(SystemCost, MapOfEpoch.cost, session.history, costs)
    BY <2>1 DEF Request
  <2> QED
    BY <2>2, <2>3, <2>4, <2>5, UsedFits DEF FitsWindow
<1>2. CASE ~\E s \in Slot : \E costs \in Retrieved : Request(s, costs)
  <2>1. sent' = sent \/ sent' = NoRequest
    BY <1>2, SentMoves DEF Stop
  <2> QED
    BY <2>1 DEF FitsWindow
<1> QED
  BY <1>1, <1>2

(* What is measured of a request fits beside the output reserve, whatever   *)
(* the index gives, retrieval finds and the history has grown to.           *)
THEOREM WindowTheorem == Spec => []FitsWindow
<1>1. Init => FitsWindow
  BY DEF Init, FitsWindow
<1>2. SessionInv => TypeOK
  BY DEF SessionInv
<1> QED
  BY <1>1, <1>2, FitsKept, SessionTheorem, PTL DEF Spec

=============================================================================
