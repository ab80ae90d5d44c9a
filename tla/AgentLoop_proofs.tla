-------------------------- MODULE AgentLoop_proofs --------------------------
(***************************************************************************)
(* Proofs about AgentLoop, for every set of acts and call ids, every       *)
(* number of calls in a message and every value of the limits.             *)
(***************************************************************************)
EXTENDS TurnInvariants, TLAPS, FiniteSetTheorems

-----------------------------------------------------------------------------
(* Types of the bus and the gateway.  The types of the tracker rest on     *)
(* folds over the calls of a message and are left to TLC.                  *)

TypesOK == BusTypeOK /\ GatewayTypeOK

LEMMA NoCallType == NoCall \in Call
BY GatewayAssumption DEF NoCall, Call, Results, Versions

(* Counting the items of a review gives a number. *)
LEMMA SlotsFinite ==
  ASSUME NEW S \in SUBSET Slots
  PROVE  Cardinality(S) \in Nat
<1>1. IsFiniteSet(Slots)
  BY FS_Interval, BusAssumption DEF Slots
<1> QED
  BY <1>1, FS_Subset, FS_CardinalityType

LEMMA InitTypes == Init => TypesOK
<1> SUFFICES ASSUME Init PROVE TypesOK
  OBVIOUS
<1>1. BusTypeOK
  BY DEF Init, BusInit, BusTypeOK, Futures, Decisions
<1>2. calls \in [Slots -> Call]
  BY NoCallType DEF Init, GatewayInit
<1>3. GatewayTypeOK
  BY <1>2, GatewayAssumption
     DEF Init, GatewayInit, GatewayTypeOK, NoAnswer, NoReview, BatchAnswer, Versions
<1> QED
  BY <1>1, <1>3 DEF TypesOK

(* The bus keeps its types. *)
LEMMA BusTypes ==
  ASSUME BusTypeOK, NEW r \in Requesters, NEW id \in RequestIds,
         \/ RequestApproval(r, id)
         \/ \E d \in Decisions : Resolve(r, id, d)
         \/ SubscriberRaises(r)
         \/ Collect(r, id)
  PROVE  BusTypeOK'
<1>1. CASE RequestApproval(r, id)
  BY <1>1 DEF BusTypeOK, RequestApproval, Futures
<1>2. CASE \E d \in Decisions : Resolve(r, id, d)
  BY <1>2 DEF BusTypeOK, Resolve, Futures
<1>3. CASE SubscriberRaises(r)
  BY <1>3 DEF BusTypeOK, SubscriberRaises
<1>4. CASE Collect(r, id)
  BY <1>4 DEF BusTypeOK, Collect, Futures
<1> QED
  BY <1>1, <1>2, <1>3, <1>4


(* One slot moves on to another call. *)
LEMMA SlotType ==
  ASSUME calls \in [Slots -> Call], NEW s \in Slots, NEW c \in Call,
         calls' = [calls EXCEPT ![s] = c]
  PROVE  calls' \in [Slots -> Call]
OBVIOUS

(* What a call becomes is a call. *)
LEMMA DoneType ==
  ASSUME NEW c \in Call, NEW result \in Results
  PROVE  [c EXCEPT !.phase = "done", !.result = result, !.records = @ + 1] \in Call
<1>1. c.records + 1 \in Nat
  BY DEF Call
<1> QED
  BY <1>1 DEF Call

LEMMA ShownType ==
  ASSUME NEW c \in Call, NEW ph \in {"asking", "running"}, NEW v \in Versions
  PROVE  [c EXCEPT !.phase = ph, !.shown = v] \in Call
BY DEF Call

LEMMA EditedType ==
  ASSUME NEW c \in Call, NEW a \in Acts
  PROVE  Edited(c, a) \in Call
<1>1. c.edits \in 0 .. MaxEdits
  BY DEF Call
<1>2. (IF c.edits < MaxEdits THEN c.edits + 1 ELSE MaxEdits) \in 0 .. MaxEdits
  BY <1>1, GatewayAssumption
<1> QED
  BY <1>2 DEF Call, Edited

-----------------------------------------------------------------------------
(* What the three ways a call moves on do, slot by slot. *)

LEMMA DoneEffect ==
  ASSUME calls \in [Slots -> Call], NEW s \in Slots, NEW result \in Results, Done(s, result)
  PROVE  /\ calls' \in [Slots -> Call]
         /\ \A t \in Slots \ {s} : calls'[t] = calls[t]
         /\ calls'[s].phase = "done"
         /\ calls'[s].act = calls[s].act
         /\ calls'[s].id = calls[s].id
         /\ calls'[s].shown = calls[s].shown
         /\ calls'[s].records = calls[s].records + 1
<1>1. calls[s] \in Call
  OBVIOUS
<1>2. [calls[s] EXCEPT !.phase = "done", !.result = result, !.records = @ + 1] \in Call
  BY <1>1, DoneType
<1>3. calls' \in [Slots -> Call]
  BY <1>2, SlotType DEF Done
<1> QED
  BY <1>1, <1>3 DEF Done, Call

LEMMA RunEffect ==
  ASSUME calls \in [Slots -> Call], preview \in [Acts -> Versions],
         NEW s \in Slots, calls[s].act \in Acts, Run(s)
  PROVE  /\ calls' \in [Slots -> Call]
         /\ \A t \in Slots \ {s} : calls'[t] = calls[t]
         /\ calls'[s].phase = "running"
         /\ calls'[s].act = calls[s].act
         /\ calls'[s].id = calls[s].id
         /\ calls'[s].shown = preview[calls[s].act]
         /\ calls'[s].records = calls[s].records
<1>1. calls[s] \in Call /\ preview[calls[s].act] \in Versions
  OBVIOUS
<1>2. [calls[s] EXCEPT !.phase = "running", !.shown = preview[calls[s].act]] \in Call
  BY <1>1, ShownType
<1>3. calls' \in [Slots -> Call]
  BY <1>2, SlotType DEF Run
<1> QED
  BY <1>1, <1>3 DEF Run, Call

LEMMA AskEffect ==
  ASSUME calls \in [Slots -> Call], preview \in [Acts -> Versions],
         NEW s \in Slots, calls[s].act \in Acts, Ask(s)
  PROVE  /\ calls' \in [Slots -> Call]
         /\ \A t \in Slots \ {s} : calls'[t] = calls[t]
         /\ calls'[s].phase = "asking"
         /\ calls'[s].act = calls[s].act
         /\ calls'[s].id = calls[s].id
         /\ calls'[s].shown = preview[calls[s].act]
         /\ calls'[s].records = calls[s].records
<1>1. calls[s] \in Call /\ preview[calls[s].act] \in Versions
  OBVIOUS
<1>2. [calls[s] EXCEPT !.phase = "asking", !.shown = preview[calls[s].act]] \in Call
  BY <1>1, ShownType
<1>3. calls' \in [Slots -> Call]
  BY <1>2, SlotType DEF Ask
<1> QED
  BY <1>1, <1>3 DEF Ask, Call

LEMMA ApprovalEffect ==
  ASSUME calls \in [Slots -> Call], NEW s \in Slots, TakeApproval(s)
  PROVE  /\ calls' \in [Slots -> Call]
         /\ \A t \in Slots \ {s} : calls'[t] = calls[t]
         /\ calls'[s].phase = "running"
         /\ calls'[s].act = calls[s].act
         /\ calls'[s].id = calls[s].id
         /\ calls'[s].shown = calls[s].shown
         /\ calls'[s].records = calls[s].records
<1>1. calls[s] \in Call
  OBVIOUS
<1>2. calls' \in [Slots -> Call]
  BY <1>1 DEF TakeApproval, Call
<1> QED
  BY <1>1, <1>2 DEF TakeApproval, Call

LEMMA EditEffect ==
  ASSUME calls \in [Slots -> Call], NEW s \in Slots, TakeEdit(s)
  PROVE  /\ calls' \in [Slots -> Call]
         /\ \A t \in Slots \ {s} : calls'[t] = calls[t]
         /\ calls'[s].phase = "queued"
         /\ calls'[s].act \in SameTool(calls[s].act)
         /\ calls'[s].id = calls[s].id
         /\ calls'[s].records = calls[s].records
<1>1. calls[s] \in Call
  OBVIOUS
<1>2. PICK a \in SameTool(calls[s].act) :
        calls' = [calls EXCEPT ![s] = Edited(calls[s], a)]
  BY DEF TakeEdit
<1>3. a \in Acts
  BY DEF SameTool
<1>4. Edited(calls[s], a) \in Call
  BY <1>1, <1>3, EditedType
<1>5. calls' \in [Slots -> Call]
  BY <1>2, <1>4, SlotType
<1> QED
  BY <1>1, <1>2, <1>5 DEF Call, Edited
-----------------------------------------------------------------------------
(* The call in slot s moves on and stays what it is. *)
Moves(s) ==
  /\ calls' \in [Slots -> Call]
  /\ \A t \in Slots \ {s} : calls'[t] = calls[t]
  /\ calls'[s].id = calls[s].id
  /\ calls'[s].act \in SameTool(calls[s].act)
  /\ calls'[s].records = IF calls'[s].phase = "done" THEN 1 ELSE 0

(* Whether the calls of a message run together does not change under way. *)
LEMMA ConcurrencyKept ==
  ASSUME NEW s \in Slots, Used(s), Moves(s), calls'[s].phase # "unused"
  PROVE  AllConcurrent' = AllConcurrent
<1>1. \A t \in Slots : Used(t)' = Used(t)
  BY DEF Used, Moves
<1>2. \A t \in Slots : (calls'[t].act \in Concurrent) = (calls[t].act \in Concurrent)
  BY DEF Moves, SameTool
<1> QED
  BY <1>1, <1>2 DEF AllConcurrent, UsedSlots

(* A call that asks is alone: those before it are done, those after it wait. *)
LEMMA AskerAlone ==
  ASSUME SequentialAsks, TurnInv, NEW s \in Slots, calls[s].phase = "asking"
  PROVE  /\ phase = "calling"
         /\ ~ AllConcurrent
         /\ \A t \in Slots : t < s /\ Used(t) => calls[t].phase = "done"
         /\ \A t \in Slots : t > s => calls[t].phase \notin Begun
         /\ \A t \in Slots \ {s} : calls[t].phase # "asking"
<1> USE DEF TurnInv
<1>1. phase = "calling"
  BY DEF InOrder, Begun
<1>2. ~ AllConcurrent
  BY DEF SequentialAsks, AskerIsRegistered, AllConcurrent, UsedSlots, Used
<1>3. \A t \in Slots : t < s /\ Used(t) => calls[t].phase = "done"
  BY <1>2 DEF InOrder, Begun
<1>4. \A t \in Slots : t > s => calls[t].phase \notin Begun
  BY <1>2 DEF InOrder, Used
<1>5. \A t \in Slots \ {s} : calls[t].phase # "asking"
  BY <1>3, <1>4 DEF Begun, Used, Slots
<1> QED
  BY <1>1, <1>2, <1>3, <1>4, <1>5

(* A call that would ask comes when no other asks. *)
LEMMA NobodyAsks ==
  ASSUME SequentialAsks, TurnInv, NEW s \in Slots, MyTurn(s),
         calls[s].phase = "queued", MustAsk(calls[s].act)
  PROVE  ~ AllConcurrent /\ \A t \in Slots : calls[t].phase # "asking"
<1>1. ~ AllConcurrent
  BY DEF MustAsk, SequentialAsks, AllConcurrent, UsedSlots, Used
<1>2. ASSUME NEW t \in Slots, calls[t].phase = "asking" PROVE FALSE
  <2>1. t < s => calls[t].phase = "done"
    BY <1>1, <1>2 DEF MyTurn, Used, UsedSlots
  <2>2. s < t => calls[s].phase = "done"
    BY <1>2, AskerAlone DEF Used
  <2> QED
    BY <1>2, <2>1, <2>2 DEF Slots
<1> QED
  BY <1>1, <1>2

(* Spending touches one approval. *)
LEMMA SpendOne ==
  ASSUME GatewayTypeOK, NEW a \in Acts, NEW v \in Versions, Spend(a, v)
  PROVE  /\ leave' \in [Acts \X Versions -> Nat]
         /\ \A b \in Acts, u \in Versions :
              <<b, u>> # <<a, v>> => leave'[<<b, u>>] = leave[<<b, u>>]
         /\ leave'[<<a, v>>] >= leave[<<a, v>>] - 1
<1>1. leave[<<a, v>>] \in Nat
  BY DEF GatewayTypeOK
<1>2. leave' = [leave EXCEPT ![<<a, v>>] = IF leave[<<a, v>>] > 0 THEN leave[<<a, v>>] - 1 ELSE 0]
  BY DEF Spend
<1>3. <<a, v>> \in Acts \X Versions
  OBVIOUS
<1>4. leave' \in [Acts \X Versions -> Nat]
  BY <1>1, <1>2, <1>3 DEF GatewayTypeOK
<1>5. \A x \in Acts \X Versions : x # <<a, v>> => leave'[x] = leave[x]
  BY <1>2 DEF GatewayTypeOK
<1>6. leave'[<<a, v>>] >= leave[<<a, v>>] - 1
  BY <1>1, <1>2, <1>3 DEF GatewayTypeOK
<1> QED
  BY <1>4, <1>5, <1>6

(* A call runs or ends without a prompt; the batch answer is consumed, and *)
(* its yes used, if that is what let the call through.                     *)
LEMMA LeavesQueue ==
  ASSUME SequentialAsks, TurnInv, NEW s \in Slots, MyTurn(s), calls[s].phase = "queued",
         Moves(s), calls'[s].phase \in {"running", "done"},
         UNCHANGED loopVars, UNCHANGED <<review, preview, grants, aborted, busVars>>,
         \/ UNCHANGED <<batch, leave>>
         \/ Consume(s) /\ leave' = leave
         \/ /\ MustAsk(calls[s].act)
            /\ BatchAnswerFor(s) = "approve"
            /\ Consume(s)
            /\ Spend(calls[s].act, preview[calls[s].act])
  PROVE  TurnInv'
<1> USE BusAssumption, GatewayAssumption DEF TurnInv
<1>1. phase = "calling" /\ phase' = phase
  BY DEF MyTurn, loopVars
<1>2. calls[s].act \in Acts /\ preview[calls[s].act] \in Versions
  BY DEF SlotsFilled, Used, GatewayTypeOK
<1>3. leave' \in [Acts \X Versions -> Nat]
  BY <1>2, SpendOne DEF GatewayTypeOK
<1>4. AllConcurrent' = AllConcurrent
  BY ConcurrencyKept DEF Used
<1>5. BusTypeOK'
  BY DEF BusTypeOK, busVars
<1>6. GatewayTypeOK'
  BY <1>3 DEF Moves, GatewayTypeOK, Consume, NoAnswer, BatchAnswer, Versions
<1>7. EveryCallRecordedOnce'
  BY DEF Moves, EveryCallRecordedOnce
<1>8. SlotsFilled'
  BY DEF Moves, SlotsFilled, Used, SameTool
<1>9. OnlyAskersWait'
  BY <1>1 DEF Moves, OnlyAskersWait, Idle, busVars
<1>10. InOrder'
  BY <1>1, <1>4 DEF Moves, InOrder, Begun, Used, MyTurn, UsedSlots
<1>11. AskerIsRegistered'
  BY DEF Moves, AskerIsRegistered, busVars
<1>12. NoStranger'
  BY <1>1 DEF Moves, NoStranger, busVars, BusTypeOK
<1>13. ASSUME UNCHANGED leave
       PROVE  AskerHasLeave' /\ BatchHasLeave'
  <2>1. AskerHasLeave'
    BY <1>13 DEF Moves, AskerHasLeave, Yes, busVars
  <2>2. \A i \in CallIds : batch'[i].decision = "approve" => batch'[i] = batch[i]
    BY DEF Consume, NoAnswer, GatewayTypeOK
  <2>3. \A t \in Slots : calls'[t].phase = "asking" => calls[t] = calls'[t] /\ (Yes(t) <=> Yes(t)')
    BY DEF Moves, Yes, busVars
  <2>4. BatchHasLeave'
    BY <1>13, <2>2, <2>3 DEF BatchHasLeave
  <2> QED
    BY <2>1, <2>4
<1>14. ASSUME MustAsk(calls[s].act), BatchAnswerFor(s) = "approve", Consume(s),
              Spend(calls[s].act, preview[calls[s].act])
       PROVE  AskerHasLeave' /\ BatchHasLeave'
  <2>1. \A t \in Slots : calls[t].phase # "asking"
    BY <1>14, NobodyAsks
  <2>2. AskerHasLeave' /\ (\A t \in Slots : calls'[t].phase # "asking")
    BY <2>1 DEF Moves, AskerHasLeave
  <2>3. /\ batch[calls[s].id].decision = "approve"
        /\ batch[calls[s].id].act = calls[s].act
        /\ calls[s].id \in CallIds
    BY <1>14 DEF BatchAnswerFor, SlotsFilled, Used
  <2>4. ASSUME NEW i \in CallIds, batch'[i].decision = "approve"
        PROVE  /\ batch'[i] = batch[i]
               /\ leave'[<<batch[i].act, batch[i].shown>>] = leave[<<batch[i].act, batch[i].shown>>]
    <3>1. batch'[i] = batch[i] /\ i # calls[s].id
      BY <1>14, <2>3, <2>4 DEF Consume, NoAnswer, GatewayTypeOK
    <3>2. batch[i].act \in Acts /\ batch[i].shown \in Versions
      BY <2>4, <3>1 DEF BatchHasLeave, GatewayTypeOK, BatchAnswer
    <3>3. batch[i].act # calls[s].act
      BY <2>3, <2>4, <3>1 DEF BatchHasLeave
    <3>4. <<batch[i].act, batch[i].shown>> # <<calls[s].act, preview[calls[s].act]>>
      BY <3>3
    <3>5. \A b \in Acts, u \in Versions :
            <<b, u>> # <<calls[s].act, preview[calls[s].act]>> => leave'[<<b, u>>] = leave[<<b, u>>]
      BY <1>2, <1>14, SpendOne
    <3> QED
      BY <3>1, <3>2, <3>4, <3>5
  <2>5. ASSUME NEW i \in CallIds, batch'[i].decision = "approve"
        PROVE  /\ batch'[i].act \in Acts
               /\ leave'[<<batch'[i].act, batch'[i].shown>>] > 0
               /\ \A j \in CallIds : batch'[j].decision = "approve" /\ batch'[j].act = batch'[i].act
                                       => j = i
    BY <2>4, <2>5 DEF BatchHasLeave
  <2>6. BatchHasLeave'
    BY <2>2, <2>5 DEF BatchHasLeave
  <2> QED
    BY <2>2, <2>6
<1>15. ReviewHasLeave'
  BY <1>1 DEF ReviewHasLeave
<1>16. AskerHasLeave' /\ BatchHasLeave'
  BY <1>13, <1>14
<1> QED
  BY <1>5, <1>6, <1>7, <1>8, <1>9, <1>10, <1>11, <1>12, <1>15, <1>16

(* A call asks: it is registered, and its prompt opens. *)
LEMMA Asks ==
  ASSUME SequentialAsks, TurnInv, NEW s \in Slots, MyTurn(s), Ask(s), UNCHANGED loopVars
  PROVE  TurnInv'
<1> USE BusAssumption, GatewayAssumption DEF TurnInv
<1>1. phase = "calling" /\ phase' = phase
  BY DEF MyTurn, loopVars
<1>2. /\ calls[s].act \in Acts
      /\ calls[s].id \in CallIds
      /\ calls[s].phase = "queued"
      /\ calls[s].records = 0
      /\ MustAsk(calls[s].act)
  BY DEF Ask, SlotsFilled, Used, EveryCallRecordedOnce
<1>3. /\ calls' \in [Slots -> Call]
      /\ \A t \in Slots \ {s} : calls'[t] = calls[t]
      /\ calls'[s].phase = "asking"
      /\ calls'[s].act = calls[s].act
      /\ calls'[s].id = calls[s].id
      /\ calls'[s].records = 0
  BY <1>2, AskEffect DEF GatewayTypeOK
<1>4. Moves(s)
  BY <1>2, <1>3 DEF Moves, SameTool
<1>5. AllConcurrent' = AllConcurrent
  BY <1>2, <1>3, <1>4, ConcurrencyKept DEF Used
<1>6. \A t \in Slots : calls[t].phase # "asking"
  BY <1>2, NobodyAsks
<1>7. BusTypeOK'
  BY <1>2, BusTypes DEF Ask, Requesters, RequestIds
<1>8. /\ pending' = [pending EXCEPT ![calls[s].id] = s]
      /\ future' = [future EXCEPT ![s] = "waiting"]
      /\ prompt' = [prompt EXCEPT ![s] = TRUE]
  BY DEF Ask, RequestApproval
<1>9. GatewayTypeOK'
  BY <1>3 DEF GatewayTypeOK, Ask, Consume, NoAnswer, BatchAnswer, Versions
<1>10. EveryCallRecordedOnce' /\ SlotsFilled'
  BY <1>2, <1>3 DEF EveryCallRecordedOnce, SlotsFilled, Used
<1>11. OnlyAskersWait'
  BY <1>1, <1>3, <1>8 DEF OnlyAskersWait, Idle, Reviewer, Slots, BusTypeOK
<1>12. InOrder'
  BY <1>1, <1>2, <1>3, <1>5 DEF InOrder, Begun, Used, MyTurn, UsedSlots
<1>13. AskerIsRegistered'
  BY <1>2, <1>3, <1>6, <1>8 DEF AskerIsRegistered, MustAsk, BusTypeOK, Requesters, RequestIds
<1>14. NoStranger'
  BY <1>1, <1>2, <1>3, <1>6, <1>8 DEF NoStranger, BusTypeOK, RequestIds
<1>15. \A t \in Slots : ~ (calls'[t].phase = "asking" /\ Yes(t)')
  BY <1>3, <1>6, <1>8 DEF Yes, BusTypeOK, Requesters
<1>16. AskerHasLeave'
  BY <1>15 DEF AskerHasLeave
<1>17. \A i \in CallIds : batch'[i].decision = "approve" => batch'[i] = batch[i]
  BY DEF Ask, Consume, NoAnswer, GatewayTypeOK
<1>18. BatchHasLeave'
  BY <1>15, <1>17 DEF BatchHasLeave, Ask
<1>19. ReviewHasLeave'
  BY <1>1 DEF ReviewHasLeave
<1> QED
  BY <1>7, <1>9, <1>10, <1>11, <1>12, <1>13, <1>14, <1>16, <1>18, <1>19

(* The await of a call returns: it runs, ends, or enters again with edited *)
(* arguments; if the answer was a yes, the yes is used.                    *)
LEMMA LeavesPrompt ==
  ASSUME SequentialAsks, TurnInv, NEW s \in Slots, calls[s].phase = "asking",
         Collect(s, calls[s].id), Moves(s), calls'[s].phase \in {"running", "done", "queued"},
         calls'[s].shown \in Versions,
         UNCHANGED loopVars, UNCHANGED <<batch, review, preview, aborted>>, grants' \subseteq Acts,
         leave' = leave \/ (Yes(s) /\ Spend(calls[s].act, calls[s].shown))
  PROVE  TurnInv'
<1> USE BusAssumption, GatewayAssumption DEF TurnInv
<1>1. /\ phase = "calling" /\ phase' = phase
      /\ ~ AllConcurrent
      /\ \A t \in Slots : t < s /\ Used(t) => calls[t].phase = "done"
      /\ \A t \in Slots : t > s => calls[t].phase \notin Begun
      /\ \A t \in Slots \ {s} : calls[t].phase # "asking"
  BY AskerAlone DEF loopVars
<1>2. calls[s].act \in Acts /\ calls[s].id \in CallIds /\ calls[s].shown \in Versions
  BY DEF SlotsFilled, Used, GatewayTypeOK, Call
<1>3. \A t \in Slots : calls'[t].phase # "asking"
  BY <1>1 DEF Moves
<1>4. AllConcurrent' = AllConcurrent
  BY ConcurrencyKept DEF Used
<1>5. leave' \in [Acts \X Versions -> Nat]
  BY <1>2, SpendOne DEF GatewayTypeOK
<1>6. BusTypeOK'
  BY <1>2, BusTypes DEF Requesters, RequestIds
<1>7. /\ pending' = [pending EXCEPT ![calls[s].id] = Nobody]
      /\ future' = [future EXCEPT ![s] = "none"]
      /\ prompt' = prompt /\ ~ prompt[s]
  BY DEF Collect, Answered
<1>8. GatewayTypeOK'
  BY <1>5 DEF Moves, GatewayTypeOK
<1>9. EveryCallRecordedOnce'
  BY DEF Moves, EveryCallRecordedOnce
<1>10. SlotsFilled'
  BY <1>2 DEF Moves, SlotsFilled, Used, SameTool
<1>11. OnlyAskersWait'
  BY <1>1, <1>7 DEF Moves, OnlyAskersWait, Idle, BusTypeOK, Requesters, Reviewer, Slots
<1>12. InOrder'
  BY <1>1, <1>4 DEF Moves, InOrder, Begun, Used, Slots
<1>13. AskerIsRegistered' /\ AskerHasLeave'
  BY <1>3 DEF AskerIsRegistered, AskerHasLeave
<1>14. NoStranger'
  BY <1>1, <1>2, <1>3, <1>7 DEF Moves, NoStranger, BusTypeOK, RequestIds
<1>15. ASSUME NEW i \in CallIds, batch[i].decision = "approve"
       PROVE  leave'[<<batch[i].act, batch[i].shown>>] > 0
  <2>1. batch[i].act \in Acts /\ batch[i].shown \in Versions
    BY <1>15 DEF BatchHasLeave, GatewayTypeOK, BatchAnswer
  <2> DEFINE x == <<batch[i].act, batch[i].shown>>
  <2>2. leave[x] \in Nat /\ leave[x] > 0
    BY <1>15, <2>1 DEF BatchHasLeave, GatewayTypeOK
  <2>3. CASE UNCHANGED leave
    BY <2>2, <2>3
  <2>4. CASE Yes(s) /\ Spend(calls[s].act, calls[s].shown) /\ x # <<calls[s].act, calls[s].shown>>
    <3>1. \A b \in Acts, u \in Versions :
            <<b, u>> # <<calls[s].act, calls[s].shown>> => leave'[<<b, u>>] = leave[<<b, u>>]
      BY <1>2, <2>4, SpendOne
    <3> QED
      BY <2>1, <2>2, <2>4, <3>1
  <2>5. CASE Yes(s) /\ Spend(calls[s].act, calls[s].shown) /\ x = <<calls[s].act, calls[s].shown>>
    <3>1. leave[x] > 1
      BY <1>15, <2>5 DEF BatchHasLeave
    <3>2. leave'[x] >= leave[x] - 1
      BY <1>2, <2>5, SpendOne
    <3>3. leave'[x] \in Nat
      BY <1>5, <2>1
    <3> QED
      BY <2>2, <3>1, <3>2, <3>3
  <2> QED
    BY <2>3, <2>4, <2>5
<1>16. BatchHasLeave'
  BY <1>3, <1>15 DEF BatchHasLeave
<1>17. ReviewHasLeave'
  BY <1>1 DEF ReviewHasLeave
<1> QED
  BY <1>6, <1>8, <1>9, <1>10, <1>11, <1>12, <1>13, <1>14, <1>16, <1>17

(* A call that runs ends. *)
LEMMA RunEnds ==
  ASSUME SequentialAsks, TurnInv, NEW s \in Slots, calls[s].phase = "running",
         Moves(s), calls'[s].phase = "done", preview' \in [Acts -> Versions],
         UNCHANGED loopVars, UNCHANGED <<batch, review, grants, leave, aborted, busVars>>
  PROVE  TurnInv'
<1> USE BusAssumption, GatewayAssumption DEF TurnInv
<1>1. phase = "calling" /\ phase' = phase
  BY DEF InOrder, Begun, loopVars
<1>2. AllConcurrent' = AllConcurrent
  BY ConcurrencyKept DEF Used
<1>3. BusTypeOK'
  BY DEF BusTypeOK, busVars
<1>4. GatewayTypeOK'
  BY DEF Moves, GatewayTypeOK
<1>5. EveryCallRecordedOnce' /\ SlotsFilled'
  BY DEF Moves, EveryCallRecordedOnce, SlotsFilled, Used, SameTool
<1>6. OnlyAskersWait'
  BY <1>1 DEF Moves, OnlyAskersWait, Idle, busVars
<1>7. InOrder'
  BY <1>1, <1>2 DEF Moves, InOrder, Begun, Used
<1>8. AskerIsRegistered'
  BY DEF Moves, AskerIsRegistered, busVars
<1>9. NoStranger'
  BY <1>1 DEF Moves, NoStranger, busVars, BusTypeOK
<1>10. \A t \in Slots : calls'[t].phase = "asking" => calls[t] = calls'[t] /\ (Yes(t) <=> Yes(t)')
  BY DEF Moves, Yes, busVars
<1>11. AskerHasLeave' /\ BatchHasLeave'
  BY <1>10 DEF AskerHasLeave, BatchHasLeave
<1>12. ReviewHasLeave'
  BY <1>1 DEF ReviewHasLeave
<1> QED
  BY <1>3, <1>4, <1>5, <1>6, <1>7, <1>8, <1>9, <1>11, <1>12

(* Every step of a call that is not the user's answer. *)
LEMMA CallSteps ==
  ASSUME SequentialAsks, TurnInv, NEW s \in Slots, Enter(s) \/ Continue(s)
  PROVE  TurnInv'
<1> USE GatewayAssumption DEF TurnInv
<1>1. calls \in [Slots -> Call] /\ preview \in [Acts -> Versions] /\ calls[s] \in Call
  BY DEF GatewayTypeOK
<1>2. Used(s) => calls[s].act \in Acts /\ calls[s].act \in SameTool(calls[s].act)
  BY DEF SlotsFilled, SameTool
<1>3. calls[s].phase # "done" => calls[s].records = 0
  BY DEF EveryCallRecordedOnce
<1>4. \A result \in Results : Used(s) /\ calls[s].phase # "done" /\ Done(s, result)
        => Moves(s) /\ calls'[s].phase = "done" /\ calls'[s].shown = calls[s].shown
  BY <1>1, <1>2, <1>3, DoneEffect DEF Moves
<1>5. Used(s) /\ calls[s].phase # "done" /\ Run(s)
        => Moves(s) /\ calls'[s].phase = "running"
  BY <1>1, <1>2, <1>3, RunEffect DEF Moves
<1>6. CASE MyTurn(s) /\ UNCHANGED loopVars /\ (Refuse(s) \/ Deny(s))
  BY <1>4, <1>6, LeavesQueue DEF Refuse, Deny, Used, Results
<1>7. CASE MyTurn(s) /\ UNCHANGED loopVars /\ Allow(s)
  BY <1>5, <1>7, LeavesQueue DEF Allow, Used
<1>8. CASE MyTurn(s) /\ UNCHANGED loopVars /\ ApprovedInReview(s)
  BY <1>5, <1>8, LeavesQueue DEF ApprovedInReview, Used
<1>9. CASE MyTurn(s) /\ UNCHANGED loopVars /\ RejectedInReview(s)
  BY <1>4, <1>9, LeavesQueue DEF RejectedInReview, Used, Results
<1>10. CASE MyTurn(s) /\ UNCHANGED loopVars /\ Ask(s)
  BY <1>10, Asks
<1>11. CASE TakeApproval(s) /\ UNCHANGED loopVars
  <2>1. Moves(s) /\ calls'[s].phase = "running" /\ calls'[s].shown \in Versions
    BY <1>1, <1>2, <1>3, <1>11, ApprovalEffect DEF Moves, TakeApproval, Used, Call
  <2>2. grants' \subseteq Acts
    BY <1>2, <1>11 DEF TakeApproval, GatewayTypeOK, Used
  <2>3. Yes(s)
    BY <1>11 DEF TakeApproval, Yes
  <2> QED
    BY <1>11, <2>1, <2>2, <2>3, LeavesPrompt DEF TakeApproval
<1>12. CASE TakeRefusal(s) /\ UNCHANGED loopVars
  <2>1. Moves(s) /\ calls'[s].phase = "done" /\ calls'[s].shown \in Versions
    BY <1>1, <1>4, <1>12 DEF TakeRefusal, Used, Call, Results
  <2>2. grants' \subseteq Acts
    BY <1>12 DEF TakeRefusal, GatewayTypeOK
  <2>3. /\ calls[s].phase = "asking" /\ Collect(s, calls[s].id)
        /\ UNCHANGED <<batch, review, preview, aborted>> /\ leave' = leave
    BY <1>12 DEF TakeRefusal
  <2> QED
    BY <1>12, <2>1, <2>2, <2>3, LeavesPrompt
<1>13. CASE TakeEdit(s) /\ UNCHANGED loopVars
  <2>1. Moves(s) /\ calls'[s].phase = "queued" /\ calls'[s].shown \in Versions
    BY <1>1, <1>3, <1>13, EditEffect DEF Moves, TakeEdit, Call
  <2>2. grants' \subseteq Acts
    BY <1>13 DEF TakeEdit, GatewayTypeOK
  <2>3. /\ calls[s].phase = "asking" /\ Collect(s, calls[s].id)
        /\ UNCHANGED <<batch, review, preview, aborted>> /\ leave' = leave
    BY <1>13 DEF TakeEdit
  <2> QED
    BY <1>13, <2>1, <2>2, <2>3, LeavesPrompt
<1>14. CASE Finish(s) /\ UNCHANGED loopVars
  <2>1. Moves(s) /\ calls'[s].phase = "done"
    BY <1>4, <1>14 DEF Finish, Used
  <2>2. preview' \in [Acts -> Versions]
    BY <1>1, <1>14 DEF Finish, Versions
  <2> QED
    BY <1>14, <2>1, <2>2, RunEnds DEF Finish
<1> QED
  BY <1>6, <1>7, <1>8, <1>9, <1>10, <1>11, <1>12, <1>13, <1>14 DEF Enter, Continue

(* The user answers a call: a yes is given, and its future holds it.       *)
LEMMA AnswerStep ==
  ASSUME SequentialAsks, TurnInv, NEW s \in Slots, Answer(s), UNCHANGED loopVars
  PROVE  TurnInv'
<1> USE BusAssumption, GatewayAssumption DEF TurnInv
<1>1. /\ calls[s].phase = "asking"
      /\ calls[s].id \in CallIds
      /\ pending[calls[s].id] = s
      /\ prompt[s] /\ future[s] = "waiting"
      /\ UNCHANGED <<pending, calls, batch, review, preview, grants>>
  BY DEF Answer, Resolve, AskerIsRegistered, SlotsFilled, Used
<1>2. /\ phase = "calling" /\ phase' = phase
      /\ \A t \in Slots \ {s} : calls[t].phase # "asking"
  BY <1>1, AskerAlone DEF loopVars
<1>3. calls[s].act \in Acts /\ calls[s].shown \in Versions
  BY <1>1 DEF SlotsFilled, Used, GatewayTypeOK, Call
<1> DEFINE x == <<calls[s].act, calls[s].shown>>
<1>4. PICK d \in Decisions :
        /\ Resolve(s, calls[s].id, d)
        /\ leave' = IF d \in {"approve", "always"} THEN [leave EXCEPT ![x] = @ + 1] ELSE leave
  BY DEF Answer
<1>5. /\ prompt' = [prompt EXCEPT ![s] = FALSE]
      /\ future' = future \/ future' = [future EXCEPT ![s] = d]
  BY <1>1, <1>4 DEF Resolve
<1>6. leave \in [Acts \X Versions -> Nat]
  BY DEF GatewayTypeOK
<1>7. /\ leave' \in [Acts \X Versions -> Nat]
      /\ \A y \in Acts \X Versions : leave'[y] >= leave[y]
      /\ d \in {"approve", "always"} => leave'[x] = leave[x] + 1
  BY <1>3, <1>4, <1>6
<1>8. BusTypeOK'
  BY <1>1, <1>4, BusTypes DEF Requesters, RequestIds
<1>9. GatewayTypeOK'
  BY <1>1, <1>7 DEF GatewayTypeOK, Answer
<1>10. EveryCallRecordedOnce' /\ SlotsFilled' /\ ReviewHasLeave'
  BY <1>1, <1>2 DEF EveryCallRecordedOnce, SlotsFilled, Used, ReviewHasLeave
<1>11. OnlyAskersWait'
  BY <1>1, <1>2, <1>5 DEF OnlyAskersWait, Idle, BusTypeOK, Requesters, Reviewer, Slots
<1>12. InOrder'
  BY <1>1, <1>2 DEF InOrder, Used, AllConcurrent, UsedSlots
<1>13. AskerIsRegistered'
  BY <1>1, <1>2, <1>5 DEF AskerIsRegistered, BusTypeOK, Requesters
<1>14. NoStranger'
  BY <1>1, <1>2 DEF NoStranger
<1>15. Yes(s)' => leave'[x] = leave[x] + 1
  BY <1>1, <1>5, <1>7 DEF Yes, BusTypeOK, Requesters
<1>16. AskerHasLeave'
  BY <1>1, <1>2, <1>3, <1>6, <1>15 DEF AskerHasLeave
<1>17. ASSUME NEW i \in CallIds, batch[i].decision = "approve"
       PROVE  /\ leave'[<<batch[i].act, batch[i].shown>>] > 0
              /\ Yes(s)' /\ x = <<batch[i].act, batch[i].shown>>
                   => leave'[<<batch[i].act, batch[i].shown>>] > 1
  <2>1. <<batch[i].act, batch[i].shown>> \in Acts \X Versions
    BY <1>17 DEF BatchHasLeave, GatewayTypeOK, BatchAnswer
  <2>2. leave[<<batch[i].act, batch[i].shown>>] > 0
    BY <1>17 DEF BatchHasLeave
  <2> QED
    BY <1>6, <1>7, <1>15, <2>1, <2>2
<1>18. BatchHasLeave'
  BY <1>1, <1>2, <1>17 DEF BatchHasLeave
<1> QED
  BY <1>8, <1>9, <1>10, <1>11, <1>12, <1>13, <1>14, <1>16, <1>18

(* A prompt that raises closes and answers nothing; an edit outside Hearth *)
(* only moves a preview.                                                   *)
LEMMA OutsideSteps ==
  ASSUME TurnInv, PromptFails \/ OtherEdits
  PROVE  TurnInv'
<1> USE BusAssumption, GatewayAssumption DEF TurnInv
<1>1. ASSUME NEW r \in Requesters, SubscriberRaises(r), UNCHANGED <<gatewayVars, loopVars>>
      PROVE  TurnInv'
  <2>1. BusTypeOK'
    BY <1>1, BusTypes DEF RequestIds
  <2>2. GatewayTypeOK' /\ EveryCallRecordedOnce' /\ SlotsFilled'
    BY <1>1 DEF gatewayVars, GatewayTypeOK, EveryCallRecordedOnce, SlotsFilled, Used
  <2>3. /\ prompt' = [prompt EXCEPT ![r] = FALSE]
        /\ UNCHANGED <<pending, future>>
    BY <1>1 DEF SubscriberRaises
  <2>4. OnlyAskersWait' /\ InOrder'
    BY <1>1, <2>3 DEF gatewayVars, loopVars, OnlyAskersWait, Idle, InOrder, Used, AllConcurrent,
                      UsedSlots, BusTypeOK, Requesters
  <2>5. AskerIsRegistered' /\ NoStranger'
    BY <1>1, <2>3 DEF gatewayVars, loopVars, AskerIsRegistered, NoStranger, BusTypeOK, Requesters
  <2>6. AskerHasLeave' /\ BatchHasLeave'
    BY <1>1, <2>3 DEF gatewayVars, AskerHasLeave, BatchHasLeave, Yes
  <2>7. ReviewHasLeave'
    BY <1>1, <2>3 DEF gatewayVars, loopVars, ReviewHasLeave, BusTypeOK
  <2> QED
    BY <2>1, <2>2, <2>4, <2>5, <2>6, <2>7
<1>2. ASSUME NEW a \in Writes, EditOutside(a), UNCHANGED loopVars
      PROVE  TurnInv'
  <2>1. BusTypeOK' /\ GatewayTypeOK' /\ EveryCallRecordedOnce' /\ SlotsFilled'
    BY <1>2 DEF EditOutside, busVars, BusTypeOK, GatewayTypeOK, EveryCallRecordedOnce, SlotsFilled,
                Used, Versions
  <2>2. OnlyAskersWait' /\ InOrder' /\ AskerIsRegistered' /\ NoStranger'
    BY <1>2 DEF EditOutside, busVars, loopVars, OnlyAskersWait, Idle, InOrder, Used, AllConcurrent,
                UsedSlots, AskerIsRegistered, NoStranger
  <2>3. AskerHasLeave' /\ BatchHasLeave' /\ ReviewHasLeave'
    BY <1>2 DEF EditOutside, busVars, loopVars, AskerHasLeave, BatchHasLeave, Yes, ReviewHasLeave
  <2> QED
    BY <2>1, <2>2, <2>3
<1> QED
  BY <1>1, <1>2 DEF PromptFails, OtherEdits

-----------------------------------------------------------------------------
(* The loop and the review. *)

(* When no call is under way nobody asks, so only the loop's state and the *)
(* batch matter.                                                           *)
LEMMA LoopSteps ==
  ASSUME TurnInv, BeginTurn \/ ModelAnswers \/ StopAtLimit \/ StepDone \/ SkipReview
  PROVE  TurnInv'
<1> USE BusAssumption, GatewayAssumption DEF TurnInv
<1>1. \A s \in Slots : calls[s].phase # "asking" /\ calls'[s].phase # "asking"
  BY DEF InOrder, Begun, BeginTurn, ModelAnswers, StopAtLimit, StepDone, SkipReview, gatewayVars,
         UsedSlots, Used, NoCall
<1>2. BusTypeOK'
  BY DEF BeginTurn, ModelAnswers, StopAtLimit, StepDone, SkipReview, busVars, BusTypeOK
<1>3. GatewayTypeOK'
  <2>1. calls' \in [Slots -> Call]
    BY NoCallType DEF BeginTurn, ModelAnswers, StopAtLimit, StepDone, SkipReview, gatewayVars,
                      GatewayTypeOK
  <2>2. batch' \in [CallIds -> BatchAnswer]
    BY DEF BeginTurn, ModelAnswers, StopAtLimit, StepDone, SkipReview, gatewayVars,
           GatewayTypeOK, ClearBatch, NoAnswer, BatchAnswer, Versions
  <2> QED
    BY <2>1, <2>2 DEF BeginTurn, ModelAnswers, StopAtLimit, StepDone, SkipReview, gatewayVars,
                      GatewayTypeOK
<1>4. EveryCallRecordedOnce' /\ SlotsFilled'
  BY DEF BeginTurn, ModelAnswers, StopAtLimit, StepDone, SkipReview, gatewayVars,
         EveryCallRecordedOnce, SlotsFilled, Used, NoCall
<1>5. UNCHANGED busVars /\ phase # "reviewing" /\ phase' # "reviewing"
  BY DEF BeginTurn, ModelAnswers, StopAtLimit, StepDone, SkipReview, End
<1>6. OnlyAskersWait'
  BY <1>1, <1>5 DEF OnlyAskersWait, Idle, busVars
<1>7. InOrder'
  BY DEF BeginTurn, ModelAnswers, StopAtLimit, StepDone, SkipReview, End, gatewayVars,
         InOrder, Begun, Used, AllConcurrent, UsedSlots, NoCall
<1>8. AskerIsRegistered' /\ AskerHasLeave' /\ ReviewHasLeave'
  BY <1>1, <1>5 DEF AskerIsRegistered, AskerHasLeave, ReviewHasLeave
<1>9. NoStranger'
  BY <1>1, <1>5 DEF NoStranger, busVars
<1>10. \A i \in CallIds : batch'[i].decision = "approve" => batch'[i] = batch[i]
  BY DEF BeginTurn, ModelAnswers, StopAtLimit, StepDone, SkipReview, gatewayVars, ClearBatch, NoAnswer
<1>11. leave' = leave
  BY DEF BeginTurn, ModelAnswers, StopAtLimit, StepDone, SkipReview, gatewayVars
<1>12. BatchHasLeave'
  BY <1>1, <1>10, <1>11 DEF BatchHasLeave
<1> QED
  BY <1>2, <1>3, <1>4, <1>6, <1>7, <1>8, <1>9, <1>12

(* The model's calls fill the slots. *)
LEMMA FreshCalls ==
  ASSUME ModelCalls
  PROVE  /\ calls' \in [Slots -> Call]
         /\ \A s \in Slots :
              /\ calls'[s].phase \in {"queued", "unused"}
              /\ calls'[s].records = 0
              /\ calls'[s].phase = "queued" => calls'[s].act \in Acts /\ calls'[s].id \in CallIds
<1> USE BusAssumption, GatewayAssumption
<1>0. PICK n \in Slots :
        \E acts \in [1 .. n -> Acts], ids \in [1 .. n -> CallIds] :
          calls' = [s \in Slots |->
            IF s <= n THEN [NoCall EXCEPT !.id = ids[s], !.act = acts[s], !.phase = "queued"]
            ELSE NoCall]
  BY DEF ModelCalls
<1>1. PICK acts \in [1 .. n -> Acts], ids \in [1 .. n -> CallIds] :
        calls' = [s \in Slots |->
          IF s <= n THEN [NoCall EXCEPT !.id = ids[s], !.act = acts[s], !.phase = "queued"]
          ELSE NoCall]
  BY <1>0
<1>2. \A s \in Slots : s <= n => ids[s] \in CallIds /\ acts[s] \in Acts
  BY DEF Slots
<1>3. calls' \in [Slots -> Call]
  BY <1>1, <1>2, NoCallType DEF Call, NoCall
<1>4. \A s \in Slots :
        /\ calls'[s].phase \in {"queued", "unused"}
        /\ calls'[s].records = 0
        /\ calls'[s].phase = "queued" => calls'[s].act \in Acts /\ calls'[s].id \in CallIds
  BY <1>1, <1>2 DEF NoCall
<1> QED
  BY <1>3, <1>4

LEMMA CallsStep ==
  ASSUME TurnInv, ModelCalls
  PROVE  TurnInv'
<1> USE BusAssumption, GatewayAssumption DEF TurnInv
<1>1. calls' \in [Slots -> Call]
  BY FreshCalls
<1>2. \A s \in Slots :
        /\ calls'[s].phase \in {"queued", "unused"}
        /\ calls'[s].records = 0
        /\ calls'[s].phase = "queued" => calls'[s].act \in Acts /\ calls'[s].id \in CallIds
  BY FreshCalls
<1>3. /\ phase = "model" /\ phase' \in {"calling", "batching"}
      /\ UNCHANGED <<busVars, batch, review, preview, grants, leave, aborted>>
  BY DEF ModelCalls
<1>4. \A s \in Slots : calls[s].phase # "asking"
  BY <1>3 DEF InOrder, Begun
<1>5. BusTypeOK' /\ GatewayTypeOK'
  BY <1>1, <1>3 DEF busVars, BusTypeOK, GatewayTypeOK
<1>6. EveryCallRecordedOnce' /\ SlotsFilled' /\ InOrder' /\ AskerIsRegistered' /\ AskerHasLeave'
  BY <1>2 DEF EveryCallRecordedOnce, SlotsFilled, Used, InOrder, Begun, AskerIsRegistered, AskerHasLeave
<1>7. OnlyAskersWait' /\ NoStranger' /\ ReviewHasLeave'
  BY <1>3, <1>4 DEF busVars, OnlyAskersWait, Idle, NoStranger, ReviewHasLeave
<1>8. BatchHasLeave'
  BY <1>2, <1>3, <1>4 DEF BatchHasLeave
<1> QED
  BY <1>5, <1>6, <1>7, <1>8

(* The review opens on queued writes with acts of their own. *)
LEMMA ReviewOpens ==
  ASSUME TurnInv, BeginReview
  PROVE  TurnInv'
<1> USE BusAssumption, GatewayAssumption DEF TurnInv
<1>1. PICK items \in SUBSET Slots :
        /\ \A s \in items : Used(s)
        /\ \A s, t \in items : calls[s].act = calls[t].act => s = t
        /\ Review(items)
  BY DEF BeginReview, Batchable, UsedSlots
<1>2. /\ phase = "batching" /\ phase' = "reviewing"
      /\ batch' = [i \in CallIds |-> NoAnswer]
      /\ review' = [items |-> items, yes |-> {},
                    shown |-> [s \in Slots |-> IF s \in items THEN preview[calls[s].act] ELSE 0]]
      /\ pending' = [pending EXCEPT ![BatchId] = Reviewer]
      /\ future' = [future EXCEPT ![Reviewer] = "waiting"]
      /\ prompt' = [prompt EXCEPT ![Reviewer] = TRUE]
      /\ UNCHANGED <<calls, preview, grants, leave, aborted>>
  BY <1>1 DEF BeginReview, ClearBatch, Review, RequestApproval
<1>3. \A s \in Slots : calls[s].phase \notin Begun
  BY <1>2 DEF InOrder
<1>4. BusTypeOK'
  BY <1>1, BusTypes DEF Review, Requesters, RequestIds
<1>5. \A s \in items : calls[s].act \in Acts
  BY <1>1 DEF SlotsFilled
<1>6. GatewayTypeOK'
  BY <1>2, <1>5 DEF GatewayTypeOK, NoAnswer, BatchAnswer, Versions
<1>7. EveryCallRecordedOnce' /\ SlotsFilled' /\ InOrder'
  BY <1>2, <1>3 DEF EveryCallRecordedOnce, SlotsFilled, InOrder, Used
<1>8. OnlyAskersWait'
  BY <1>2 DEF OnlyAskersWait, Idle, BusTypeOK, Requesters, Reviewer, Slots
<1>9. AskerIsRegistered' /\ AskerHasLeave'
  BY <1>2, <1>3 DEF AskerIsRegistered, AskerHasLeave, Begun
<1>10. NoStranger'
  BY <1>2 DEF NoStranger, BusTypeOK, RequestIds
<1>11. BatchHasLeave'
  BY <1>2 DEF BatchHasLeave, NoAnswer
<1>12. \A s \in items : calls[s].phase = "queued"
  BY <1>1, <1>3 DEF Begun, Used, GatewayTypeOK, Call
<1>13. ReviewHasLeave'
  BY <1>1, <1>2, <1>12 DEF ReviewHasLeave, NoAnswer
<1> QED
  BY <1>4, <1>6, <1>7, <1>8, <1>9, <1>10, <1>11, <1>13

(* The user answers the screen: what is approved has leave. *)
LEMMA ReviewAnswered ==
  ASSUME TurnInv, AnswerReview, UNCHANGED loopVars
  PROVE  TurnInv'
<1> USE BusAssumption, GatewayAssumption DEF TurnInv
<1>1. /\ prompt[Reviewer]
      /\ prompt' = [prompt EXCEPT ![Reviewer] = FALSE]
      /\ UNCHANGED <<pending, calls, batch, preview, grants>>
      /\ phase' = phase
  BY DEF AnswerReview, Resolve, loopVars
<1>2. phase = "reviewing"
  BY <1>1 DEF OnlyAskersWait, Idle
<1>3. \A s \in Slots : calls[s].phase \notin Begun
  BY <1>2 DEF InOrder
<1>4. BusTypeOK'
  <2>1. \E d \in Decisions : Resolve(Reviewer, BatchId, d)
    BY DEF AnswerReview, Decisions
  <2> QED
    BY <2>1, BusTypes DEF Requesters, RequestIds
<1>5. ASSUME review' = review, leave' = leave
      PROVE  GatewayTypeOK' /\ BatchHasLeave' /\ ReviewHasLeave'
  <2>1. GatewayTypeOK'
    BY <1>1, <1>5 DEF GatewayTypeOK, AnswerReview
  <2>2. BatchHasLeave' /\ ReviewHasLeave'
    BY <1>1, <1>2, <1>3, <1>5 DEF BatchHasLeave, ReviewHasLeave, Begun, BusTypeOK, Requesters
  <2> QED
    BY <2>1, <2>2
<1>6. ASSUME NEW yes \in SUBSET review.items,
             review' = [review EXCEPT !.yes = yes],
             leave' = [x \in Acts \X Versions |->
               leave[x] + Cardinality({s \in yes : x = <<calls[s].act, review.shown[s]>>})]
      PROVE  GatewayTypeOK' /\ BatchHasLeave' /\ ReviewHasLeave'
  <2>1. /\ review \in [items : SUBSET Slots, shown : [Slots -> Versions], yes : SUBSET Slots]
        /\ leave \in [Acts \X Versions -> Nat]
    BY DEF GatewayTypeOK
  <2>2. yes \subseteq Slots
    BY <2>1
  <2>3. \A x \in Acts \X Versions :
          Cardinality({s \in yes : x = <<calls[s].act, review.shown[s]>>}) \in Nat
    BY <2>2, SlotsFinite
  <2>4. leave' \in [Acts \X Versions -> Nat]
    BY <1>6, <2>1, <2>3
  <2>5. GatewayTypeOK'
    BY <1>1, <1>6, <2>1, <2>2, <2>4 DEF GatewayTypeOK, AnswerReview
  <2>6. BatchHasLeave'
    BY <1>1, <1>2 DEF BatchHasLeave, ReviewHasLeave, NoAnswer
  <2>7. ASSUME NEW s \in yes
        PROVE  leave'[<<calls[s].act, review.shown[s]>>] > 0
    <3> DEFINE x == <<calls[s].act, review.shown[s]>>
               S == {t \in yes : x = <<calls[t].act, review.shown[t]>>}
    <3>1. s \in S /\ S \in SUBSET Slots /\ s \in Slots
      BY <2>2
    <3>2. Cardinality(S) \in Nat /\ Cardinality(S) # 0
      <4>1. IsFiniteSet(S)
        BY <3>1, FS_Interval, FS_Subset DEF Slots
      <4> QED
        BY <3>1, <4>1, SlotsFinite, FS_EmptySet
    <3>3. x \in Acts \X Versions
      BY <1>2, <2>1, <3>1 DEF ReviewHasLeave, SlotsFilled, Used
    <3>4. leave'[x] = leave[x] + Cardinality(S)
      BY <1>6, <3>3
    <3> QED
      BY <2>1, <3>2, <3>3, <3>4
  <2>8. ReviewHasLeave'
    BY <1>1, <1>2, <1>6, <2>1, <2>7 DEF ReviewHasLeave, BusTypeOK, Requesters
  <2> QED
    BY <2>5, <2>6, <2>8
<1>7. GatewayTypeOK' /\ BatchHasLeave' /\ ReviewHasLeave'
  BY <1>5, <1>6 DEF AnswerReview
<1>8. EveryCallRecordedOnce' /\ SlotsFilled' /\ InOrder' /\ NoStranger'
  BY <1>1, <1>3 DEF EveryCallRecordedOnce, SlotsFilled, InOrder, NoStranger, Used, AllConcurrent, UsedSlots
<1>9. OnlyAskersWait'
  BY <1>1, <1>2, <1>3 DEF OnlyAskersWait, AnswerReview, Resolve, NoStranger, Idle, Begun,
                          BusTypeOK, Requesters, RequestIds, Reviewer, Slots
<1>10. AskerIsRegistered' /\ AskerHasLeave'
  BY <1>1, <1>3 DEF AskerIsRegistered, AskerHasLeave, Begun
<1> QED
  BY <1>4, <1>7, <1>8, <1>9, <1>10

(* The answers of the screen become batch answers, one act each. *)
LEMMA ReviewTaken ==
  ASSUME TurnInv, EndReview
  PROVE  TurnInv'
<1> USE BusAssumption, GatewayAssumption DEF TurnInv
<1>1. /\ phase = "reviewing" /\ phase' = "calling"
      /\ Collect(Reviewer, BatchId)
      /\ review' = NoReview
      /\ UNCHANGED <<calls, preview, grants, leave, aborted>>
  BY DEF EndReview, TakeReview
<1>2. /\ pending' = [pending EXCEPT ![BatchId] = Nobody]
      /\ future' = [future EXCEPT ![Reviewer] = "none"]
      /\ prompt' = prompt /\ ~ prompt[Reviewer]
  BY <1>1 DEF Collect, Answered
<1>3. \A s \in Slots : calls[s].phase \notin Begun
  BY <1>1 DEF InOrder
<1>4. BusTypeOK'
  BY <1>1, BusTypes DEF Requesters, RequestIds
<1>5. \A i \in CallIds : batch[i] = NoAnswer
  BY <1>1 DEF ReviewHasLeave
<1>6. ASSUME NEW i \in CallIds
      PROVE  \/ batch'[i] = NoAnswer
             \/ \E s \in review.items :
                  /\ s \in Slots
                  /\ calls[s].id = i
                  /\ batch'[i] = [decision |-> IF s \in review.yes THEN "approve" ELSE "reject",
                                 act |-> calls[s].act, shown |-> review.shown[s]]
  <2>1. CASE \E s \in Slots : LastItem(i, s)
    <3>1. PICK s \in Slots : s = CHOOSE t \in Slots : LastItem(i, t)
      BY <2>1
    <3>2. LastItem(i, s)
      BY <2>1, <3>1
    <3>3. batch'[i] = [decision |-> IF s \in review.yes THEN "approve" ELSE "reject",
                      act |-> calls[s].act, shown |-> review.shown[s]]
      BY <2>1, <3>1 DEF EndReview, TakeReview
    <3> QED
      BY <3>2, <3>3 DEF LastItem
  <2>2. CASE ~ \E s \in Slots : LastItem(i, s)
    BY <1>5, <2>2 DEF EndReview, TakeReview
  <2> QED
    BY <2>1, <2>2
<1>7. \A s \in review.items : s \in Slots => calls[s].act \in Acts /\ review.shown[s] \in Versions
  BY <1>1 DEF ReviewHasLeave, SlotsFilled, Used, GatewayTypeOK
<1>8. ASSUME NEW i \in CallIds
      PROVE  batch'[i] \in BatchAnswer
  <2>1. NoAnswer \in BatchAnswer
    BY DEF NoAnswer, BatchAnswer, Versions
  <2>2. ASSUME NEW s \in review.items, s \in Slots,
               batch'[i] = [decision |-> IF s \in review.yes THEN "approve" ELSE "reject",
                           act |-> calls[s].act, shown |-> review.shown[s]]
        PROVE  batch'[i] \in BatchAnswer
    <3>1. (IF s \in review.yes THEN "approve" ELSE "reject") \in {"none", "approve", "reject"}
      OBVIOUS
    <3> QED
      BY <1>7, <2>2, <3>1 DEF BatchAnswer
  <2> QED
    BY <1>6, <2>1, <2>2
<1>9. GatewayTypeOK'
  <2>1. batch' \in [CallIds -> BatchAnswer]
    BY <1>8 DEF EndReview, TakeReview
  <2> QED
    BY <1>1, <2>1 DEF GatewayTypeOK, NoReview, Versions
<1>10. EveryCallRecordedOnce' /\ SlotsFilled' /\ InOrder'
  BY <1>1, <1>3 DEF EveryCallRecordedOnce, SlotsFilled, InOrder, Used, AllConcurrent, UsedSlots
<1>11. OnlyAskersWait'
  BY <1>1, <1>2, <1>3 DEF OnlyAskersWait, Idle, Begun, BusTypeOK, Requesters, Reviewer, Slots
<1>12. AskerIsRegistered' /\ AskerHasLeave' /\ ReviewHasLeave'
  BY <1>1, <1>3 DEF AskerIsRegistered, AskerHasLeave, ReviewHasLeave, Begun
<1>13. NoStranger'
  BY <1>1, <1>2, <1>3 DEF NoStranger, BusTypeOK, RequestIds, Begun
<1>14. ASSUME NEW i \in CallIds, batch'[i].decision = "approve"
       PROVE  \E s \in review.yes : /\ s \in Slots /\ calls[s].id = i
                                    /\ batch'[i].act = calls[s].act
                                    /\ batch'[i].shown = review.shown[s]
  <2>1. batch'[i] # NoAnswer
    BY <1>14 DEF NoAnswer
  <2>2. PICK s \in review.items :
          /\ s \in Slots
          /\ calls[s].id = i
          /\ batch'[i] = [decision |-> IF s \in review.yes THEN "approve" ELSE "reject",
                         act |-> calls[s].act, shown |-> review.shown[s]]
    BY <1>6, <2>1
  <2>3. s \in review.yes
    BY <1>14, <2>2
  <2> QED
    BY <2>2, <2>3
<1>15. \A i \in CallIds : batch'[i].decision = "approve" =>
          /\ batch'[i].act \in Acts
          /\ leave[<<batch'[i].act, batch'[i].shown>>] > 0
  BY <1>1, <1>7, <1>14 DEF ReviewHasLeave
<1>16. ASSUME NEW i \in CallIds, batch'[i].decision = "approve",
              NEW j \in CallIds, batch'[j].decision = "approve",
              batch'[j].act = batch'[i].act
       PROVE  j = i
  <2>1. PICK s \in review.yes : calls[s].id = i /\ batch'[i].act = calls[s].act
    BY <1>14, <1>16
  <2>2. PICK t \in review.yes : calls[t].id = j /\ batch'[j].act = calls[t].act
    BY <1>14, <1>16
  <2>3. s = t
    BY <1>1, <1>16, <2>1, <2>2 DEF ReviewHasLeave
  <2> QED
    BY <2>1, <2>2, <2>3
<1>17. BatchHasLeave'
  BY <1>1, <1>3, <1>15, <1>16 DEF BatchHasLeave, Begun
<1> QED
  BY <1>4, <1>9, <1>10, <1>11, <1>12, <1>13, <1>17

-----------------------------------------------------------------------------
(* The invariant holds in the first state and after every step. *)

LEMMA InitTurnInv == Init => TurnInv
<1> SUFFICES ASSUME Init PROVE TurnInv
  OBVIOUS
<1>1. BusTypeOK /\ GatewayTypeOK
  BY InitTypes DEF TypesOK
<1>2. \A s \in Slots : calls[s].phase = "unused" /\ calls[s].records = 0
  BY DEF Init, GatewayInit, NoCall
<1>3. EveryCallRecordedOnce /\ SlotsFilled /\ InOrder /\ AskerIsRegistered /\ AskerHasLeave
  BY <1>2 DEF EveryCallRecordedOnce, SlotsFilled, InOrder, Used, Begun, AskerIsRegistered, AskerHasLeave
<1>4. OnlyAskersWait /\ NoStranger
  BY BusAssumption DEF Init, BusInit, OnlyAskersWait, NoStranger, Idle, Requesters, RequestIds, Slots
<1>5. BatchHasLeave /\ ReviewHasLeave
  BY DEF Init, GatewayInit, BatchHasLeave, ReviewHasLeave, NoAnswer
<1> QED
  BY <1>1, <1>3, <1>4, <1>5 DEF TurnInv

LEMMA NextTurnInv ==
  ASSUME SequentialAsks, TurnInv, [Next]_vars
  PROVE  TurnInv'
<1>1. CASE BeginTurn \/ ModelAnswers \/ StopAtLimit \/ StepDone \/ SkipReview
  BY <1>1, LoopSteps
<1>2. CASE ModelCalls
  BY <1>2, CallsStep
<1>3. CASE BeginReview \/ EndReview
  BY <1>3, ReviewOpens, ReviewTaken
<1>4. CASE \E s \in Slots : Enter(s) \/ Continue(s)
  BY <1>4, CallSteps
<1>5. CASE User
  BY <1>5, AnswerStep, ReviewAnswered DEF User
<1>6. CASE PromptFails \/ OtherEdits
  BY <1>6, OutsideSteps
<1>7. CASE UNCHANGED vars
  <2>1. BusTypeOK' /\ GatewayTypeOK' /\ EveryCallRecordedOnce' /\ SlotsFilled'
    BY <1>7 DEF vars, busVars, gatewayVars, TurnInv, BusTypeOK, GatewayTypeOK, EveryCallRecordedOnce,
                SlotsFilled, Used
  <2>2. OnlyAskersWait' /\ InOrder' /\ AskerIsRegistered' /\ NoStranger'
    BY <1>7 DEF vars, busVars, gatewayVars, loopVars, TurnInv, OnlyAskersWait, Idle, InOrder, Used,
                AllConcurrent, UsedSlots, AskerIsRegistered, NoStranger
  <2>3. AskerHasLeave' /\ BatchHasLeave' /\ ReviewHasLeave'
    BY <1>7 DEF vars, busVars, gatewayVars, loopVars, TurnInv, AskerHasLeave, BatchHasLeave, Yes,
                ReviewHasLeave
  <2> QED
    BY <2>1, <2>2, <2>3 DEF TurnInv
<1> QED
  BY <1>1, <1>2, <1>3, <1>4, <1>5, <1>6, <1>7 DEF Next, Program

(* When no act the policy asks about is concurrent, the turn's invariant   *)
(* holds in every behaviour.                                               *)
THEOREM InvariantTurnInv ==
  ASSUME SequentialAsks
  PROVE  Spec => []TurnInv
<1>1. Init => TurnInv
  BY InitTurnInv
<1>2. TurnInv /\ [Next]_vars => TurnInv'
  BY NextTurnInv
<1> QED
  BY <1>1, <1>2, PTL DEF Spec

(* agent_loop.py: "the gateway's approval flow is sequential by design":   *)
(* one prompt at a time.                                                   *)
THEOREM OnePromptTheorem ==
  ASSUME SequentialAsks
  PROVE  Spec => []OnePromptAtATime
<1>1. ASSUME TurnInv PROVE OnePromptAtATime
  <2> SUFFICES ASSUME NEW r \in Requesters, NEW q \in Requesters, prompt[r], prompt[q]
               PROVE  r = q
    BY DEF OnePromptAtATime
  <2>1. r \in Slots => calls[r].phase = "asking"
    BY <1>1 DEF TurnInv, OnlyAskersWait, Idle
  <2>2. q \in Slots => calls[q].phase = "asking"
    BY <1>1 DEF TurnInv, OnlyAskersWait, Idle
  <2>3. r = Reviewer \/ q = Reviewer => phase = "reviewing"
    BY <1>1 DEF TurnInv, OnlyAskersWait, Idle
  <2>4. r \in Slots \/ q \in Slots => phase = "calling"
    BY <1>1, <2>1, <2>2, AskerAlone
  <2>5. r \in Slots /\ q \in Slots => r = q
    BY <1>1, <2>1, <2>2, AskerAlone
  <2> QED
    BY <2>3, <2>4, <2>5 DEF Requesters
<1> QED
  BY <1>1, InvariantTurnInv, PTL

(* bus.py request_approval: the future of a call is gone when the call is, *)
(* so no later call with its id finds an answer that is not its own.       *)
THEOREM NoStrayFutureTheorem ==
  ASSUME SequentialAsks
  PROVE  Spec => []NoStrayFuture
<1>1. ASSUME TurnInv PROVE NoStrayFuture
  <2> SUFFICES ASSUME phase \in {"over", "model"}
               PROVE  /\ \A i \in RequestIds : pending[i] = Nobody
                      /\ \A r \in Requesters : ~ prompt[r] /\ future[r] = "none"
    BY DEF NoStrayFuture
  <2>1. \A s \in Slots : calls[s].phase # "asking"
    BY <1>1 DEF TurnInv, InOrder, Begun
  <2>2. \A i \in RequestIds : pending[i] = Nobody
    BY <1>1, <2>1 DEF TurnInv, NoStranger, RequestIds
  <2>3. \A r \in Requesters : ~ prompt[r] /\ future[r] = "none"
    BY <1>1, <2>1 DEF TurnInv, OnlyAskersWait, Idle, Requesters
  <2> QED
    BY <2>2, <2>3
<1> QED
  BY <1>1, InvariantTurnInv, PTL

(* What starts in a step: a call the policy allows, or one whose yes the   *)
(* step uses.                                                              *)
LEMMA StartHasLeave ==
  ASSUME TurnInv, NEW s \in Slots, Starts(s), Next
  PROVE  /\ calls'[s].act \notin Denied
         /\ MustAsk(calls'[s].act) => leave[<<calls'[s].act, calls'[s].shown>>] > 0
<1> USE GatewayAssumption DEF TurnInv
<1>1. calls \in [Slots -> Call] /\ preview \in [Acts -> Versions]
  BY DEF GatewayTypeOK
<1>2. Allow(s) \/ ApprovedInReview(s) \/ TakeApproval(s)
  <2>1. calls' # calls
    BY DEF Starts
  <2>2. CASE BeginTurn \/ StepDone
    BY <2>2 DEF BeginTurn, StepDone, Starts, NoCall
  <2>3. CASE ModelCalls
    BY <2>3, FreshCalls DEF Starts
  <2>4. CASE \/ ModelAnswers \/ StopAtLimit \/ SkipReview \/ BeginReview \/ EndReview
             \/ User \/ PromptFails \/ OtherEdits
    BY <2>1, <2>4 DEF ModelAnswers, StopAtLimit, SkipReview, BeginReview, EndReview, TakeReview, User,
                      Answer, AnswerReview, PromptFails, OtherEdits, EditOutside, gatewayVars
  <2>5. ASSUME NEW t \in Slots, Enter(t) \/ Continue(t)
        PROVE  Allow(s) \/ ApprovedInReview(s) \/ TakeApproval(s)
    <3>1. \A result \in Results : ~ Done(t, result)
      BY <1>1, DoneEffect DEF Starts
    <3>2. ~ Refuse(t) /\ ~ Deny(t) /\ ~ RejectedInReview(t) /\ ~ TakeRefusal(t) /\ ~ Finish(t)
      BY <3>1 DEF Refuse, Deny, RejectedInReview, TakeRefusal, Finish, Results
    <3>3. ~ Ask(t)
      BY <1>1, AskEffect DEF Starts, Ask, SlotsFilled, Used
    <3>4. ~ TakeEdit(t)
      BY <1>1, EditEffect DEF Starts
    <3>5. CASE Allow(t) \/ ApprovedInReview(t)
      <4>1. t = s
        BY <1>1, <3>5, RunEffect DEF Starts, Allow, ApprovedInReview, SlotsFilled, Used
      <4> QED
        BY <3>5, <4>1
    <3>6. CASE TakeApproval(t)
      <4>1. t = s
        BY <1>1, <3>6, ApprovalEffect DEF Starts
      <4> QED
        BY <3>6, <4>1
    <3> QED
      BY <2>5, <3>2, <3>3, <3>4, <3>5, <3>6 DEF Enter, Continue
  <2> QED
    BY <2>2, <2>3, <2>4, <2>5 DEF Next, Program
<1>3. CASE Allow(s)
  BY <1>1, <1>3, RunEffect DEF Allow, SlotsFilled, Used
<1>4. CASE ApprovedInReview(s)
  <2>1. /\ calls[s].id \in CallIds
        /\ batch[calls[s].id].decision = "approve"
        /\ batch[calls[s].id].act = calls[s].act
        /\ batch[calls[s].id].shown = preview[calls[s].act]
    BY <1>4 DEF ApprovedInReview, BatchAnswerFor, SlotsFilled, Used
  <2>2. leave[<<calls[s].act, preview[calls[s].act]>>] > 0
    BY <2>1 DEF BatchHasLeave
  <2>3. calls'[s].act = calls[s].act /\ calls'[s].shown = preview[calls[s].act]
    BY <1>1, <1>4, RunEffect DEF ApprovedInReview, SlotsFilled, Used
  <2> QED
    BY <1>4, <2>2, <2>3 DEF ApprovedInReview, MustAsk
<1>5. CASE TakeApproval(s)
  <2>1. calls[s].act \in Asked /\ leave[<<calls[s].act, calls[s].shown>>] > 0
    BY <1>5 DEF TakeApproval, AskerIsRegistered, AskerHasLeave, Yes
  <2> QED
    BY <1>1, <1>5, <2>1, ApprovalEffect
<1> QED
  BY <1>2, <1>3, <1>4, <1>5

(* gateway.py call(): nothing the policy denies ever starts, and nothing   *)
(* it asks about starts without a yes to this act with this preview that   *)
(* no other call has used.                                                 *)
THEOREM LeaveTheorem ==
  ASSUME SequentialAsks
  PROVE  Spec => RunsOnlyWithLeave
<1>1. ASSUME TurnInv, [Next]_vars
      PROVE  [\A s \in Slots : Starts(s) =>
                LET a == calls'[s].act
                IN  /\ a \notin Denied
                    /\ MustAsk(a) => leave[<<a, calls'[s].shown>>] > 0]_vars
  BY <1>1, StartHasLeave
<1> QED
  BY <1>1, InvariantTurnInv, PTL DEF Spec, RunsOnlyWithLeave

-----------------------------------------------------------------------------
(* The audit record needs no assumption about what may run together.       *)

Recorded ==
  /\ calls \in [Slots -> Call]
  /\ preview \in [Acts -> Versions]
  /\ SlotsFilled
  /\ EveryCallRecordedOnce

LEMMA RecordedKept ==
  ASSUME Recorded, [Next]_vars
  PROVE  Recorded'
<1> USE GatewayAssumption DEF Recorded
<1>1. CASE calls' = calls /\ preview' \in [Acts -> Versions]
  BY <1>1 DEF SlotsFilled, Used, EveryCallRecordedOnce
<1>2. CASE BeginTurn \/ StepDone
  BY <1>2, NoCallType DEF BeginTurn, StepDone, SlotsFilled, Used, EveryCallRecordedOnce, NoCall
<1>3. CASE ModelCalls
  BY <1>3, FreshCalls DEF ModelCalls, SlotsFilled, Used, EveryCallRecordedOnce
<1>4. ASSUME NEW s \in Slots, Used(s), Moves(s), preview' \in [Acts -> Versions],
             calls'[s].phase # "unused"
      PROVE  Recorded'
  BY <1>4 DEF Moves, SameTool, SlotsFilled, Used, EveryCallRecordedOnce
<1>5. ASSUME NEW s \in Slots, Enter(s) \/ Continue(s)
      PROVE  Recorded'
  <2>1. calls[s] \in Call /\ Used(s) /\ calls[s].phase # "done" /\ calls[s].records = 0
    BY <1>5 DEF Enter, Continue, Refuse, Deny, Allow, ApprovedInReview, RejectedInReview, Ask,
                TakeApproval, TakeRefusal, TakeEdit, Finish, Used, EveryCallRecordedOnce
  <2>2. calls[s].act \in Acts /\ calls[s].act \in SameTool(calls[s].act)
    BY <2>1 DEF SlotsFilled, SameTool
  <2>3. preview' \in [Acts -> Versions]
    BY <1>5 DEF Enter, Continue, Refuse, Deny, Allow, ApprovedInReview, RejectedInReview, Ask,
                TakeApproval, TakeRefusal, TakeEdit, Finish, Versions
  <2>4. CASE \E result \in Results : Done(s, result)
    BY <1>4, <2>1, <2>2, <2>3, <2>4, DoneEffect DEF Moves
  <2>5. CASE Run(s)
    BY <1>4, <2>1, <2>2, <2>3, <2>5, RunEffect DEF Moves
  <2>6. CASE Ask(s)
    BY <1>4, <2>1, <2>2, <2>3, <2>6, AskEffect DEF Moves
  <2>7. CASE TakeApproval(s)
    BY <1>4, <2>1, <2>2, <2>3, <2>7, ApprovalEffect DEF Moves
  <2>8. CASE TakeEdit(s)
    BY <1>4, <2>1, <2>2, <2>3, <2>8, EditEffect DEF Moves
  <2> QED
    BY <1>5, <2>4, <2>5, <2>6, <2>7, <2>8
       DEF Enter, Continue, Refuse, Deny, Allow, ApprovedInReview, RejectedInReview, TakeRefusal,
           Finish, Results
<1>6. CASE \/ ModelAnswers \/ StopAtLimit \/ SkipReview \/ BeginReview \/ EndReview
           \/ User \/ PromptFails \/ OtherEdits \/ UNCHANGED vars
  <2>1. calls' = calls
    BY <1>6 DEF ModelAnswers, StopAtLimit, SkipReview, BeginReview, EndReview, TakeReview, User,
                Answer, AnswerReview, PromptFails, OtherEdits, EditOutside, gatewayVars, vars
  <2>2. preview' = preview \/ \E a \in Writes : preview' = [preview EXCEPT ![a] = 1 - @]
    BY <1>6 DEF ModelAnswers, StopAtLimit, SkipReview, BeginReview, EndReview, TakeReview, User,
                Answer, AnswerReview, PromptFails, OtherEdits, EditOutside, gatewayVars, vars
  <2>3. preview' \in [Acts -> Versions]
    BY <2>2 DEF Versions
  <2> QED
    BY <1>1, <2>1, <2>3
<1> QED
  BY <1>2, <1>3, <1>5, <1>6 DEF Next, Program

(* gateway.py _record: "Every terminal state is recorded", once, whoever   *)
(* runs beside it and however often its arguments were edited.             *)
THEOREM RecordTheorem == Spec => []EveryCallRecordedOnce
<1>1. Init => Recorded
  BY NoCallType DEF Init, GatewayInit, Recorded, SlotsFilled, Used, EveryCallRecordedOnce, NoCall, Versions
<1>2. Recorded /\ [Next]_vars => Recorded'
  BY RecordedKept
<1>3. Recorded => EveryCallRecordedOnce
  BY DEF Recorded
<1> QED
  BY <1>1, <1>2, <1>3, PTL DEF Spec

-----------------------------------------------------------------------------
(* ApprovedExecution: each step of the loop, the gateway and the user is    *)
(* one of its steps or leaves its three variables as they are.             *)

(* What is on record of a message's calls, as ApprovedExecution has it.    *)
Book == [s \in Slots |-> Outline(s)]

LEMMA BetweenKept ==
  ASSUME TurnInv, NoCallBetween, [Next]_vars
  PROVE  NoCallBetween'
<1>1. CASE BeginTurn \/ StepDone
  BY <1>1 DEF BeginTurn, StepDone, NoCallBetween
<1>2. CASE \/ ModelAnswers \/ StopAtLimit \/ BeginReview \/ EndReview \/ SkipReview \/ ModelCalls
           \/ PromptFails \/ OtherEdits \/ User \/ UNCHANGED vars
  BY <1>2 DEF ModelAnswers, StopAtLimit, End, BeginReview, EndReview, TakeReview, SkipReview, ModelCalls,
              PromptFails, OtherEdits, EditOutside, User, Answer, AnswerReview, vars, gatewayVars,
              loopVars, NoCallBetween
<1>3. ASSUME NEW s \in Slots, Enter(s) \/ Continue(s)
      PROVE  NoCallBetween'
  <2>1. phase' = phase
    BY <1>3 DEF Enter, Continue, loopVars
  <2>2. CASE MyTurn(s)
    BY <2>1, <2>2 DEF MyTurn, NoCallBetween
  <2>3. CASE calls[s].phase \in {"asking", "running"}
    BY <2>1, <2>3 DEF TurnInv, InOrder, Begun, NoCallBetween
  <2> QED
    BY <1>3, <2>2, <2>3 DEF Enter, Continue, TakeApproval, TakeRefusal, TakeEdit, Finish
<1> QED
  BY <1>1, <1>2, <1>3 DEF Next, Program

(* The call in one slot moves: the book changes in that slot.              *)
LEMMA OneLine ==
  ASSUME NEW s \in Slots, Moves(s)
  PROVE  Book' = [Book EXCEPT ![s] = Outline(s)']
<1>1. ASSUME NEW t \in Slots \ {s}
      PROVE  Outline(t)' = Outline(t)
  BY DEF Moves, Outline, Stage
<1> HIDE DEF Moves
<1> QED
  BY <1>1 DEF Book

(* The outline of a call is a line of the book. *)
LEMMA Outlines ==
  ASSUME NEW s \in Slots, calls[s] \in Call, Used(s)
  PROVE  Outline(s) = Abstract!Line(calls[s].act,
                        IF calls[s].phase \in {"queued", "asking"} THEN "proposed" ELSE calls[s].phase,
                        IF calls[s].phase = "running" THEN calls[s].shown ELSE 0, calls[s].records)
BY DEF Outline, Stage, Call, Used, Abstract!Line

LEMMA OutlinesNext ==
  ASSUME NEW s \in Slots, calls'[s] \in Call, Used(s)'
  PROVE  Outline(s)' = Abstract!Line(calls'[s].act,
                         IF calls'[s].phase \in {"queued", "asking"} THEN "proposed" ELSE calls'[s].phase,
                         IF calls'[s].phase = "running" THEN calls'[s].shown ELSE 0, calls'[s].records)
BY DEF Outline, Stage, Call, Used, Abstract!Line

(* What is known of a call that moves. *)
LEMMA Moving ==
  ASSUME TurnInv, NEW s \in Slots, Moves(s), calls[s].phase \in {"queued", "asking", "running"},
         calls'[s].phase # "unused"
  PROVE  /\ calls[s] \in Call /\ calls'[s] \in Call /\ Used(s) /\ Used(s)'
         /\ Book[s] = Outline(s) /\ Book' = [Book EXCEPT ![s] = Outline(s)']
         /\ Book[s].act = calls[s].act /\ Book[s].records = 0
         /\ Book[s].stage = IF calls[s].phase = "running" THEN "running" ELSE "proposed"
<1>1. calls[s] \in Call /\ calls'[s] \in Call /\ Used(s) /\ Used(s)'
  BY DEF TurnInv, GatewayTypeOK, Moves, Used
<1>2. calls[s].records = 0
  BY DEF TurnInv, EveryCallRecordedOnce
<1>3. Book[s] = Outline(s)
  BY DEF Book
<1>4. Book' = [Book EXCEPT ![s] = Outline(s)']
  BY OneLine
<1>5. /\ Outline(s).act = calls[s].act /\ Outline(s).records = 0
      /\ Outline(s).stage = IF calls[s].phase = "running" THEN "running" ELSE "proposed"
  BY <1>1, <1>2, Outlines DEF Abstract!Line
<1> QED
  BY <1>1, <1>3, <1>4, <1>5, Zenon

LEMMA Finishes ==
  ASSUME TurnInv, NEW s \in Slots, calls[s].phase \in {"queued", "asking", "running"}, Moves(s),
         calls'[s].phase = "done", calls'[s].act = calls[s].act, UNCHANGED <<leave, grants>>
  PROVE  Abstract!Finish(s)
<1>1. /\ Book[s].stage \in {"proposed", "running"} /\ Book[s].act = calls[s].act
      /\ Book[s].records = 0 /\ Book' = [Book EXCEPT ![s] = Outline(s)']
  BY Moving
<1>2. Outline(s)' = Abstract!Line(calls[s].act, "done", 0, 0 + 1)
  BY Moving, OutlinesNext DEF Moves
<1>3. Book' = [Book EXCEPT ![s] = Abstract!Line(@.act, "done", 0, @.records + 1)]
  BY <1>1, <1>2, Zenon
<1> QED
  BY <1>1, <1>3, Zenon DEF Abstract!Finish, Book

LEMMA Starting ==
  ASSUME TurnInv, NEW s \in Slots, calls[s].phase \in {"queued", "asking"}, Moves(s),
         calls'[s].phase = "running", calls'[s].act = calls[s].act, calls[s].act \notin Denied,
         MyTurn(s) \/ calls[s].phase = "asking",
         Abstract!Licensed(calls[s].act, calls'[s].shown)
  PROVE  Abstract!Start(s)
<1> PICK v : v = calls'[s].shown
  OBVIOUS
<1>1. /\ Book[s].stage = "proposed" /\ Book[s].act = calls[s].act
      /\ Book' = [Book EXCEPT ![s] = Outline(s)'] /\ v \in Versions
  BY Moving DEF Call
<1>2. Outline(s)' = Abstract!Line(calls[s].act, "running", v, 0)
  BY Moving, OutlinesNext DEF Moves
<1>3. Book' = [Book EXCEPT ![s] = Abstract!Line(@.act, "running", v, 0)]
  BY <1>1, <1>2, Zenon
<1>4. ASSUME NEW t \in Slots, Book[t].stage = "running"
      PROVE  {calls[s].act, Book[t].act} \subseteq Concurrent
  <2>1. calls[t] \in Call /\ Book[t] = Outline(t)
    BY DEF Book, TurnInv, GatewayTypeOK
  <2>2. calls[t].phase = "running" /\ Book[t].act = calls[t].act
    BY <1>4, <2>1 DEF Outline, Stage, Call
  <2>3. s # t /\ Used(t) /\ Used(s)
    BY <2>2 DEF Used
  <2>4. AllConcurrent
    BY <2>2, <2>3 DEF TurnInv, InOrder, Begun, MyTurn, Used, UsedSlots, Slots
  <2> QED
    BY <2>2, <2>3, <2>4 DEF AllConcurrent, UsedSlots
<1>5. Abstract!Licensed(Book[s].act, v)
  BY <1>1 DEF Abstract!Licensed
<1> QED
  BY <1>1, <1>3, <1>4, <1>5, Zenon DEF Abstract!Start, Book

LEMMA Amends ==
  ASSUME TurnInv, NEW s \in Slots, calls[s].phase = "asking", Moves(s),
         calls'[s].phase = "queued", UNCHANGED <<leave, grants>>
  PROVE  Abstract!Amend(s)
<1> PICK a : a = calls'[s].act
  OBVIOUS
<1>1. /\ Book[s].stage = "proposed" /\ Book[s].act = calls[s].act
      /\ Book' = [Book EXCEPT ![s] = Outline(s)']
  BY Moving
<1>2. Outline(s)' = Abstract!Proposal(a)
  BY Moving, OutlinesNext DEF Moves, Abstract!Proposal
<1>3. a \in Acts /\ (a \in Concurrent) = (Book[s].act \in Concurrent)
  BY <1>1 DEF Moves, SameTool
<1>4. Book' = [Book EXCEPT ![s] = Abstract!Proposal(a)]
  BY <1>1, <1>2, Zenon
<1> QED
  BY <1>1, <1>3, <1>4, Zenon DEF Abstract!Amend, Book

LEMMA CountedAlike ==
  ASSUME NEW S
  PROVE  Abstract!Cardinality(S) = Cardinality(S)
BY DEF Cardinality, Abstract!Cardinality

(* A consent is counted where it is given. *)
LEMMA Consents ==
  ASSUME TurnInv, NEW yes \in SUBSET Slots, NEW shown \in [Slots -> Versions],
         \A s \in yes : calls[s].phase \in {"queued", "asking"},
         leave' = [x \in Acts \X Versions |->
                    leave[x] + Cardinality({s \in yes : x = <<calls[s].act, shown[s]>>})],
         UNCHANGED <<calls, grants>>
  PROVE  Abstract!Consent
<1>1. \A s \in Slots : Book[s] = Outline(s) /\ Book[s].act = calls[s].act
  BY DEF Book, Outline
<1>2. yes \in SUBSET {s \in Slots : Book[s].stage = "proposed"}
  <2>1. ASSUME NEW s \in yes
        PROVE  s \in Slots /\ Outline(s).stage = "proposed"
    BY DEF Outline, Stage
  <2> QED
    BY <1>1, <2>1
<1>3. \A x \in Acts \X Versions : {s \in yes : x = <<calls[s].act, shown[s]>>}
                                   = {s \in yes : x = <<Book[s].act, shown[s]>>}
  BY <1>1
<1>4. leave' = [x \in Acts \X Versions |->
                 leave[x] + Cardinality({s \in yes : x = <<Book[s].act, shown[s]>>})]
  BY <1>3
<1>5. Book' = Book
  BY DEF Book, Outline, Stage
<1> HIDE DEF Book
<1>6. \E some \in SUBSET {s \in Slots : Book[s].stage = "proposed"} :
      \E as \in [Slots -> Versions] :
        leave' = [x \in Acts \X Versions |->
          leave[x] + Abstract!Cardinality({s \in some : x = <<Book[s].act, as[s]>>})]
  <2> WITNESS yes \in SUBSET {s \in Slots : Book[s].stage = "proposed"}
  <2> WITNESS shown \in [Slots -> Versions]
  <2> QED
    BY <1>4, CountedAlike
<1> QED
  BY <1>5, <1>6, Zenon DEF Abstract!Consent, Book

LEMMA AnswerConsents ==
  ASSUME TurnInv, NEW s \in Slots, Answer(s)
  PROVE  Abstract!Consent \/ UNCHANGED <<Book, leave, grants>>
<1>1. calls[s].phase = "asking" /\ UNCHANGED <<calls, grants>>
  BY DEF Answer
<1>2. calls[s].act \in Acts /\ calls[s].shown \in Versions /\ leave \in [Acts \X Versions -> Nat]
  BY <1>1 DEF TurnInv, SlotsFilled, GatewayTypeOK, Call, Used
<1>3. UNCHANGED Book
  BY <1>1 DEF Book, Outline, Stage
<1>4. CASE UNCHANGED leave
  BY <1>1, <1>3, <1>4
<1>5. CASE leave' = [leave EXCEPT ![<<calls[s].act, calls[s].shown>>] = @ + 1]
  <2> PICK shown \in [Slots -> Versions] : shown[s] = calls[s].shown
    <3>1. [t \in Slots |-> calls[s].shown] \in [Slots -> Versions]
      BY <1>2
    <3> QED
      BY <3>1
  <2> PICK yes : yes = {s}
    OBVIOUS
  <2> DEFINE at(x) == {t \in yes : x = <<calls[t].act, shown[t]>>}
  <2>1. ASSUME NEW x \in Acts \X Versions
        PROVE  leave'[x] = leave[x] + Cardinality(at(x))
    <3>1. CASE x = <<calls[s].act, calls[s].shown>>
      <4>1. at(x) = {s}
        BY <3>1
      <4> QED
        BY <1>2, <1>5, <3>1, <4>1, FS_Singleton
    <3>2. CASE x # <<calls[s].act, calls[s].shown>>
      <4>1. at(x) = {}
        BY <3>2
      <4>2. leave'[x] = leave[x] /\ leave[x] \in Nat
        BY <1>2, <1>5, <3>2
      <4>3. Cardinality(at(x)) = 0
        BY <4>1, FS_EmptySet
      <4> HIDE DEF at
      <4> QED
        BY <4>2, <4>3
    <3> QED
      BY <3>1, <3>2
  <2>2. leave' = [x \in Acts \X Versions |-> leave'[x]]
    BY <1>2, <1>5
  <2>3. leave' = [x \in Acts \X Versions |-> leave[x] + Cardinality(at(x))]
    BY <2>1, <2>2
  <2>4. yes \in SUBSET Slots /\ \A t \in yes : calls[t].phase \in {"queued", "asking"}
    BY <1>1
  <2> QED
    BY <1>1, <2>3, <2>4, Consents
<1> QED
  BY <1>4, <1>5 DEF Answer

LEMMA ReviewConsents ==
  ASSUME TurnInv, phase = "reviewing", AnswerReview
  PROVE  Abstract!Consent \/ UNCHANGED <<Book, leave, grants>>
<1>1. UNCHANGED <<calls, grants>>
  BY DEF AnswerReview
<1>2. UNCHANGED Book
  BY <1>1 DEF Book, Outline, Stage
<1>3. ASSUME NEW yes \in SUBSET review.items,
             leave' = [x \in Acts \X Versions |->
               leave[x] + Cardinality({s \in yes : x = <<calls[s].act, review.shown[s]>>})]
      PROVE  Abstract!Consent
  <2>1. /\ yes \in SUBSET Slots /\ review.shown \in [Slots -> Versions]
        /\ \A s \in yes : calls[s].phase \in {"queued", "asking"}
    BY DEF TurnInv, ReviewHasLeave, GatewayTypeOK
  <2> QED
    BY <1>1, <1>3, <2>1, Consents
<1> QED
  BY <1>1, <1>2, <1>3 DEF AnswerReview

LEMMA NothingThere ==
  ASSUME NEW s \in Slots, calls[s] = NoCall
  PROVE  Outline(s) = Abstract!Empty
BY DEF Outline, Stage, NoCall, Abstract!Empty, Abstract!Line

LEMMA NothingThereNext ==
  ASSUME NEW s \in Slots, calls'[s] = NoCall
  PROVE  Outline(s)' = Abstract!Empty
BY DEF Outline, Stage, NoCall, Abstract!Empty, Abstract!Line

LEMMA Proposes ==
  ASSUME NoCallBetween, ModelCalls
  PROVE  Abstract!Propose
<1>1. \A s \in Slots : calls[s] = NoCall
  BY DEF NoCallBetween, ModelCalls
<1>2. \A s \in Slots : Book[s] = Abstract!Empty
  BY <1>1, NothingThere DEF Book
<1>3. PICK n \in Slots : \E acts \in [1 .. n -> Acts], ids \in [1 .. n -> CallIds] :
        calls' = [s \in Slots |->
          IF s <= n THEN [NoCall EXCEPT !.id = ids[s], !.act = acts[s], !.phase = "queued"]
          ELSE NoCall]
  BY DEF ModelCalls
<1>4. PICK acts \in [1 .. n -> Acts], ids \in [1 .. n -> CallIds] :
        calls' = [s \in Slots |->
          IF s <= n THEN [NoCall EXCEPT !.id = ids[s], !.act = acts[s], !.phase = "queued"]
          ELSE NoCall]
  BY <1>3
<1>5. ASSUME NEW s \in Slots
      PROVE  Outline(s)' \in {Abstract!Empty} \union {Abstract!Proposal(a) : a \in Acts}
  <2>1. CASE s <= n
    <3>1. acts[s] \in Acts
      BY <2>1 DEF Slots
    <3>2. /\ calls'[s].phase = "queued" /\ calls'[s].act = acts[s] /\ calls'[s].records = 0
      BY <1>4, <2>1 DEF NoCall
    <3>3. Outline(s)' = Abstract!Proposal(acts[s])
      BY <3>2 DEF Outline, Stage, Abstract!Proposal, Abstract!Line
    <3> QED
      BY <3>1, <3>3
  <2>2. CASE ~ s <= n
    BY <1>4, <2>2, NothingThereNext
  <2> QED
    BY <2>1, <2>2
<1>6. Book' \in [Slots -> {Abstract!Empty} \union {Abstract!Proposal(a) : a \in Acts}]
  BY <1>5 DEF Book
<1>7. UNCHANGED <<leave, grants>>
  BY DEF ModelCalls
<1> QED
  BY <1>2, <1>6, <1>7, Zenon DEF Abstract!Propose, Book

LEMMA Clears ==
  ASSUME TurnInv, StepDone
  PROVE  Abstract!Clear
<1>1. ASSUME NEW s \in Slots
      PROVE  Book[s].stage \in {"none", "done"}
  <2>1. calls[s].phase \in {"unused", "done"}
    BY DEF StepDone, UsedSlots, Used
  <2> QED
    BY <2>1 DEF Book, Outline, Stage
<1>2. \A s \in Slots : calls'[s] = NoCall
  BY DEF StepDone
<1>3. Book' = [s \in Slots |-> Abstract!Empty]
  BY <1>2, NothingThereNext DEF Book
<1>4. UNCHANGED <<leave, grants>>
  BY DEF StepDone
<1> QED
  BY <1>1, <1>3, <1>4, Zenon DEF Abstract!Clear, Book

(* A call's own steps. *)
LEMMA CallRefines ==
  ASSUME SequentialAsks, TurnInv, NEW s \in Slots, Enter(s) \/ Continue(s)
  PROVE  Abstract!Next \/ UNCHANGED <<Book, leave, grants>>
<1> USE GatewayAssumption DEF TurnInv
<1>1. calls \in [Slots -> Call] /\ preview \in [Acts -> Versions] /\ calls[s] \in Call
  BY DEF GatewayTypeOK
<1>2. Used(s) => calls[s].act \in Acts /\ calls[s].act \in SameTool(calls[s].act)
  BY DEF SlotsFilled, SameTool
<1>3. calls[s].phase # "done" => calls[s].records = 0
  BY DEF EveryCallRecordedOnce
<1>4. ASSUME NEW result \in Results, calls[s].phase \in {"queued", "asking", "running"},
             Done(s, result), UNCHANGED <<leave, grants>>
      PROVE  Abstract!Finish(s)
  <2>1. Moves(s) /\ calls'[s].phase = "done" /\ calls'[s].act = calls[s].act
    BY <1>1, <1>2, <1>3, <1>4, DoneEffect DEF Moves, Used
  <2> QED
    BY <1>4, <2>1, Finishes
<1>5. ASSUME MyTurn(s), calls[s].phase = "queued", calls[s].act \notin Denied, Run(s),
             Abstract!Licensed(calls[s].act, preview[calls[s].act])
      PROVE  Abstract!Start(s)
  <2>1. /\ Moves(s) /\ calls'[s].phase = "running" /\ calls'[s].act = calls[s].act
        /\ calls'[s].shown = preview[calls[s].act]
    BY <1>1, <1>2, <1>3, <1>5, RunEffect DEF Moves, Used
  <2> QED
    BY <1>5, <2>1, Starting
<1>6. Abstract!Finish(s) \/ Abstract!Start(s) \/ Abstract!Amend(s) => Abstract!Next
  BY DEF Abstract!Next
<1>7. ASSUME \/ Refuse(s) \/ Deny(s) \/ RejectedInReview(s) \/ TakeRefusal(s) \/ Finish(s)
      PROVE  Abstract!Finish(s)
  BY <1>4, <1>7 DEF Refuse, Deny, RejectedInReview, TakeRefusal, Finish, Results
<1>8. ASSUME MyTurn(s), Allow(s)
      PROVE  Abstract!Start(s)
  <2>1. Abstract!Licensed(calls[s].act, preview[calls[s].act])
    BY <1>8 DEF Allow, MustAsk, Abstract!Licensed
  <2> QED
    BY <1>5, <1>8, <2>1 DEF Allow
<1>9. ASSUME MyTurn(s), ApprovedInReview(s)
      PROVE  Abstract!Start(s)
  <2>1. calls[s].act \in Acts /\ calls[s].act \in Asked /\ calls[s].act \notin Denied
    BY <1>2, <1>9 DEF ApprovedInReview, MustAsk, Used
  <2> PICK x : x = <<calls[s].act, preview[calls[s].act]>>
    OBVIOUS
  <2>2. leave[x] > 0
    <3>1. /\ calls[s].id \in CallIds
          /\ batch[calls[s].id].decision = "approve"
          /\ batch[calls[s].id].act = calls[s].act
          /\ batch[calls[s].id].shown = preview[calls[s].act]
      BY <1>9 DEF ApprovedInReview, BatchAnswerFor, SlotsFilled, Used
    <3> QED
      BY <3>1 DEF BatchHasLeave
  <2>3. x \in Acts \X Versions
    BY <1>1, <2>1
  <2>4. leave' = [leave EXCEPT ![x] = @ - 1] /\ grants' = grants
    BY <1>9, <2>2, <2>3 DEF ApprovedInReview, Spend, GatewayTypeOK
  <2>5. Abstract!Licensed(calls[s].act, preview[calls[s].act])
    BY <2>2, <2>4 DEF Abstract!Licensed
  <2> QED
    BY <1>5, <1>9, <2>1, <2>5 DEF ApprovedInReview
<1>10. ASSUME TakeApproval(s)
       PROVE  Abstract!Start(s)
  <2>1. /\ calls[s].phase = "asking" /\ Yes(s) /\ calls[s].act \in Asked
        /\ calls[s].act \in Acts /\ calls[s].act \notin Denied /\ calls[s].shown \in Versions
    BY <1>1, <1>10 DEF TakeApproval, Yes, AskerIsRegistered, Call
  <2> PICK x : x = <<calls[s].act, calls[s].shown>>
    OBVIOUS
  <2>2. leave[x] > 0 /\ x \in Acts \X Versions
    BY <2>1 DEF AskerHasLeave
  <2>3. leave' = [leave EXCEPT ![x] = @ - 1]
    BY <1>10, <2>2 DEF TakeApproval, Spend, GatewayTypeOK
  <2>4. grants' \in {grants, grants \union ({calls[s].act} \ Ungrantable)}
    BY <1>10 DEF TakeApproval
  <2>5. /\ Moves(s) /\ calls'[s].phase = "running" /\ calls'[s].act = calls[s].act
        /\ calls'[s].shown = calls[s].shown
    BY <1>1, <1>2, <1>3, <1>10, <2>1, ApprovalEffect DEF Moves, Used
  <2>6. Abstract!Licensed(calls[s].act, calls'[s].shown)
    BY <2>2, <2>3, <2>4, <2>5 DEF Abstract!Licensed
  <2> QED
    BY <2>1, <2>5, <2>6, Starting
<1>11. ASSUME TakeEdit(s)
       PROVE  Abstract!Amend(s)
  <2>1. Moves(s) /\ calls'[s].phase = "queued"
    BY <1>1, <1>3, <1>11, EditEffect DEF Moves, TakeEdit
  <2> QED
    BY <1>11, <2>1, Amends DEF TakeEdit
<1>12. ASSUME Ask(s)
       PROVE  UNCHANGED <<Book, leave, grants>>
  <2>1. /\ calls[s].phase = "queued" /\ UNCHANGED <<leave, grants>>
        /\ \A t \in Slots \ {s} : calls'[t] = calls[t]
        /\ calls'[s].phase = "asking" /\ calls'[s].act = calls[s].act
        /\ calls'[s].records = calls[s].records
    BY <1>1, <1>2, <1>12, AskEffect DEF Ask, Used
  <2>2. ASSUME NEW t \in Slots
        PROVE  Outline(t)' = Outline(t)
    BY <2>1 DEF Outline, Stage
  <2> QED
    BY <2>1, <2>2 DEF Book
<1> QED
  BY <1>6, <1>7, <1>8, <1>9, <1>10, <1>11, <1>12 DEF Enter, Continue

(* Every step of the loop is a step of ApprovedExecution, or none of its business. *)
LEMMA LoopRefines ==
  ASSUME SequentialAsks, TurnInv, NoCallBetween, [Next]_vars
  PROVE  Abstract!Next \/ UNCHANGED <<Book, leave, grants>>
<1>1. CASE ModelCalls
  BY <1>1, Proposes DEF Abstract!Next
<1>2. CASE StepDone
  BY <1>2, Clears DEF Abstract!Next
<1>3. CASE BeginTurn
  <2>1. calls = [s \in Slots |-> NoCall] /\ calls' = calls
    BY <1>3 DEF BeginTurn, NoCallBetween, TurnInv, GatewayTypeOK
  <2> QED
    BY <1>3, <2>1 DEF BeginTurn, Book, Outline, Stage
<1>4. CASE \E s \in Slots : Enter(s) \/ Continue(s)
  BY <1>4, CallRefines
<1>5. CASE User
  <2>1. CASE \E s \in Slots : Answer(s)
    BY <2>1, AnswerConsents DEF Abstract!Next
  <2>2. CASE AnswerReview
    <3>1. phase = "reviewing"
      BY <2>2 DEF AnswerReview, Resolve, TurnInv, OnlyAskersWait, Idle
    <3> QED
      BY <2>2, <3>1, ReviewConsents DEF Abstract!Next
  <2> QED
    BY <1>5, <2>1, <2>2 DEF User
<1>6. CASE \/ ModelAnswers \/ StopAtLimit \/ SkipReview \/ BeginReview \/ EndReview
           \/ PromptFails \/ OtherEdits \/ UNCHANGED vars
  <2>1. UNCHANGED <<calls, leave, grants>>
    BY <1>6 DEF ModelAnswers, StopAtLimit, SkipReview, BeginReview, EndReview, TakeReview,
                PromptFails, OtherEdits, EditOutside, gatewayVars, vars
  <2> QED
    BY <2>1 DEF Book, Outline, Stage
<1> QED
  BY <1>1, <1>2, <1>3, <1>4, <1>5, <1>6 DEF Next, Program

(* gateway.py call(), agent_loop.py: what the policy asks about runs once for *)
(* each yes to what is shown, only reads run together, what it denies never *)
(* runs, and every call ends once and on record, through every prompt,      *)
(* review, edit and stored answer.                                          *)
THEOREM ApprovedTheorem ==
  ASSUME SequentialAsks
  PROVE  Spec => OnlyApprovedExecution
<1>1. Init => Abstract!Init
  <2> SUFFICES ASSUME Init PROVE Abstract!Init
    OBVIOUS
  <2>1. \A s \in Slots : calls[s] = NoCall
    BY DEF Init, GatewayInit
  <2>2. Book = [s \in Slots |-> Abstract!Empty]
    BY <2>1, NothingThere DEF Book
  <2> QED
    BY <2>2, Zenon DEF Init, GatewayInit, Abstract!Init, Book
<1>2. Init => NoCallBetween
  BY DEF Init, GatewayInit, NoCallBetween
<1>3. TurnInv /\ NoCallBetween /\ [Next]_vars => NoCallBetween'
  BY BetweenKept
<1>4. TurnInv /\ NoCallBetween /\ [Next]_vars => [Abstract!Next]_(Abstract!allVars)
  BY LoopRefines DEF Abstract!allVars, Book
<1> QED
  BY <1>1, <1>2, <1>3, <1>4, InvariantTurnInv, PTL DEF Spec, OnlyApprovedExecution, Abstract!Spec
=============================================================================
