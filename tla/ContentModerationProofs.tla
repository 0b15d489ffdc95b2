------------------------ MODULE ContentModerationProofs ------------------------
(***************************************************************************)
(* Type correctness of ContentModeration, the promises of the deletion     *)
(* notice (it is never false, never missing, and arrives), and that media  *)
(* follow the status, for any number of calls, handlers, holds, notices    *)
(* and storage objects.                                                    *)
(***************************************************************************)
EXTENDS ContentModeration, TLAPS

(* What is completed has a number: the prepared version, or in a recovery  *)
(* that of the outbox document; and only deletions get to their stages.    *)
Numbered ==
    /\ outbox.state # "none" => outbox.version > 0
    /\ \A c \in Calls :
        /\ calls[c].at = "complete" /\ calls[c].action # "recover" => calls[c].version > 0
        /\ calls[c].action = "recover" => outbox.state # "none"
        /\ calls[c].at \in {"prepare", "mark", "strip", "erase"} =>
                calls[c].action \in {"delete", "withdraw"}
        /\ calls[c].at = "purge" => calls[c].action \in {"delete", "withdraw", "recover"}

CallRecord == [at : Stages, action : Actions \cup {"none", "recover"},
               version : 0..MaxNotices, left : SUBSET Variants, alone : BOOLEAN]
HandlerRecord == [at : {"idle", "check", "media"}, version : 0..MaxHolds,
                  left : SUBSET Variants]

LEMMA FreeIsTyped == Free \in CallRecord /\ Waiting \in HandlerRecord
  BY ModerationBounds DEF Free, Waiting, CallRecord, HandlerRecord, Stages

LEMMA InitTyped == Init => TypeOK /\ Numbered
<1> SUFFICES ASSUME Init PROVE TypeOK /\ Numbered
  OBVIOUS
<1>1. calls \in [Calls -> CallRecord] /\ handlers \in [Handlers -> HandlerRecord]
  BY FreeIsTyped DEF Init
<1>2. delivered \subseteq Notices /\ media \in [Variants -> {"public", "withheld", "removed"}]
  BY DEF Init
<1>3. TypeOK
  <2>1. /\ 0 \in 0..MaxNotices /\ 0 \in 0..MaxHolds
        /\ outbox \in [state : {"none", "pending", "ready"}, version : 0..MaxNotices]
    BY ModerationBounds DEF Init
  <2>2. /\ content \in {"active", "held", "deleting", "gone"}
        /\ lastAction \in {"none", "hold", "restore"}
        /\ erasedBy \in {"none", "delete", "withdraw"}
        /\ holdVersion \in 0..MaxHolds /\ holdEvents \subseteq 1..MaxHolds
        /\ eligible \in BOOLEAN /\ disturbed \in BOOLEAN
        /\ signals \subseteq Notices
        /\ alert \in 0..MaxNotices /\ dismissed \in 0..MaxNotices
    BY <2>1 DEF Init
  <2>3. QED
    BY <1>1, <1>2, <2>1, <2>2 DEF TypeOK, CallRecord, HandlerRecord
<1>4. Numbered
  BY DEF Init, Numbered, Free
<1>5. QED
  BY <1>3, <1>4

(* The steps of one call.                                                  *)
LEMMA CallStepTyped ==
  ASSUME TypeOK, Numbered, NEW c \in Calls, CallStep(c)
  PROVE  TypeOK' /\ Numbered'
<1>1. /\ calls \in [Calls -> CallRecord]
      /\ calls[c] \in CallRecord
      /\ Free \in CallRecord
  BY FreeIsTyped DEF TypeOK, CallRecord
<1>2. CASE Decide(c)
  <2>1. calls' \in [Calls -> CallRecord]
    BY <1>1, <1>2 DEF Decide, CallRecord, Stages
  <2>2. Numbered'
    BY <1>2, <1>1 DEF Decide, Numbered, notice, TypeOK
  <2>3. QED
    BY <1>2, <2>1, <2>2 DEF Decide, TypeOK, CallRecord, notice, holds, HandlerRecord
<1>3. CASE DecideNot(c)
  <2>1. calls' \in [Calls -> CallRecord]
    BY <1>1, <1>3 DEF DecideNot, Refuse
  <2>2. Numbered'
    BY <1>3, <1>1 DEF DecideNot, Refuse, Numbered, notice, Free
  <2>3. QED
    BY <1>3, <2>1, <2>2 DEF DecideNot, Refuse, TypeOK, CallRecord, target, notice, holds
<1>4. CASE SetMedia(c)
  <2>1. calls' \in [Calls -> CallRecord]
    <3>1. PICK x \in calls[c].left :
             IF calls[c].left = {x} THEN Finish(c)
             ELSE calls' = [calls EXCEPT ![c].left = @ \ {x}] /\ UNCHANGED disturbed
      BY <1>4 DEF SetMedia
    <3>2. CASE calls[c].left = {x}
      BY <1>1, <3>1, <3>2 DEF Finish
    <3>3. CASE calls[c].left # {x}
      BY <1>1, <3>1, <3>3 DEF CallRecord
    <3>4. QED
      BY <3>2, <3>3
  <2> disturbed' \in BOOLEAN
    BY <1>4 DEF SetMedia, Finish, TypeOK
  <2>2. media' \in [Variants -> {"public", "withheld", "removed"}]
    BY <1>4 DEF SetMedia, SetVariant, TypeOK
  <2>3. Numbered'
    BY <1>4, <1>1 DEF SetMedia, Finish, Numbered, notice, Free, CallRecord
  <2>4. QED
    BY <1>4, <2>1, <2>2, <2>3 DEF SetMedia, TypeOK, CallRecord, notice, holds
<1>5. CASE Prepare(c)
  <2> DEFINE version == IF outbox.state = "pending" THEN outbox.version ELSE outbox.version + 1
  <2>1. outbox.version \in 0..MaxNotices /\ version \in Nat /\ version > 0
    BY ModerationBounds DEF TypeOK, Numbered
  <2>2. CASE eligible /\ version <= MaxNotices
    <3>1. version \in 0..MaxNotices
      BY <2>1, <2>2, ModerationBounds
    <3>2. /\ calls' = [calls EXCEPT ![c].at = "mark", ![c].version = version]
          /\ outbox' = [state |-> "pending", version |-> version]
      BY <1>5, <2>2 DEF Prepare
    <3>3. calls' \in [Calls -> CallRecord]
      BY <1>1, <3>1, <3>2 DEF CallRecord, Stages
    <3>4. outbox' \in [state : {"none", "pending", "ready"}, version : 0..MaxNotices]
      BY <3>1, <3>2
    <3>5. Numbered'
      <4> calls[c].at = "prepare"
        BY <1>5 DEF Prepare
      <4>1. QED
        BY <1>1, <2>1, <3>2 DEF Numbered
    <3>6. QED
      BY <1>5, <3>3, <3>4, <3>5 DEF Prepare, TypeOK, CallRecord, target, holds
  <2>3. CASE ~eligible
    <3> calls' = [calls EXCEPT ![c].at = "mark"] /\ outbox' = outbox
      BY <1>5, <2>3 DEF Prepare
    <3> calls[c].at = "prepare"
      BY <1>5 DEF Prepare
    <3>1. calls' \in [Calls -> CallRecord]
      BY <1>1 DEF CallRecord, Stages
    <3>2. Numbered'
      BY <1>1 DEF Numbered
    <3>3. QED
      BY <1>5, <2>3, <3>1, <3>2 DEF Prepare, TypeOK, CallRecord, target, holds
  <2>4. QED
    BY <1>5, <2>2, <2>3 DEF Prepare
<1>6. CASE MarkDeleting(c)
  <2>0. \/ calls' = [calls EXCEPT ![c].at = "purge"]
        \/ calls' = [calls EXCEPT ![c] = Free]
    BY <1>6 DEF MarkDeleting, Refuse, Goto, AfterStage
  <2>1. calls' \in [Calls -> CallRecord]
    BY <1>1, <2>0 DEF CallRecord, Stages
  <2>2. Numbered'
    <3>1. outbox' = outbox /\ calls[c].at = "mark"
      BY <1>6 DEF MarkDeleting, Refuse, notice
    <3>2. CASE calls' = [calls EXCEPT ![c].at = "purge"]
      BY <1>1, <3>1, <3>2 DEF Numbered
    <3>3. CASE calls' = [calls EXCEPT ![c] = Free]
      BY <1>1, <3>1, <3>3 DEF Numbered, Free
    <3>4. QED
      BY <2>0, <3>2, <3>3
  <2>3. QED
    BY <1>6, <2>1, <2>2 DEF MarkDeleting, Refuse, Goto, TypeOK, CallRecord, target, notice, holds
<1>7. CASE PurgeAlerts(c)
  <2>1. calls' \in [Calls -> CallRecord]
    BY <1>1, <1>7 DEF PurgeAlerts, Goto, AfterStage, CallRecord, Stages
  <2>2. Numbered'
    BY <1>1, <1>7 DEF PurgeAlerts, Goto, AfterStage, Numbered
  <2>3. QED
    BY <1>7, <2>1, <2>2, ModerationBounds
    DEF PurgeAlerts, Goto, TypeOK, CallRecord, target, holds
<1>8. CASE RemoveMedia(c)
  <2>1. calls' \in [Calls -> CallRecord]
    BY <1>1, <1>8 DEF RemoveMedia, Goto, AfterStage, CallRecord, Stages
  <2>2. Numbered'
    BY <1>1, <1>8 DEF RemoveMedia, Goto, AfterStage, Numbered, notice
  <2>3. QED
    BY <1>8, <2>1, <2>2 DEF RemoveMedia, Goto, TypeOK, CallRecord, notice, holds
<1>9. CASE Erase(c)
  <2>0. \/ Completes(c) /\ calls' = [calls EXCEPT ![c].at = "complete"]
        \/ calls' = [calls EXCEPT ![c] = Free]
    BY <1>9 DEF Erase, Goto, Finish
  <2>1. calls' \in [Calls -> CallRecord]
    BY <1>1, <2>0 DEF CallRecord, Stages
  <2> disturbed' \in BOOLEAN
    BY <1>9 DEF Erase, Goto, Finish, TypeOK
  <2>2. Numbered'
    <3>1. outbox' = outbox /\ calls[c].at = "erase"
      BY <1>9 DEF Erase, notice
    <3>2. CASE Completes(c) /\ calls' = [calls EXCEPT ![c].at = "complete"]
      BY <1>1, <3>1, <3>2 DEF Completes, Numbered
    <3>3. CASE calls' = [calls EXCEPT ![c] = Free]
      BY <1>1, <3>1, <3>3 DEF Numbered, Free
    <3>4. QED
      BY <2>0, <3>2, <3>3
  <2>3. erasedBy' \in {"none", "delete", "withdraw"}
    BY <1>9, <1>1 DEF Erase, TypeOK, Numbered
  <2>4. QED
    BY <1>9, <2>1, <2>2, <2>3 DEF Erase, TypeOK, CallRecord, notice, holds
<1>10. CASE Complete(c)
  <2> DEFINE v == IF calls[c].action = "recover" THEN outbox.version ELSE calls[c].version
  <2>1. calls' \in [Calls -> CallRecord] /\ disturbed' \in BOOLEAN
    BY <1>1, <1>10 DEF Complete, Finish, TypeOK
  <2>2. v \in Notices
    BY <1>1, <1>10, ModerationBounds DEF Complete, Numbered, Notices, TypeOK, CallRecord
  <2>3. /\ outbox' \in [state : {"none", "pending", "ready"}, version : 0..MaxNotices]
        /\ signals' \subseteq Notices
    BY <1>10, <2>2 DEF Complete, SignalsAgain, TypeOK
  <2>4. outbox'.version = outbox.version /\ (outbox'.state = "none" => outbox.state = "none")
    BY <1>10 DEF Complete, TypeOK
  <2>5. outbox'.state # "none" => outbox'.version > 0
    BY <1>10, <2>2, <2>4, ModerationBounds DEF Complete, Numbered, Notices, TypeOK
  <2>6. Numbered'
    BY <1>1, <1>10, <2>4, <2>5 DEF Complete, Finish, Numbered, Free
  <2>7. QED
    BY <1>10, <2>1, <2>3, <2>6 DEF Complete, TypeOK, CallRecord, target, holds
<1>11. CASE Die(c)
  <2>1. calls' \in [Calls -> CallRecord]
    BY <1>1, <1>11 DEF Die
  <2>2. Numbered'
    BY <1>1, <1>11 DEF Die, Numbered, notice, Free
  <2>3. QED
    BY <1>11, <2>1, <2>2 DEF Die, TypeOK, CallRecord, target, notice, holds
<1>12. QED
  BY <1>2, <1>3, <1>4, <1>5, <1>6, <1>7, <1>8, <1>9, <1>10, <1>11 DEF CallStep

(* A call that begins.                                                     *)
LEMMA BeginTyped ==
  ASSUME TypeOK, Numbered, NEW c \in Calls, NEW a \in Actions, Begin(c, a)
  PROVE  TypeOK' /\ Numbered'
<1> DEFINE fresh == [Free EXCEPT !.action = Starts(a)[1], !.at = Starts(a)[2]]
           begun == [calls EXCEPT ![c] = fresh]
<1>1. /\ calls \in [Calls -> CallRecord]
      /\ outbox' = outbox
  BY DEF TypeOK, CallRecord, Begin, notice
<1>2. \/ Starts(a) = <<"hold", "decide">> /\ a = "hold"
      \/ Starts(a) = <<"restore", "decide">> /\ a = "restore"
      \/ Starts(a) = <<"delete", "prepare">> /\ a = "delete"
      \/ Starts(a) = <<"recover", "purge">> /\ a = "delete" /\ outbox.state # "none"
      \/ Starts(a) = <<"withdraw", "mark">> /\ a = "withdraw"
  BY ModerationBounds DEF Begin, Starts
<1>3. /\ fresh \in CallRecord
      /\ fresh.at \in {"decide", "prepare", "purge", "mark"}
      /\ fresh.at \in {"prepare", "mark"} => fresh.action \in {"delete", "withdraw"}
      /\ fresh.at = "purge" => fresh.action = "recover"
      /\ fresh.action = "recover" => outbox.state # "none"
  <2>1. Free \in CallRecord
    BY FreeIsTyped
  <2>2. /\ Starts(a)[2] \in {"decide", "prepare", "purge", "mark"}
        /\ Starts(a)[1] \in Actions \cup {"none", "recover"}
        /\ Starts(a)[2] \in {"prepare", "mark"} => Starts(a)[1] \in {"delete", "withdraw"}
        /\ Starts(a)[2] = "purge" => Starts(a)[1] = "recover"
        /\ Starts(a)[1] = "recover" => outbox.state # "none"
    BY <1>2
  <2>3. QED
    BY <2>1, <2>2 DEF CallRecord, Stages
<1>4. /\ begun \in [Calls -> CallRecord]
      /\ NobodyAlone(begun) \in [Calls -> CallRecord]
      /\ \A d \in Calls : /\ NobodyAlone(begun)[d].at = begun[d].at
                          /\ NobodyAlone(begun)[d].action = begun[d].action
                          /\ NobodyAlone(begun)[d].version = begun[d].version
  BY <1>1, <1>3 DEF NobodyAlone, CallRecord
<1>5. calls' \in [Calls -> CallRecord]
  BY <1>4 DEF Begin
<1>6. \A d \in Calls : /\ calls'[d].at = begun[d].at
                       /\ calls'[d].action = begun[d].action
                       /\ calls'[d].version = begun[d].version
  BY <1>4 DEF Begin
<1>7. Numbered'
  BY <1>1, <1>3, <1>6 DEF Numbered
<1>8. disturbed' \in BOOLEAN
  BY DEF Begin, TypeOK
<1>9. QED
  BY <1>5, <1>7, <1>8 DEF Begin, TypeOK, CallRecord, target, notice, holds

(* The steps of the triggers, the reports and the owner.                   *)
LEMMA EventStepTyped ==
  ASSUME TypeOK, Numbered,
         \/ \E h \in Handlers, v \in 1..MaxHolds : StartEvent(h, v)
         \/ \E h \in Handlers : HandlerStep(h)
         \/ \E v \in Notices : DeliverNotice(v)
         \/ AutoHold \/ DismissAlert \/ OwnerLeaves
  PROVE  TypeOK' /\ Numbered'
<1>1. handlers \in [Handlers -> HandlerRecord] /\ Waiting \in HandlerRecord
  BY FreeIsTyped DEF TypeOK, HandlerRecord
<1>2. ASSUME NEW h \in Handlers, NEW v \in 1..MaxHolds, StartEvent(h, v)
      PROVE  TypeOK' /\ Numbered'
  <2>1. handlers' \in [Handlers -> HandlerRecord]
    <3>1. [Waiting EXCEPT !.at = "check", !.version = v] \in HandlerRecord
      <4>1. v \in 0..MaxHolds
        BY ModerationBounds
      <4>2. QED
        BY <1>1, <4>1 DEF HandlerRecord
    <3>2. QED
      BY <1>1, <1>2, <3>1 DEF StartEvent
  <2>2. /\ calls' \in [Calls -> CallRecord]
        /\ \A d \in Calls : /\ calls'[d].at = calls[d].at
                            /\ calls'[d].action = calls[d].action
                            /\ calls'[d].version = calls[d].version
    BY <1>2 DEF StartEvent, NobodyAlone, TypeOK, CallRecord
  <2>3. Numbered'
    BY <1>2, <2>2 DEF StartEvent, Numbered, notice
  <2>4. disturbed' \in BOOLEAN
    BY <1>2 DEF StartEvent, TypeOK
  <2>5. QED
    BY <1>2, <2>1, <2>2, <2>3, <2>4
    DEF StartEvent, TypeOK, CallRecord, HandlerRecord, target, notice
<1>3. ASSUME NEW h \in Handlers, HandlerStep(h)
      PROVE  TypeOK' /\ Numbered'
  <2>1. handlers' \in [Handlers -> HandlerRecord]
    <3>1. CASE CheckHold(h)
      BY <1>1, <3>1 DEF CheckHold, Handled, HandlerRecord
    <3>2. CASE WithholdMedia(h)
      <4>1. PICK x \in handlers[h].left :
               IF handlers[h].left = {x} THEN Handled(h)
               ELSE handlers' = [handlers EXCEPT ![h].left = @ \ {x}] /\ UNCHANGED holdEvents
        BY <3>2 DEF WithholdMedia
      <4>2. CASE handlers[h].left = {x}
        BY <1>1, <4>1, <4>2 DEF Handled
      <4>3. CASE handlers[h].left # {x}
        BY <1>1, <4>1, <4>3 DEF HandlerRecord
      <4>4. QED
        BY <4>2, <4>3
    <3>3. CASE HandlerDies(h)
      BY <1>1, <3>3 DEF HandlerDies
    <3>4. QED
      BY <1>3, <3>1, <3>2, <3>3 DEF HandlerStep
  <2>2. holdEvents' \subseteq 1..MaxHolds
    BY <1>3 DEF HandlerStep, CheckHold, WithholdMedia, HandlerDies, Handled, TypeOK
  <2>3. media' \in [Variants -> {"public", "withheld", "removed"}]
    BY <1>3 DEF HandlerStep, CheckHold, WithholdMedia, HandlerDies, SetVariant, TypeOK, target
  <2>4. Numbered'
    BY <1>3 DEF HandlerStep, CheckHold, WithholdMedia, HandlerDies, Numbered, notice
  <2>5. UNCHANGED <<content, lastAction, erasedBy, notice, holdVersion, calls, disturbed>>
    BY <1>3 DEF HandlerStep, CheckHold, WithholdMedia, HandlerDies, target
  <2>6. QED
    BY <2>1, <2>2, <2>3, <2>4, <2>5 DEF TypeOK, HandlerRecord, notice
<1>4. ASSUME NEW v \in Notices, DeliverNotice(v)
      PROVE  TypeOK' /\ Numbered'
  <2>1. alert' \in 0..MaxNotices
    BY <1>4, ModerationBounds DEF DeliverNotice, TypeOK, Notices
  <2>2. delivered' \subseteq Notices
    BY <1>4 DEF DeliverNotice, TypeOK
  <2>3. signals' \subseteq Notices
    BY <1>4 DEF DeliverNotice, TypeOK
  <2>4. Numbered'
    BY <1>4 DEF DeliverNotice, Numbered
  <2>5. QED
    BY <1>4, <2>1, <2>2, <2>3, <2>4 DEF DeliverNotice, TypeOK, target, holds
<1>5. CASE AutoHold
  <2>1. holdVersion' \in 0..MaxHolds /\ holdEvents' \subseteq 1..MaxHolds
    BY <1>5, ModerationBounds DEF AutoHold, TypeOK
  <2>2. QED
    BY <1>5, <2>1 DEF AutoHold, TypeOK, Numbered, notice
<1>6. CASE DismissAlert
  BY <1>6, ModerationBounds DEF DismissAlert, TypeOK, Numbered, target, holds
<1>7. CASE OwnerLeaves
  BY <1>7 DEF OwnerLeaves, TypeOK, Numbered, target, holds
<1>8. QED
  BY <1>2, <1>3, <1>4, <1>5, <1>6, <1>7

(* Every reachable state is well typed.                                    *)
THEOREM ModerationTypeCorrect == Spec => [](TypeOK /\ Numbered)
<1>1. TypeOK /\ Numbered /\ [Next]_vars => TypeOK' /\ Numbered'
  <2> SUFFICES ASSUME TypeOK, Numbered, [Next]_vars PROVE TypeOK' /\ Numbered'
    OBVIOUS
  <2>1. CASE UNCHANGED vars
    BY <2>1 DEF TypeOK, Numbered, vars, target, notice, holds
  <2>2. CASE Next
    BY <2>2, CallStepTyped, BeginTyped, EventStepTyped DEF Next
  <2>3. QED
    BY <2>1, <2>2
<1>2. QED
  BY <1>1, InitTyped, PTL DEF Spec
-----------------------------------------------------------------------------
(* How a call moves from stage to stage.                                   *)
Moves(c) ==
    /\ \A d \in Calls \ {c} : calls'[d] = calls[d]
    /\ \/ calls'[c] = Free
       \/ /\ calls'[c].action = calls[c].action
          /\ \/ calls[c].at \in {"decide", "media"} /\ calls'[c].at = "media"
             \/ calls[c].at = "prepare" /\ calls'[c].at = "mark"
             \/ calls[c].at = "mark" /\ calls'[c].at = "purge"
             \/ calls[c].at = "purge" /\ calls'[c].at = "strip"
             \/ calls[c].at = "purge" /\ calls[c].action = "recover" /\ calls'[c].at = "complete"
             \/ calls[c].at = "strip" /\ calls'[c].at = "erase"
             \/ calls[c].at = "erase" /\ calls'[c].at = "complete" /\ content' = "gone"

LEMMA CallStepMoves ==
  ASSUME TypeOK, NEW c \in Calls, CallStep(c)
  PROVE  Moves(c)
<1>1. calls \in [Calls -> CallRecord] /\ calls[c] \in CallRecord
  BY DEF TypeOK, CallRecord
<1>2. CASE Decide(c)
  BY <1>1, <1>2 DEF Decide, Moves, CallRecord
<1>3. CASE DecideNot(c) \/ Die(c) \/ Complete(c)
  BY <1>1, <1>3 DEF DecideNot, Refuse, Die, Complete, Finish, Moves
<1>4. CASE SetMedia(c)
  <2>1. PICK x \in calls[c].left :
           \/ calls' = [calls EXCEPT ![c] = Free]
           \/ calls' = [calls EXCEPT ![c].left = @ \ {x}]
    BY <1>4 DEF SetMedia, Finish
  <2>2. QED
    BY <1>1, <1>4, <2>1 DEF SetMedia, Moves, CallRecord
<1>5. CASE Prepare(c)
  BY <1>1, <1>5 DEF Prepare, Moves, CallRecord
<1>6. CASE MarkDeleting(c)
  <2>1. calls' = [calls EXCEPT ![c].at = "purge"] \/ calls' = [calls EXCEPT ![c] = Free]
    BY <1>6 DEF MarkDeleting, Refuse, Goto, AfterStage
  <2>2. QED
    BY <1>1, <1>6, <2>1 DEF MarkDeleting, Moves, CallRecord
<1>7. CASE PurgeAlerts(c)
  <2>1. \/ calls' = [calls EXCEPT ![c].at = "strip"]
        \/ calls[c].action = "recover" /\ calls' = [calls EXCEPT ![c].at = "complete"]
    BY <1>7 DEF PurgeAlerts, Goto, AfterStage
  <2>2. QED
    BY <1>1, <1>7, <2>1 DEF PurgeAlerts, Moves, CallRecord
<1>8. CASE RemoveMedia(c)
  <2>1. calls' = [calls EXCEPT ![c].at = "erase"]
    BY <1>8 DEF RemoveMedia, Goto, AfterStage
  <2>2. QED
    BY <1>1, <1>8, <2>1 DEF RemoveMedia, Moves, CallRecord
<1>9. CASE Erase(c)
  <2>1. /\ calls' = [calls EXCEPT ![c].at = "complete"] \/ calls' = [calls EXCEPT ![c] = Free]
        /\ content' = "gone"
    BY <1>9 DEF Erase, Finish, Goto
  <2>2. QED
    BY <1>1, <1>9, <2>1 DEF Erase, Moves, CallRecord
<1>10. QED
  BY <1>2, <1>3, <1>4, <1>5, <1>6, <1>7, <1>8, <1>9 DEF CallStep

(* Nothing that leads to an alert exists before the content is gone, and   *)
(* what is gone stays gone.                                                *)
Truthful ==
    \/ content = "gone"
    \/ /\ alert = 0 /\ signals = {}
       /\ \A c \in Calls : calls[c].at # "complete" /\ calls[c].action # "recover"

LEMMA AlwaysTruthful == Spec => []Truthful
<1>1. Init => Truthful
  BY DEF Init, Truthful, Free
<1>2. TypeOK /\ Numbered /\ Truthful /\ [Next]_vars => Truthful'
  <2> SUFFICES ASSUME TypeOK, Numbered, Truthful, [Next]_vars PROVE Truthful'
    OBVIOUS
  <2>1. calls \in [Calls -> CallRecord]
    BY DEF TypeOK, CallRecord
  <2>2. CASE content = "gone"
    <3>1. content' = "gone"
      <4>1. ASSUME NEW c \in Calls, CallStep(c) PROVE content' = "gone"
        BY <2>2, <4>1, <2>1
        DEF CallStep, Decide, MayRestore, DecideNot, Refuse, SetMedia, Prepare, MarkDeleting,
            PurgeAlerts, RemoveMedia, Erase, Complete, Die, target
      <4>2. ASSUME ~\E c \in Calls : CallStep(c) PROVE content' = "gone"
        BY <2>2, <4>2
        DEF Next, vars, Begin, StartEvent, HandlerStep, CheckHold, WithholdMedia, HandlerDies,
            DeliverNotice, AutoHold, DismissAlert, OwnerLeaves, target
      <4>3. QED
        BY <4>1, <4>2
    <3>2. QED
      BY <3>1 DEF Truthful
  <2>3. CASE content # "gone"
    <3>1. ASSUME NEW c \in Calls, NEW a \in Actions, Begin(c, a) PROVE Truthful'
      <4>1. Starts(a)[2] # "complete" /\ Starts(a)[1] # "recover"
        BY <2>3 DEF Starts
      <4>2. \A d \in Calls : calls'[d].at # "complete" /\ calls'[d].action # "recover"
        BY <2>1, <2>3, <3>1, <4>1 DEF Begin, NobodyAlone, Truthful, Free, CallRecord
      <4>3. QED
        BY <2>3, <3>1, <4>2 DEF Begin, Truthful, target, notice
    <3>2. ASSUME NEW c \in Calls, CallStep(c) PROVE Truthful'
      <4>1. calls[c].action # "recover" /\ calls[c].at # "complete" /\ alert = 0 /\ signals = {}
        BY <2>3 DEF Truthful
      <4>2. CASE Erase(c)
        BY <4>2 DEF Erase, Truthful
      <4>3. CASE ~Erase(c)
        <5>1. alert' = 0 /\ signals' = {}
          BY <3>2, <4>1, <4>3
          DEF CallStep, Decide, DecideNot, Refuse, SetMedia, Prepare, MarkDeleting, PurgeAlerts,
              RemoveMedia, Complete, Die, notice
        <5>2. calls'[c].at = "complete" => content' = "gone"
          BY <3>2, <4>1, CallStepMoves DEF Moves, Free
        <5>3. calls'[c].action # "recover"
          BY <3>2, <4>1, CallStepMoves DEF Moves, Free
        <5>4. \A d \in Calls \ {c} : calls'[d].at # "complete" /\ calls'[d].action # "recover"
          BY <2>3, <3>2, CallStepMoves DEF Moves, Truthful
        <5>5. QED
          BY <5>1, <5>2, <5>3, <5>4 DEF Truthful
      <4>4. QED
        BY <4>2, <4>3
    <3>3. ASSUME NEW h \in Handlers, NEW v \in 1..MaxHolds, StartEvent(h, v) PROVE Truthful'
      <4>1. \A d \in Calls : calls'[d].at # "complete" /\ calls'[d].action # "recover"
        BY <2>1, <2>3, <3>3 DEF StartEvent, NobodyAlone, Truthful, CallRecord
      <4>2. QED
        BY <2>3, <3>3, <4>1 DEF StartEvent, Truthful, notice
    <3>4. ASSUME NEW h \in Handlers, HandlerStep(h) PROVE Truthful'
      BY <2>3, <3>4 DEF HandlerStep, CheckHold, WithholdMedia, HandlerDies, Truthful, notice
    <3>5. CASE AutoHold \/ DismissAlert \/ OwnerLeaves
      BY <2>3, <3>5 DEF AutoHold, DismissAlert, OwnerLeaves, Truthful, notice
    <3>6. ASSUME NEW v \in Notices, DeliverNotice(v) PROVE Truthful'
      BY <2>3, <3>6 DEF DeliverNotice, Truthful
    <3>7. CASE UNCHANGED vars
      BY <2>3, <3>7 DEF Truthful, vars, notice, target
    <3>8. QED
      BY <3>1, <3>2, <3>3, <3>4, <3>5, <3>6, <3>7 DEF Next
  <2>4. QED
    BY <2>2, <2>3
<1>3. QED
  BY <1>1, <1>2, ModerationTypeCorrect, PTL DEF Spec

(* The owner is told of a deletion only when it has happened, wherever     *)
(* calls die and however they interleave.                                  *)
THEOREM NoticeIsTrue == Spec => []ToldOnlyWhenGone
<1>1. Truthful => ToldOnlyWhenGone
  BY DEF Truthful, ToldOnlyWhenGone
<1>2. QED
  BY <1>1, AlwaysTruthful, PTL

(* A call on its way to erase the content for a moderator has prepared its *)
(* notice, unless the owner is leaving.                                    *)
Recorded ==
    /\ \A c \in Calls :
        /\ calls[c].action = "delete" /\ calls[c].at \in {"mark", "purge", "strip", "erase"}
        /\ eligible
        => outbox.state # "none"
    /\ NoSilentDeletion

(* Once the content is gone by a moderator's deletion, the notice is on    *)
(* record for a recovery to complete: the outbox is written first.         *)
THEOREM DeletionIsRecorded == Spec => []NoSilentDeletion
<1>1. Init => Recorded
  BY DEF Init, Recorded, NoSilentDeletion, Free
<1>2. TypeOK /\ Recorded /\ [Next]_vars => Recorded'
  <2> SUFFICES ASSUME TypeOK, Recorded, [Next]_vars PROVE Recorded'
    OBVIOUS
  <2>1. calls \in [Calls -> CallRecord]
    BY DEF TypeOK, CallRecord
  <2>2. ASSUME NEW c \in Calls, NEW a \in Actions, Begin(c, a) PROVE Recorded'
    <3>1. Starts(a)[2] \in {"mark", "purge", "strip", "erase"} => Starts(a)[1] # "delete"
      BY DEF Starts
    <3>2. \A d \in Calls : \/ d = c /\ calls'[d].at = Starts(a)[2]
                                    /\ calls'[d].action = Starts(a)[1]
                           \/ calls'[d].at = calls[d].at /\ calls'[d].action = calls[d].action
      BY <2>1, <2>2 DEF Begin, NobodyAlone, Free, CallRecord
    <3>3. eligible' = eligible /\ outbox' = outbox /\ erasedBy' = erasedBy
      BY <2>2 DEF Begin, notice, target
    <3>4. QED
      BY <3>1, <3>2, <3>3 DEF Recorded, NoSilentDeletion
  <2>3. ASSUME NEW c \in Calls, CallStep(c) PROVE Recorded'
    <3>1. Moves(c)
      BY <2>3, CallStepMoves
    <3>2. CASE Prepare(c)
      BY <2>1, <3>2 DEF Prepare, Recorded, NoSilentDeletion, target
    <3>3. CASE Erase(c)
      <4>1. /\ outbox' = outbox /\ eligible' = eligible /\ calls[c].at = "erase"
            /\ erasedBy' \in {erasedBy, calls[c].action}
        BY <3>3 DEF Erase, notice
      <4>2. NoSilentDeletion'
        BY <4>1 DEF Recorded, NoSilentDeletion
      <4>3. QED
        BY <3>1, <4>1, <4>2 DEF Moves, Recorded, Free
    <3>4. CASE Complete(c)
      <4>1. /\ eligible' = eligible /\ erasedBy' = erasedBy
            /\ outbox.state # "none" => outbox'.state # "none"
        BY <3>4 DEF Complete, target, TypeOK
      <4>2. QED
        BY <3>1, <4>1, <3>4 DEF Moves, Complete, Recorded, NoSilentDeletion, Free
    <3>5. CASE Decide(c) \/ DecideNot(c) \/ Die(c) \/ SetMedia(c) \/ MarkDeleting(c)
               \/ PurgeAlerts(c) \/ RemoveMedia(c)
      <4>1. outbox' = outbox /\ eligible' = eligible /\ erasedBy' = erasedBy
        BY <3>5 DEF Decide, DecideNot, Refuse, Die, SetMedia, MarkDeleting, PurgeAlerts,
                    RemoveMedia, notice, target
      <4>2. calls[c].at # "prepare"
            \/ calls'[c] = Free
        BY <3>5, <2>1 DEF Decide, DecideNot, Refuse, Die, SetMedia, MarkDeleting, PurgeAlerts,
                    RemoveMedia, CallRecord
      <4>3. QED
        BY <3>1, <4>1, <4>2 DEF Moves, Recorded, NoSilentDeletion, Free
    <3>6. QED
      BY <2>3, <3>2, <3>3, <3>4, <3>5 DEF CallStep
  <2>4. ASSUME NEW h \in Handlers, NEW v \in 1..MaxHolds, StartEvent(h, v) PROVE Recorded'
    <3>1. \A d \in Calls : calls'[d].at = calls[d].at /\ calls'[d].action = calls[d].action
      BY <2>1, <2>4 DEF StartEvent, NobodyAlone, CallRecord
    <3>2. QED
      BY <2>4, <3>1 DEF StartEvent, Recorded, NoSilentDeletion, notice, target
  <2>5. ASSUME NEW h \in Handlers, HandlerStep(h) PROVE Recorded'
    BY <2>5 DEF HandlerStep, CheckHold, WithholdMedia, HandlerDies, Recorded, NoSilentDeletion,
                notice, target
  <2>6. CASE (\E v \in Notices : DeliverNotice(v)) \/ AutoHold \/ DismissAlert \/ OwnerLeaves
    BY <2>6 DEF DeliverNotice, AutoHold, DismissAlert, OwnerLeaves, Recorded, NoSilentDeletion,
                notice, target
  <2>7. CASE UNCHANGED vars
    BY <2>7 DEF Recorded, NoSilentDeletion, vars, notice, target
  <2>8. QED
    BY <2>2, <2>3, <2>4, <2>5, <2>6, <2>7 DEF Next
<1>3. QED
  BY <1>1, <1>2, ModerationTypeCorrect, PTL DEF Spec, Recorded
-----------------------------------------------------------------------------
(* A call that is alone is the only one, beside no handler; in undisturbed *)
(* times every call is.                                                    *)
Solitude ==
    /\ \A c \in BusyCalls : calls[c].alone => BusyCalls = {c} /\ BusyHandlers = {}
    /\ ~disturbed => \A c \in BusyCalls : calls[c].alone

(* What the steps of a call have in common.                                *)
Step(c) ==
    /\ c \in BusyCalls /\ handlers' = handlers
    /\ \A d \in Calls \ {c} : calls'[d] = calls[d]
    /\ \/ calls'[c] = Free /\ (~disturbed' => ~disturbed \/ calls[c].alone)
       \/ /\ calls'[c].at # "idle" /\ calls'[c].alone = calls[c].alone
          /\ calls'[c].action = calls[c].action /\ disturbed' = disturbed

LEMMA CallStepShape ==
    ASSUME TypeOK, NEW c \in Calls, CallStep(c)
    PROVE  Step(c)
<1>1. calls \in [Calls -> CallRecord] /\ calls[c] \in CallRecord
  BY DEF TypeOK, CallRecord
<1>2. c \in BusyCalls /\ handlers' = handlers
  BY DEF CallStep, Decide, DecideNot, SetMedia, Prepare, MarkDeleting, PurgeAlerts, RemoveMedia, Erase,
         Complete, Die, BusyCalls, holds
<1>3. ASSUME calls' = [calls EXCEPT ![c] = Free], ~disturbed' => ~disturbed \/ calls[c].alone
      PROVE  Step(c)
  BY <1>1, <1>2, <1>3 DEF Step
<1>4. ASSUME NEW k \in CallRecord, calls' = [calls EXCEPT ![c] = k], k.at # "idle",
             k.alone = calls[c].alone, k.action = calls[c].action, disturbed' = disturbed
      PROVE  Step(c)
  BY <1>1, <1>2, <1>4 DEF Step
<1>5. ASSUME NEW stage \in Stages \ {"idle"}, Goto(c, stage) PROVE Step(c)
  <2>1. calls' = [calls EXCEPT ![c] = [calls[c] EXCEPT !.at = stage]]
    BY <1>1, <1>5 DEF Goto
  <2>2. [calls[c] EXCEPT !.at = stage] \in CallRecord
    BY <1>1 DEF CallRecord
  <2> QED  BY <1>1, <1>4, <1>5, <2>1, <2>2 DEF Goto, CallRecord
<1>6. CASE Decide(c)
  <2>1. calls' = [calls EXCEPT ![c] = [calls[c] EXCEPT !.at = "media", !.left = Variants]]
    BY <1>1, <1>6 DEF Decide
  <2>2. [calls[c] EXCEPT !.at = "media", !.left = Variants] \in CallRecord
    BY <1>1 DEF CallRecord, Stages
  <2> QED  BY <1>1, <1>4, <1>6, <2>1, <2>2 DEF Decide, CallRecord
<1>7. CASE DecideNot(c) \/ Die(c) \/ Complete(c)
  BY <1>3, <1>7 DEF DecideNot, Refuse, Die, Complete, Finish
<1>8. CASE SetMedia(c)
  <2>1. PICK x \in calls[c].left :
          \/ Finish(c)
          \/ calls' = [calls EXCEPT ![c].left = @ \ {x}] /\ UNCHANGED disturbed
    BY <1>8 DEF SetMedia
  <2>2. CASE Finish(c)
    BY <1>3, <2>2 DEF Finish
  <2>3. CASE calls' = [calls EXCEPT ![c].left = @ \ {x}] /\ UNCHANGED disturbed
    <3>1. calls' = [calls EXCEPT ![c] = [calls[c] EXCEPT !.left = @ \ {x}]]
      BY <1>1, <2>3
    <3>2. [calls[c] EXCEPT !.left = @ \ {x}] \in CallRecord
      BY <1>1 DEF CallRecord
    <3> QED  BY <1>1, <1>4, <1>8, <2>3, <3>1, <3>2 DEF SetMedia, CallRecord
  <2> QED  BY <2>1, <2>2, <2>3
<1>9. CASE Prepare(c)
  <2>1. PICK v \in 0..MaxNotices :
          calls' = [calls EXCEPT ![c] = [calls[c] EXCEPT !.at = "mark", !.version = v]]
    <3> DEFINE version == IF outbox.state = "pending" THEN outbox.version ELSE outbox.version + 1
    <3>1. calls[c].version \in 0..MaxNotices /\ version \in Nat
      BY <1>1 DEF TypeOK, CallRecord
    <3>2. \/ version <= MaxNotices /\ calls' = [calls EXCEPT ![c].at = "mark", ![c].version = version]
          \/ calls' = [calls EXCEPT ![c].at = "mark"]
      BY <1>9 DEF Prepare
    <3> HIDE DEF version
    <3>3. CASE version <= MaxNotices /\ calls' = [calls EXCEPT ![c].at = "mark", ![c].version = version]
      <4>1. version \in 0..MaxNotices
        BY <3>1, <3>3, ModerationBounds
      <4>2. calls' = [calls EXCEPT ![c] = [calls[c] EXCEPT !.at = "mark", !.version = version]]
        BY <1>1, <3>3
      <4> QED  BY <4>1, <4>2
    <3>4. CASE calls' = [calls EXCEPT ![c].at = "mark"]
      <4>1. calls' = [calls EXCEPT ![c] = [calls[c] EXCEPT !.at = "mark", !.version = calls[c].version]]
        BY <1>1, <3>4 DEF CallRecord
      <4> QED  BY <3>1, <4>1
    <3> QED  BY <3>2, <3>3, <3>4
  <2>2. [calls[c] EXCEPT !.at = "mark", !.version = v] \in CallRecord
    BY <1>1, <2>1 DEF CallRecord, Stages
  <2> QED  BY <1>1, <1>4, <1>9, <2>1, <2>2 DEF Prepare, CallRecord
<1>10. CASE MarkDeleting(c)
  BY <1>3, <1>5, <1>10 DEF MarkDeleting, AfterStage, Refuse, Stages
<1>11. CASE PurgeAlerts(c)
  BY <1>5, <1>11 DEF PurgeAlerts, AfterStage, Stages
<1>12. CASE RemoveMedia(c)
  BY <1>5, <1>12 DEF RemoveMedia, AfterStage, Stages
<1>13. CASE Erase(c)
  BY <1>3, <1>5, <1>13 DEF Erase, Finish, Stages
<1> QED  BY <1>6, <1>7, <1>8, <1>9, <1>10, <1>11, <1>12, <1>13 DEF CallStep

LEMMA NextSolitude == TypeOK /\ Solitude /\ [Next]_vars => Solitude'
<1> SUFFICES ASSUME TypeOK, Solitude, [Next]_vars PROVE Solitude'
  OBVIOUS
<1>0. calls \in [Calls -> CallRecord]
  BY DEF TypeOK, CallRecord
<1>1. ASSUME NEW c \in Calls, CallStep(c) PROVE Solitude'
  <2>1. Step(c) /\ BusyHandlers' = BusyHandlers
    BY <1>1, CallStepShape DEF Step, BusyHandlers
  <2>2. CASE calls'[c] = Free
    <3>1. BusyCalls' = BusyCalls \ {c}
      BY <2>1, <2>2 DEF Step, BusyCalls, Free
    <3>2. \A d \in BusyCalls' : calls'[d] = calls[d]
      BY <2>1, <3>1 DEF Step, BusyCalls
    <3>3. ~disturbed' => ~disturbed \/ BusyCalls' = {}
      BY <2>1, <3>1 DEF Step, Solitude
    <3> QED  BY <2>1, <3>1, <3>2, <3>3 DEF Solitude
  <2>3. CASE calls'[c] # Free
    <3>1. BusyCalls' = BusyCalls /\ disturbed' = disturbed
      BY <2>1, <2>3 DEF Step, BusyCalls
    <3>2. \A d \in BusyCalls : calls'[d].alone = calls[d].alone
      BY <2>1, <2>3 DEF Step, BusyCalls
    <3> QED  BY <2>1, <3>1, <3>2 DEF Solitude
  <2> QED  BY <2>2, <2>3
<1>2. ASSUME \A d \in Calls : ~calls'[d].alone, disturbed' PROVE Solitude'
  BY <1>2 DEF Solitude, BusyCalls
<1>3. ASSUME NEW c \in Calls, NEW a \in Actions, Begin(c, a) PROVE Solitude'
  <2> DEFINE fresh == [Free EXCEPT !.action = Starts(a)[1], !.at = Starts(a)[2]]
  <2>1. fresh.alone /\ fresh.at = Starts(a)[2]
    BY DEF Free
  <2>2. CASE BusyCalls = {} /\ BusyHandlers = {}
    <3>1. calls' = [calls EXCEPT ![c] = fresh] /\ BusyHandlers' = BusyHandlers
      BY <1>3, <2>2 DEF Begin, holds, BusyHandlers
    <3>2. BusyCalls' = {c} /\ calls'[c].alone
      BY <1>0, <1>3, <2>1, <2>2, <3>1 DEF Begin, BusyCalls
    <3> QED  BY <2>2, <3>1, <3>2 DEF Solitude
  <2>3. CASE ~(BusyCalls = {} /\ BusyHandlers = {})
    <3>1. calls' = NobodyAlone([calls EXCEPT ![c] = fresh]) /\ disturbed'
      BY <1>3, <2>3 DEF Begin
    <3>2. ASSUME NEW d \in Calls PROVE ~calls'[d].alone
      BY <1>0, <3>1 DEF NobodyAlone, Free, CallRecord
    <3> QED  BY <1>2, <3>1, <3>2
  <2> QED  BY <2>2, <2>3
<1>4. ASSUME NEW h \in Handlers, NEW v \in 1..MaxHolds, StartEvent(h, v) PROVE Solitude'
  <2>1. CASE BusyCalls = {}
    BY <1>4, <2>1 DEF StartEvent, Solitude, BusyCalls
  <2>2. CASE BusyCalls # {}
    <3>1. calls' = NobodyAlone(calls) /\ disturbed'
      BY <1>4, <2>2 DEF StartEvent
    <3>2. ASSUME NEW d \in Calls PROVE ~calls'[d].alone
      BY <1>0, <3>1 DEF NobodyAlone, CallRecord
    <3> QED  BY <1>2, <3>1, <3>2
  <2> QED  BY <2>1, <2>2
<1>5. ASSUME BusyHandlers' \subseteq BusyHandlers, calls' = calls, disturbed' = disturbed PROVE Solitude'
  BY <1>5 DEF Solitude, BusyCalls
<1>6. ASSUME NEW h \in Handlers, HandlerStep(h) PROVE Solitude'
  <2>1. h \in BusyHandlers /\ \A g \in Handlers \ {h} : handlers'[g] = handlers[g]
    BY <1>6 DEF HandlerStep, CheckHold, WithholdMedia, HandlerDies, Handled, BusyHandlers, TypeOK
  <2>2. calls' = calls /\ disturbed' = disturbed
    BY <1>6 DEF HandlerStep, CheckHold, WithholdMedia, HandlerDies
  <2> QED  BY <1>5, <2>1, <2>2 DEF BusyHandlers
<1>7. CASE (\E v \in Notices : DeliverNotice(v)) \/ AutoHold \/ DismissAlert \/ OwnerLeaves
  BY <1>5, <1>7 DEF DeliverNotice, AutoHold, DismissAlert, OwnerLeaves, holds, BusyHandlers
<1>8. CASE UNCHANGED vars
  BY <1>5, <1>8 DEF vars, holds, BusyHandlers
<1> QED  BY <1>1, <1>3, <1>4, <1>6, <1>7, <1>8 DEF Next

LEMMA InitSolitude == Init => Solitude
<1> SUFFICES ASSUME Init PROVE BusyCalls = {}
  BY DEF Solitude
<1> QED  BY DEF Init, BusyCalls, Free

LEMMA AlwaysSolitude == Spec => []Solitude
BY InitSolitude, NextSolitude, ModerationTypeCorrect, PTL DEF Spec
-----------------------------------------------------------------------------
(* In undisturbed times the media follow the status, or the case event of  *)
(* an automatic hold is still to be handled.  A call that is alone at the  *)
(* media has done what is not left; so has a handler that nobody disturbs, *)
(* which withholds for the latest hold.                                    *)
HoldPending == content = "held" /\ holdVersion \in holdEvents
Follows == ~disturbed /\ (\A c \in Calls : calls[c].at # "media") =>
    /\ content = "active" => \A x \in Variants : media[x] # "withheld"
    /\ content = "held" => HoldPending \/ \A x \in Variants : media[x] # "public"
CallSets(c) == calls[c].at = "media" /\ calls[c].alone =>
    \/ /\ calls[c].action = "restore" /\ (content = "active" \/ HoldPending)
       /\ \A x \in Variants \ calls[c].left : media[x] # "withheld"
    \/ /\ calls[c].action = "hold" /\ content = "held"
       /\ \A x \in Variants \ calls[c].left : media[x] # "public"
HandlerSets(h) == handlers[h].at = "media" /\ ~disturbed =>
    /\ content = "held" /\ handlers[h].version = holdVersion
    /\ \A x \in Variants \ handlers[h].left : media[x] # "public"
MediaInv == Follows /\ (\A c \in Calls : CallSets(c)) /\ (\A h \in Handlers : HandlerSets(h))


(* A call that steps leaves the handlers' part, and that of other calls,   *)
(* without force: either it is alone, or the times are disturbed.          *)
LEMMA StepSets ==
    ASSUME TypeOK, Solitude, NEW c \in Calls, Step(c), CallSets(c)', Follows'
    PROVE  MediaInv'
<1>1. ASSUME NEW d \in Calls \ {c} PROVE CallSets(d)'
  <2>1. calls'[d] = calls[d] /\ c \in BusyCalls
    BY DEF Step
  <2>2. ~(calls[d].at = "media" /\ calls[d].alone)
    BY <2>1 DEF Solitude, BusyCalls
  <2> QED  BY <2>1, <2>2 DEF CallSets
<1>2. ASSUME NEW h \in Handlers, handlers'[h].at = "media", ~disturbed' PROVE FALSE
  <2>1. handlers' = handlers /\ c \in BusyCalls /\ (~disturbed \/ calls[c].alone)
    BY <1>2 DEF Step
  <2> QED  BY <1>2, <2>1 DEF Solitude, BusyHandlers
<1> QED  BY <1>1, <1>2 DEF MediaInv, HandlerSets

LEMMA CallStepMedia ==
    ASSUME TypeOK, Truthful, Solitude, MediaInv, NEW c \in Calls, CallStep(c)
    PROVE  MediaInv'
<1>0. Step(c) /\ Moves(c) /\ holdVersion' = holdVersion /\ holdEvents' = holdEvents
  <2>1. UNCHANGED holds
    BY DEF CallStep, Decide, DecideNot, SetMedia, Prepare, MarkDeleting, PurgeAlerts, RemoveMedia, Erase,
           Complete, Die
  <2> QED  BY <2>1, CallStepShape, CallStepMoves DEF holds
<1>1. calls \in [Calls -> CallRecord] /\ calls[c] \in CallRecord /\ c \in BusyCalls
  BY <1>0 DEF TypeOK, CallRecord, Step
<1>2. ~disturbed \/ calls[c].alone => calls[c].alone /\ BusyCalls = {c}
  BY <1>1 DEF Solitude
<1>3. SUFFICES CallSets(c)' /\ Follows'
  BY <1>0, StepSets
<1>4. ASSUME calls[c].at \notin {"decide", "media"} PROVE CallSets(c)'
  BY <1>0, <1>4 DEF Moves, CallSets, Free
<1>5. ASSUME calls[c].at # "media", UNCHANGED <<content, media>>, disturbed' = disturbed PROVE Follows'
  <2>1. ~disturbed => \A d \in Calls : calls[d].at # "media"
    BY <1>2, <1>5 DEF BusyCalls
  <2> QED  BY <1>0, <1>5, <2>1 DEF MediaInv, Follows, HoldPending
<1>6. CASE Decide(c)
  <2>1. calls'[c].at = "media" /\ calls'[c].left = Variants /\ calls'[c].action = calls[c].action
    BY <1>1, <1>6 DEF Decide, CallRecord
  <2>2. \/ calls[c].action = "hold" /\ content' = "held"
        \/ calls[c].action = "restore" /\ content' = "active"
    BY <1>6 DEF Decide
  <2> QED  BY <2>1, <2>2 DEF CallSets, Follows
<1>7. CASE DecideNot(c)
  <2>1. CallSets(c)'
    BY <1>7 DEF DecideNot, Refuse, CallSets, Free, TypeOK
  <2> QED  BY <1>5, <1>7, <2>1 DEF DecideNot, Refuse, target
<1>8. CASE Die(c)
  BY <1>8 DEF Die, CallSets, Follows, Free, TypeOK
<1>9. CASE SetMedia(c)
  <2>1. PICK x \in calls[c].left :
          /\ SetVariant(x, IF calls[c].action = "restore" THEN "public" ELSE "withheld")
          /\ IF calls[c].left = {x} THEN Finish(c)
             ELSE /\ calls' = [calls EXCEPT ![c].left = @ \ {x}]
                  /\ UNCHANGED disturbed
    BY <1>9 DEF SetMedia
  <2>2. x \in Variants /\ content' = content /\ calls[c].at = "media"
    BY <1>1, <1>9 DEF CallRecord, SetMedia
  <2>3. /\ \A y \in Variants \ {x} : media'[y] = media[y]
        /\ calls[c].action = "restore" => media'[x] # "withheld"
        /\ calls[c].action # "restore" => media'[x] # "public"
    BY <2>1, <2>2 DEF SetVariant, TypeOK
  <2>4. CASE calls[c].left = {x}
    <3>1. calls'[c] = Free /\ (~disturbed' => calls[c].alone)
      BY <1>1, <1>2, <2>1, <2>4 DEF Finish
    <3>2. CallSets(c)'
      BY <3>1 DEF CallSets, Free
    <3>3. Follows'
      BY <1>0, <2>2, <2>3, <2>4, <3>1 DEF Follows, HoldPending, MediaInv, CallSets
    <3> QED  BY <3>2, <3>3
  <2>5. CASE calls[c].left # {x}
    <3>1. /\ calls'[c].at = "media" /\ calls'[c].left = calls[c].left \ {x}
          /\ calls'[c].action = calls[c].action /\ calls'[c].alone = calls[c].alone
      BY <1>1, <2>1, <2>2, <2>5 DEF CallRecord
    <3>2. CallSets(c)'
      BY <1>0, <2>2, <2>3, <3>1 DEF CallSets, HoldPending, MediaInv
    <3> QED  BY <3>1, <3>2 DEF Follows
  <2> QED  BY <2>4, <2>5
<1>10. CASE Prepare(c)
  BY <1>4, <1>5, <1>10 DEF Prepare, target
<1>11. CASE MarkDeleting(c)
  <2>1. calls[c].at = "mark" /\ media' = media /\ disturbed' = disturbed
    BY <1>11 DEF MarkDeleting, Refuse, Goto, target
  <2>2. content' = content \/ content' = "deleting"
    BY <1>11 DEF MarkDeleting, Refuse, target
  <2>3. content' = "deleting" => Follows'
    BY DEF Follows
  <2> QED  BY <1>4, <1>5, <2>1, <2>2, <2>3
<1>12. CASE PurgeAlerts(c)
  BY <1>4, <1>5, <1>12 DEF PurgeAlerts, Goto, target
<1>13. CASE RemoveMedia(c)
  <2>1. calls[c].at = "strip" /\ \A x \in Variants : media'[x] = "removed"
    BY <1>13 DEF RemoveMedia
  <2> QED  BY <1>4, <2>1 DEF Follows
<1>14. CASE Erase(c)
  BY <1>4, <1>14 DEF Erase, Follows
<1>15. CASE Complete(c)
  <2>1. content' = "gone" /\ calls[c].at = "complete"
    BY <1>15 DEF Complete, Truthful, target
  <2> QED  BY <1>4, <2>1 DEF Follows
<1> QED  BY <1>6, <1>7, <1>8, <1>9, <1>10, <1>11, <1>12, <1>13, <1>14, <1>15 DEF CallStep

LEMMA HandlerStepMedia ==
    ASSUME TypeOK, Solitude, MediaInv, NEW h \in Handlers, HandlerStep(h)
    PROVE  MediaInv'
<1>0. handlers \in [Handlers -> HandlerRecord] /\ handlers[h] \in HandlerRecord
  BY DEF TypeOK, HandlerRecord
<1>1. /\ h \in BusyHandlers /\ UNCHANGED <<calls, disturbed, content, holdVersion>>
      /\ \A g \in Handlers \ {h} : handlers'[g] = handlers[g]
  BY <1>0 DEF HandlerStep, CheckHold, WithholdMedia, HandlerDies, Handled, BusyHandlers, target
<1>2. \A c \in Calls : CallSets(c)'
  BY <1>1 DEF Solitude, CallSets, BusyCalls
<1>3. CASE CheckHold(h)
  <2>1. media' = media
    BY <1>3 DEF CheckHold, target
  <2>2. CASE StillHeld(handlers[h].version)
    <3>1. handlers'[h].version = handlers[h].version /\ handlers'[h].left = Variants /\ holdEvents' = holdEvents
      BY <1>0, <1>3, <2>2 DEF CheckHold, HandlerRecord
    <3>2. HandlerSets(h)'
      BY <1>1, <2>2, <3>1 DEF HandlerSets, StillHeld
    <3>3. \A g \in Handlers \ {h} : HandlerSets(g)'
      BY <1>1, <2>1 DEF HandlerSets, MediaInv
    <3>4. Follows'
      BY <1>1, <2>1, <3>1 DEF MediaInv, Follows, HoldPending
    <3> QED  BY <1>2, <3>2, <3>3, <3>4 DEF MediaInv
  <2>3. CASE ~StillHeld(handlers[h].version)
    <3>1. handlers'[h] = Waiting /\ holdEvents' = holdEvents \ {handlers[h].version}
      BY <1>0, <1>3, <2>3 DEF CheckHold, Handled
    <3>2. HoldPending => HoldPending'
      BY <1>1, <2>3, <3>1 DEF HoldPending, StillHeld
    <3>3. \A g \in Handlers : HandlerSets(g)'
      BY <1>1, <2>1, <3>1 DEF HandlerSets, MediaInv, Waiting
    <3>4. Follows'
      BY <1>1, <2>1, <3>2 DEF MediaInv, Follows
    <3> QED  BY <1>2, <3>3, <3>4 DEF MediaInv
  <2> QED  BY <2>2, <2>3
<1>4. CASE WithholdMedia(h)
  <2>1. PICK x \in handlers[h].left :
          /\ SetVariant(x, "withheld")
          /\ IF handlers[h].left = {x} THEN Handled(h)
             ELSE /\ handlers' = [handlers EXCEPT ![h].left = @ \ {x}]
                  /\ UNCHANGED holdEvents
    BY <1>4 DEF WithholdMedia
  <2>2. x \in Variants /\ handlers[h].at = "media"
    BY <1>0, <1>4 DEF HandlerRecord, WithholdMedia
  <2>3. (\A y \in Variants \ {x} : media'[y] = media[y]) /\ media'[x] # "public"
    BY <2>1, <2>2 DEF SetVariant, TypeOK
  <2>4. \A g \in Handlers \ {h} : HandlerSets(g)'
    BY <1>1, <2>3 DEF HandlerSets, MediaInv
  <2>5. ~disturbed => content = "held" /\ \A y \in Variants \ handlers[h].left : media[y] # "public"
    BY <2>2 DEF HandlerSets, MediaInv
  <2>6. CASE handlers[h].left = {x}
    <3>1. handlers'[h] = Waiting
      BY <1>0, <2>1, <2>6 DEF Handled
    <3>2. Follows'
      BY <1>1, <2>3, <2>5, <2>6 DEF Follows
    <3> QED  BY <1>2, <2>4, <3>1, <3>2 DEF MediaInv, HandlerSets, Waiting
  <2>7. CASE handlers[h].left # {x}
    <3>1. /\ handlers'[h].left = handlers[h].left \ {x} /\ handlers'[h].version = handlers[h].version
          /\ handlers'[h].at = "media" /\ holdEvents' = holdEvents
      BY <1>0, <2>1, <2>2, <2>7 DEF HandlerRecord
    <3>2. HandlerSets(h)'
      BY <1>1, <2>2, <2>3, <3>1 DEF HandlerSets, MediaInv
    <3>3. Follows'
      BY <1>1, <2>3, <2>5, <3>1 DEF MediaInv, Follows, HoldPending
    <3> QED  BY <1>2, <2>4, <3>2, <3>3 DEF MediaInv
  <2> QED  BY <2>6, <2>7
<1>5. CASE HandlerDies(h)
  <2>1. handlers'[h] = Waiting /\ UNCHANGED <<media, holdEvents>>
    BY <1>0, <1>5 DEF HandlerDies, target
  <2>2. \A g \in Handlers : HandlerSets(g)'
    BY <1>1, <2>1 DEF HandlerSets, MediaInv, Waiting
  <2> QED  BY <1>1, <1>2, <2>1, <2>2 DEF MediaInv, Follows, HoldPending
<1> QED  BY <1>3, <1>4, <1>5 DEF HandlerStep

LEMMA NextMedia == TypeOK /\ Truthful /\ Solitude /\ MediaInv /\ [Next]_vars => MediaInv'
<1> SUFFICES ASSUME TypeOK, Truthful, Solitude, MediaInv, [Next]_vars PROVE MediaInv'
  OBVIOUS
<1>0. calls \in [Calls -> CallRecord] /\ handlers \in [Handlers -> HandlerRecord]
  BY DEF TypeOK, CallRecord, HandlerRecord
<1>1. ASSUME \A d \in Calls : ~calls'[d].alone, disturbed' PROVE MediaInv'
  BY <1>1 DEF MediaInv, Follows, CallSets, HandlerSets
<1>2. ASSUME NEW c \in Calls, NEW a \in Actions, Begin(c, a) PROVE MediaInv'
  <2> DEFINE fresh == [Free EXCEPT !.action = Starts(a)[1], !.at = Starts(a)[2]]
  <2>1. CASE BusyCalls = {} /\ BusyHandlers = {}
    <3>1. calls' = [calls EXCEPT ![c] = fresh] /\ disturbed' = disturbed /\ UNCHANGED <<target, holds>>
      BY <1>2, <2>1 DEF Begin, TypeOK
    <3>2. Starts(a)[2] # "media"
      BY DEF Starts
    <3>3. \A d \in Calls : calls[d].at # "media" /\ calls'[d].at # "media"
      BY <1>0, <2>1, <3>1, <3>2 DEF BusyCalls, Free
    <3>4. \A h \in Handlers : handlers[h].at # "media"
      BY <2>1 DEF BusyHandlers
    <3> QED  BY <3>1, <3>3, <3>4 DEF MediaInv, Follows, CallSets, HandlerSets, HoldPending, target, holds
  <2>2. CASE ~(BusyCalls = {} /\ BusyHandlers = {})
    <3>1. calls' = NobodyAlone([calls EXCEPT ![c] = fresh]) /\ disturbed'
      BY <1>2, <2>2 DEF Begin
    <3>2. ASSUME NEW d \in Calls PROVE ~calls'[d].alone
      BY <1>0, <3>1 DEF NobodyAlone, Free, CallRecord
    <3> QED  BY <1>1, <3>1, <3>2
  <2> QED  BY <2>1, <2>2
<1>3. ASSUME NEW h \in Handlers, NEW v \in 1..MaxHolds, StartEvent(h, v) PROVE MediaInv'
  <2>1. CASE BusyCalls = {}
    <3>1. UNCHANGED <<target, calls, disturbed, holdVersion, holdEvents>>
      BY <1>3, <2>1 DEF StartEvent, TypeOK
    <3>2. handlers'[h].at = "check" /\ \A g \in Handlers \ {h} : handlers'[g] = handlers[g]
      BY <1>0, <1>3 DEF StartEvent, Waiting
    <3> QED  BY <3>1, <3>2 DEF MediaInv, Follows, CallSets, HandlerSets, HoldPending, target
  <2>2. CASE BusyCalls # {}
    <3>1. calls' = NobodyAlone(calls) /\ disturbed'
      BY <1>3, <2>2 DEF StartEvent
    <3>2. ASSUME NEW d \in Calls PROVE ~calls'[d].alone
      BY <1>0, <3>1 DEF NobodyAlone, CallRecord
    <3> QED  BY <1>1, <3>1, <3>2
  <2> QED  BY <2>1, <2>2
<1>4. CASE AutoHold
  <2>1. content = "active" /\ HoldPending' /\ UNCHANGED <<media, calls, handlers, disturbed>> /\ content' = "held"
    BY <1>4 DEF AutoHold, HoldPending
  <2>2. \A c \in Calls : CallSets(c)'
    BY <2>1 DEF MediaInv, CallSets
  <2>3. \A h \in Handlers : HandlerSets(h)'
    BY <2>1 DEF MediaInv, HandlerSets
  <2> QED  BY <2>1, <2>2, <2>3 DEF MediaInv, Follows
<1>5. ASSUME UNCHANGED <<content, media, calls, handlers, disturbed, holdVersion, holdEvents>> PROVE MediaInv'
  BY <1>5 DEF MediaInv, Follows, CallSets, HandlerSets, HoldPending
<1>6. CASE (\E v \in Notices : DeliverNotice(v)) \/ DismissAlert \/ OwnerLeaves
  BY <1>5, <1>6 DEF DeliverNotice, DismissAlert, OwnerLeaves, holds, target
<1>7. CASE UNCHANGED vars
  BY <1>5, <1>7 DEF vars, holds, target
<1> QED  BY <1>2, <1>3, <1>4, <1>6, <1>7, CallStepMedia, HandlerStepMedia DEF Next

LEMMA AlwaysMedia == Spec => []MediaInv
<1>1. Init => MediaInv
  <2> SUFFICES ASSUME Init PROVE MediaInv
    OBVIOUS
  <2>1. /\ content = "active" /\ \A x \in Variants : media[x] = "public"
        /\ \A c \in Calls : calls[c].at = "idle"
        /\ \A h \in Handlers : handlers[h].at = "idle"
    BY DEF Init, Free, Waiting
  <2> QED  BY <2>1 DEF MediaInv, Follows, CallSets, HandlerSets
<1> QED  BY <1>1, NextMedia, AlwaysTruthful, AlwaysSolitude, ModerationTypeCorrect, PTL DEF Spec

(* Once everything in flight is done, the media of held content are not    *)
(* public and those of active content not withheld, unless a call died or  *)
(* overlapped with another and none has run alone since                    *)
(* (adminService.js:304-577, moderationService.js:184-258).                *)
THEOREM MediaFollow == Spec => []MediaFollowsStatus
<1>1. MediaInv => MediaFollowsStatus
  BY DEF MediaInv, Follows, HoldPending, MediaFollowsStatus, Quiet, BusyCalls
<1> QED  BY <1>1, AlwaysMedia, PTL
-----------------------------------------------------------------------------
(* A notice is ready only for content that is gone; nothing is ahead of    *)
(* the outbox, and an alert is never older than the tombstone.  A deletion *)
(* that is alone knows the latest version, and erases what is still there. *)
Ordered ==
    /\ outbox.state = "ready" => content = "gone"
    /\ alert <= outbox.version /\ dismissed <= outbox.version
    /\ \A v \in signals : v <= outbox.version
    /\ alert > 0 => dismissed < alert
DeletesAlone(c) == c \in BusyCalls /\ calls[c].alone /\ calls[c].action # "recover" =>
    /\ calls[c].version \in {0, outbox.version}
    /\ calls[c].at \in {"purge", "strip", "erase"} => content # "gone"
Recovering == \E c \in Calls : calls[c].action = "recover" /\ calls[c].at = "complete"
Arrives == ~disturbed /\ outbox.state = "ready" /\ eligible /\ ~Recovering =>
    outbox.version \in signals \/ alert = outbox.version \/ dismissed >= outbox.version
NoticeInv == Ordered /\ (\A c \in Calls : DeletesAlone(c)) /\ Arrives

LEMMA CallStepNotice ==
    ASSUME TypeOK, Numbered, Truthful, Solitude, MediaInv, NoticeInv, NEW c \in Calls, CallStep(c)
    PROVE  NoticeInv'
<1>0. Step(c) /\ Moves(c)
  BY CallStepShape, CallStepMoves
<1>1. calls \in [Calls -> CallRecord] /\ calls[c] \in CallRecord /\ c \in BusyCalls
  BY <1>0 DEF TypeOK, CallRecord, Step
<1>2. ~disturbed \/ calls[c].alone => calls[c].alone
  BY <1>1 DEF Solitude
<1>3. ~disturbed' => calls[c].alone
  BY <1>0, <1>2 DEF Step
<1>4. /\ outbox \in [state : {"none", "pending", "ready"}, version : Nat]
      /\ alert \in Nat /\ dismissed \in Nat /\ signals \subseteq Nat
  BY DEF TypeOK, Notices
<1>5. /\ outbox.state = "ready" => content = "gone"
      /\ alert <= outbox.version /\ dismissed <= outbox.version
      /\ \A v \in signals : v <= outbox.version
      /\ alert > 0 => dismissed < alert
  BY DEF NoticeInv, Ordered
<1>6. ASSUME NEW d \in Calls \ {c} PROVE DeletesAlone(d)'
  <2>1. calls'[d] = calls[d]
    BY <1>0 DEF Step
  <2>2. ~(d \in BusyCalls /\ calls[d].alone)
    BY <1>1 DEF Solitude
  <2> QED  BY <2>1, <2>2 DEF DeletesAlone, BusyCalls
<1>7. SUFFICES Ordered' /\ DeletesAlone(c)' /\ Arrives'
  BY <1>6 DEF NoticeInv
(* A step that leaves the notice and what is gone alone.                   *)
<1>8. ASSUME UNCHANGED notice, content = "gone" => content' = "gone" PROVE Ordered'
  BY <1>5, <1>8 DEF Ordered, notice
<1>9. ASSUME UNCHANGED notice, disturbed' = disturbed, calls[c].at # "complete" PROVE Arrives'
  <2>1. Recovering => Recovering'
    BY <1>0, <1>9 DEF Step, Recovering
  <2> QED  BY <1>9, <2>1 DEF NoticeInv, Arrives, notice
<1>10. ASSUME calls'[c] = Free PROVE DeletesAlone(c)'
  BY <1>10 DEF DeletesAlone, BusyCalls, Free
<1>11. ASSUME calls'[c].at \in {"media", "decide"}, calls'[c].version = calls[c].version, calls'[c].action = calls[c].action,
              calls'[c].alone = calls[c].alone, UNCHANGED outbox
       PROVE  DeletesAlone(c)'
  BY <1>1, <1>11 DEF NoticeInv, DeletesAlone, BusyCalls
<1>12. CASE Decide(c)
  <2>1. UNCHANGED notice /\ content # "gone" /\ disturbed' = disturbed /\ calls[c].at = "decide"
    BY <1>12 DEF Decide, MayRestore
  <2>2. /\ calls'[c].at = "media" /\ calls'[c].version = calls[c].version
        /\ calls'[c].action = calls[c].action /\ calls'[c].alone = calls[c].alone
    BY <1>1, <1>12 DEF Decide, CallRecord
  <2> QED  BY <1>8, <1>9, <1>11, <2>1, <2>2 DEF notice
<1>13. CASE DecideNot(c)
  <2>1. UNCHANGED notice /\ content' = content /\ disturbed' = disturbed /\ calls[c].at = "decide" /\ calls'[c] = Free
    BY <1>1, <1>13 DEF DecideNot, Refuse, target
  <2> QED  BY <1>8, <1>9, <1>10, <2>1
<1>14. CASE Die(c)
  <2>1. UNCHANGED notice /\ content' = content /\ disturbed' /\ calls'[c] = Free
    BY <1>1, <1>14 DEF Die, target
  <2> QED  BY <1>8, <1>10, <2>1 DEF Arrives
<1>15. CASE SetMedia(c)
  <2>1. UNCHANGED notice /\ content' = content /\ calls[c].at = "media"
    BY <1>15 DEF SetMedia
  <2>2. calls[c].alone => outbox.state # "ready"
    BY <1>5, <2>1 DEF MediaInv, CallSets, HoldPending
  <2>3. Arrives'
    BY <1>3, <2>1, <2>2 DEF Arrives, notice
  <2>4. DeletesAlone(c)'
    <3>1. PICK x \in calls[c].left : calls' = [calls EXCEPT ![c] = Free] \/ calls' = [calls EXCEPT ![c].left = @ \ {x}]
      BY <1>15 DEF SetMedia, Finish
    <3>2. CASE calls' = [calls EXCEPT ![c] = Free]
      BY <1>1, <1>10, <3>2
    <3>3. CASE calls' = [calls EXCEPT ![c].left = @ \ {x}]
      <4>1. /\ calls'[c].at = "media" /\ calls'[c].version = calls[c].version
            /\ calls'[c].action = calls[c].action /\ calls'[c].alone = calls[c].alone
        BY <1>1, <2>1, <3>3 DEF CallRecord
      <4> QED  BY <1>11, <2>1, <4>1 DEF notice
    <3> QED  BY <3>1, <3>2, <3>3
  <2> QED  BY <1>8, <2>1, <2>3, <2>4
<1>16. CASE Prepare(c)
  <2> DEFINE version == IF outbox.state = "pending" THEN outbox.version ELSE outbox.version + 1
  <2>1. content' = content /\ UNCHANGED <<eligible, signals, alert, dismissed, disturbed>> /\ calls[c].at = "prepare"
    BY <1>16 DEF Prepare, target
  <2>2. \/ /\ outbox' = [state |-> "pending", version |-> version]
           /\ calls' = [calls EXCEPT ![c].at = "mark", ![c].version = version]
        \/ outbox' = outbox /\ calls' = [calls EXCEPT ![c].at = "mark"]
    BY <1>16 DEF Prepare
  <2>3. version \in Nat /\ outbox.version <= version
    BY <1>4
  <2> HIDE DEF version
  <2>4. CASE /\ outbox' = [state |-> "pending", version |-> version]
             /\ calls' = [calls EXCEPT ![c].at = "mark", ![c].version = version]
    <3>1. calls'[c].at = "mark" /\ calls'[c].version = version /\ outbox'.version = version /\ outbox'.state = "pending"
      BY <1>1, <2>4 DEF CallRecord
    <3>2. Ordered'
      BY <1>4, <1>5, <2>1, <2>3, <3>1 DEF Ordered
    <3> QED  BY <3>1, <3>2 DEF DeletesAlone, Arrives
  <2>5. CASE outbox' = outbox /\ calls' = [calls EXCEPT ![c].at = "mark"]
    <3>1. /\ calls'[c].at = "mark" /\ calls'[c].version = calls[c].version
          /\ calls'[c].action = calls[c].action /\ calls'[c].alone = calls[c].alone
      BY <1>1, <2>5 DEF CallRecord
    <3>2. Ordered'
      BY <1>5, <2>1, <2>5 DEF Ordered
    <3>3. DeletesAlone(c)'
      BY <1>1, <2>5, <3>1 DEF NoticeInv, DeletesAlone, BusyCalls
    <3>4. Arrives'
      <4>1. Recovering => Recovering'
        BY <1>0, <2>1 DEF Step, Recovering
      <4> QED  BY <2>1, <2>5, <4>1 DEF NoticeInv, Arrives
    <3> QED  BY <3>2, <3>3, <3>4
  <2> QED  BY <2>2, <2>4, <2>5
<1>17. CASE MarkDeleting(c)
  <2>1. UNCHANGED notice /\ disturbed' = disturbed /\ calls[c].at = "mark" /\ (content = "gone" => content' = "gone")
    BY <1>17 DEF MarkDeleting, Refuse, Goto, target
  <2>2. DeletesAlone(c)'
    <3>1. CASE content = "gone"
      BY <1>1, <1>10, <1>17, <3>1 DEF MarkDeleting, Refuse
    <3>2. CASE content # "gone"
      <4>1. content' # "gone" /\ calls' = [calls EXCEPT ![c].at = "purge"]
        BY <1>17, <3>2 DEF MarkDeleting, Goto, AfterStage
      <4>2. /\ calls'[c].at = "purge" /\ calls'[c].version = calls[c].version
            /\ calls'[c].action = calls[c].action /\ calls'[c].alone = calls[c].alone
        BY <1>1, <4>1 DEF CallRecord
      <4> QED  BY <1>1, <2>1, <4>1, <4>2 DEF NoticeInv, DeletesAlone, BusyCalls, notice
    <3> QED  BY <3>1, <3>2
  <2> QED  BY <1>8, <1>9, <2>1, <2>2
<1>18. CASE PurgeAlerts(c)
  <2>1. /\ alert' = 0 /\ UNCHANGED <<eligible, outbox, signals, dismissed, content, disturbed>>
        /\ calls[c].at = "purge"
    BY <1>18 DEF PurgeAlerts, Goto, target
  <2>2. /\ calls'[c].at = IF calls[c].action = "recover" THEN "complete" ELSE "strip"
        /\ calls'[c].version = calls[c].version
        /\ calls'[c].action = calls[c].action /\ calls'[c].alone = calls[c].alone
    BY <1>1, <1>18 DEF PurgeAlerts, Goto, AfterStage, CallRecord
  <2>3. Ordered'
    BY <1>4, <1>5, <2>1 DEF Ordered
  <2>4. DeletesAlone(c)'
    BY <1>1, <2>1, <2>2 DEF NoticeInv, DeletesAlone, BusyCalls
  <2>5. Arrives'
    <3>1. calls[c].action = "recover" => Recovering'
      BY <2>2 DEF Recovering
    <3>2. calls[c].action # "recover" /\ calls[c].alone => outbox.state # "ready"
      BY <1>1, <1>5, <2>1 DEF NoticeInv, DeletesAlone
    <3> QED  BY <1>3, <2>1, <3>1, <3>2 DEF Arrives
  <2> QED  BY <2>3, <2>4, <2>5
<1>19. CASE RemoveMedia(c)
  <2>1. UNCHANGED notice /\ disturbed' = disturbed /\ calls[c].at = "strip" /\ content' = content
    BY <1>19 DEF RemoveMedia, Goto
  <2>2. /\ calls'[c].at = "erase" /\ calls'[c].version = calls[c].version
        /\ calls'[c].action = calls[c].action /\ calls'[c].alone = calls[c].alone
    BY <1>1, <1>19 DEF RemoveMedia, Goto, AfterStage, CallRecord
  <2>3. DeletesAlone(c)'
    BY <1>1, <2>1, <2>2 DEF NoticeInv, DeletesAlone, BusyCalls, notice
  <2> QED  BY <1>8, <1>9, <2>1, <2>3
<1>20. CASE Erase(c)
  <2>1. UNCHANGED notice /\ calls[c].at = "erase" /\ content' = "gone"
    BY <1>20 DEF Erase
  <2>2. calls[c].alone => outbox.state # "ready"
    BY <1>1, <1>5, <2>1 DEF NoticeInv, DeletesAlone, Numbered
  <2>3. Arrives'
    BY <1>3, <2>1, <2>2 DEF Arrives, notice
  <2>4. DeletesAlone(c)'
    <3>1. CASE calls' = [calls EXCEPT ![c] = Free]
      BY <1>1, <1>10, <3>1
    <3>2. CASE calls' = [calls EXCEPT ![c].at = "complete"]
      <4>1. /\ calls'[c].at = "complete" /\ calls'[c].version = calls[c].version
            /\ calls'[c].action = calls[c].action /\ calls'[c].alone = calls[c].alone
        BY <1>1, <3>2 DEF CallRecord
      <4> QED  BY <1>1, <2>1, <4>1 DEF NoticeInv, DeletesAlone, BusyCalls, notice
    <3> QED  BY <1>20, <3>1, <3>2 DEF Erase, Finish, Goto
  <2> QED  BY <1>8, <2>1, <2>3, <2>4
<1>21. CASE Complete(c)
  <2> DEFINE v == IF calls[c].action = "recover" THEN outbox.version ELSE calls[c].version
  <2>1. /\ UNCHANGED <<content, eligible, alert, dismissed>> /\ calls[c].at = "complete" /\ calls'[c] = Free
        /\ IF outbox.version = v THEN outbox' = [outbox EXCEPT !.state = "ready"] /\ signals' = signals \cup {v}
           ELSE UNCHANGED <<outbox, signals>>
    BY <1>1, <1>21 DEF Complete, Finish, SignalsAgain, target
  <2>2. content = "gone"
    BY <2>1 DEF Truthful
  <2>3. calls[c].alone => v = outbox.version
    BY <1>1, <2>1 DEF NoticeInv, DeletesAlone, Numbered
  <2> HIDE DEF v
  <2>4. outbox'.version = outbox.version /\ \A n \in signals' : n \in signals \/ n = outbox.version
    BY <1>4, <2>1
  <2>5. Ordered'
    BY <1>4, <1>5, <2>1, <2>2, <2>4 DEF Ordered
  <2>6. Arrives'
    BY <1>3, <2>1, <2>3, <2>4 DEF Arrives
  <2> QED  BY <1>10, <2>1, <2>5, <2>6
<1> QED  BY <1>12, <1>13, <1>14, <1>15, <1>16, <1>17, <1>18, <1>19, <1>20, <1>21 DEF CallStep

LEMMA NextNotice ==
    TypeOK /\ Numbered /\ Truthful /\ Solitude /\ MediaInv /\ NoticeInv /\ [Next]_vars => NoticeInv'
<1> SUFFICES ASSUME TypeOK, Numbered, Truthful, Solitude, MediaInv, NoticeInv, [Next]_vars PROVE NoticeInv'
  OBVIOUS
<1>0. calls \in [Calls -> CallRecord]
  BY DEF TypeOK, CallRecord
<1>1. /\ outbox.version \in Nat /\ alert \in Nat /\ dismissed \in Nat /\ signals \subseteq Nat
  BY DEF TypeOK, Notices
<1>2. ASSUME \A d \in Calls : ~calls'[d].alone, disturbed', UNCHANGED <<content, notice>> PROVE NoticeInv'
  BY <1>2 DEF NoticeInv, Ordered, DeletesAlone, Arrives, notice
<1>3. ASSUME NEW c \in Calls, NEW a \in Actions, Begin(c, a) PROVE NoticeInv'
  <2> DEFINE fresh == [Free EXCEPT !.action = Starts(a)[1], !.at = Starts(a)[2]]
  <2>0. UNCHANGED <<content, notice>>
    BY <1>3 DEF Begin, target
  <2>1. CASE BusyCalls = {} /\ BusyHandlers = {}
    <3>1. calls' = [calls EXCEPT ![c] = fresh] /\ disturbed' = disturbed
      BY <1>3, <2>1 DEF Begin, TypeOK
    <3>2. calls'[c].version = 0 /\ (calls'[c].at = "purge" => calls'[c].action = "recover")
          /\ calls'[c].at \notin {"strip", "erase", "complete"}
      BY <1>0, <3>1 DEF Starts, Free
    <3>3. \A d \in Calls \ {c} : calls'[d] = calls[d] /\ calls[d].at = "idle"
      BY <1>0, <2>1, <3>1 DEF BusyCalls
    <3>4. \A d \in Calls : DeletesAlone(d)'
      BY <3>2, <3>3 DEF DeletesAlone, BusyCalls
    <3>5. ~Recovering
      BY <2>1 DEF Recovering, BusyCalls
    <3> QED  BY <2>0, <3>1, <3>4, <3>5 DEF NoticeInv, Ordered, Arrives, notice
  <2>2. CASE ~(BusyCalls = {} /\ BusyHandlers = {})
    <3>1. calls' = NobodyAlone([calls EXCEPT ![c] = fresh]) /\ disturbed'
      BY <1>3, <2>2 DEF Begin
    <3>2. ASSUME NEW d \in Calls PROVE ~calls'[d].alone
      BY <1>0, <3>1 DEF NobodyAlone, Free, CallRecord
    <3> QED  BY <1>2, <2>0, <3>1, <3>2
  <2> QED  BY <2>1, <2>2
<1>4. ASSUME UNCHANGED <<content, notice, calls, disturbed>> PROVE NoticeInv'
  BY <1>4 DEF NoticeInv, Ordered, DeletesAlone, BusyCalls, Arrives, Recovering, notice
<1>5. ASSUME NEW h \in Handlers, NEW v \in 1..MaxHolds, StartEvent(h, v) PROVE NoticeInv'
  <2>0. UNCHANGED <<content, notice>>
    BY <1>5 DEF StartEvent, target
  <2>1. CASE BusyCalls = {}
    BY <1>4, <1>5, <2>0, <2>1 DEF StartEvent, TypeOK
  <2>2. CASE BusyCalls # {}
    <3>1. calls' = NobodyAlone(calls) /\ disturbed'
      BY <1>5, <2>2 DEF StartEvent
    <3>2. ASSUME NEW d \in Calls PROVE ~calls'[d].alone
      BY <1>0, <3>1 DEF NobodyAlone, CallRecord
    <3> QED  BY <1>2, <2>0, <3>1, <3>2
  <2> QED  BY <2>1, <2>2
<1>6. ASSUME NEW h \in Handlers, HandlerStep(h) PROVE NoticeInv'
  BY <1>4, <1>6 DEF HandlerStep, CheckHold, WithholdMedia, HandlerDies, target
<1>7. CASE AutoHold
  <2>1. content = "active" /\ content' = "held" /\ UNCHANGED <<notice, calls, disturbed>>
    BY <1>7 DEF AutoHold
  <2>2. outbox.state # "ready"
    BY <2>1 DEF NoticeInv, Ordered
  <2> QED  BY <2>1, <2>2 DEF NoticeInv, Ordered, DeletesAlone, BusyCalls, Arrives, notice
<1>8. ASSUME NEW v \in Notices, DeliverNotice(v) PROVE NoticeInv'
  <2>1. /\ v \in signals /\ UNCHANGED <<content, eligible, outbox, dismissed, calls, disturbed>>
        /\ signals' \in {signals, signals \ {v}} /\ v \in Nat /\ v <= outbox.version
        /\ IF eligible /\ Newer(v) THEN alert' = v ELSE alert' = alert
    BY <1>8 DEF DeliverNotice, target, Notices, NoticeInv, Ordered
  <2>2. Ordered'
    BY <1>1, <2>1 DEF NoticeInv, Ordered, Newer
  <2>3. Arrives'
    BY <1>1, <2>1 DEF NoticeInv, Ordered, Arrives, Newer, Recovering
  <2>4. \A c \in Calls : DeletesAlone(c)'
    BY <2>1 DEF NoticeInv, DeletesAlone, BusyCalls
  <2> QED  BY <2>2, <2>3, <2>4 DEF NoticeInv
<1>9. CASE DismissAlert
  <2>1. /\ alert > 0 /\ dismissed' = alert /\ alert' = 0
        /\ UNCHANGED <<content, eligible, outbox, signals, calls, disturbed>>
    BY <1>9 DEF DismissAlert, target
  <2>2. Ordered'
    BY <1>1, <2>1 DEF NoticeInv, Ordered
  <2>3. Arrives'
    BY <1>1, <2>1 DEF NoticeInv, Ordered, Arrives, Recovering
  <2>4. \A c \in Calls : DeletesAlone(c)'
    BY <2>1 DEF NoticeInv, DeletesAlone, BusyCalls
  <2> QED  BY <2>2, <2>3, <2>4 DEF NoticeInv
<1>10. CASE OwnerLeaves
  BY <1>10 DEF OwnerLeaves, target, NoticeInv, Ordered, DeletesAlone, BusyCalls, Arrives
<1>11. CASE UNCHANGED vars
  BY <1>4, <1>11 DEF vars, target
<1> QED  BY <1>3, <1>5, <1>6, <1>7, <1>8, <1>9, <1>10, <1>11, CallStepNotice DEF Next

(* Once everything is handled, a completed notice is in the inbox or its   *)
(* owner has dismissed it: whatever call purges a delivered row completes  *)
(* the notice again, unless it died or overlapped with another             *)
(* (deletionService.js:142, adminService.js:327-344).                      *)
THEOREM CompletedNoticesArrive == Spec => []NoticeArrives
<1>1. Init => NoticeInv
  BY DEF Init, Free, NoticeInv, Ordered, DeletesAlone, BusyCalls, Arrives
<1>2. TypeOK /\ NoticeInv => NoticeArrives
  BY DEF NoticeInv, Arrives, Recovering, NoticeArrives, Quiet, BusyCalls
<1> QED  BY <1>1, <1>2, NextNotice, AlwaysTruthful, AlwaysSolitude, AlwaysMedia, ModerationTypeCorrect, PTL DEF Spec
=============================================================================
