--------------------------- MODULE ContentModeration ---------------------------
(***************************************************************************)
(* One published recommendation, route or trip under moderation: its       *)
(* status, the storage objects of its media, the automatic hold of the     *)
(* report projection and the outbox that tells the owner of a deletion     *)
(* (functions/adminService.js, moderationService.js, deletionService.js    *)
(* and the owner outbox of notificationService.js).                        *)
(*                                                                         *)
(* A moderator's call and the owner's own deletion run step by step, a     *)
(* step being one transaction or one storage write, and may die between    *)
(* any two; nobody repeats them but their caller.  Trigger events are      *)
(* repeated until they are handled, and may be handled again later.  The   *)
(* case document is kept only as the version of its held-media projection. *)
(***************************************************************************)
EXTENDS Integers, FiniteSets

CONSTANTS
    Calls,       \* callable invocations that may run at once
    Handlers,    \* trigger invocations that may run at once
    Variants,    \* storage objects of the content's media
    Actions,     \* bound: what the calls of a run do
    MaxHolds,    \* bound: automatic holds
    MaxNotices   \* bound: versions of the deletion notice

ASSUME ModerationBounds ==
    /\ Actions \subseteq {"hold", "restore", "delete", "withdraw"}
    /\ MaxHolds \in Nat /\ MaxNotices \in Nat
    /\ Variants # {}

VARIABLES
    content,     \* status of the document, "gone" when it is deleted
    lastAction,  \* moderation.lastAction
    media,       \* [Variants -> availability]
    holdVersion, \* mediaModeration.version of the case, 0 if none
    holdEvents,  \* versions whose case event has not been handled
    eligible,    \* the owner's account is not being deleted
    outbox,      \* the content_deleted outbox document
    signals,     \* outbox versions whose ready event has not been handled
    alert,       \* push.version of the owner's content_deleted row, 0 if absent
    dismissed,   \* version in the tombstone of that row
    delivered,   \* versions that reached the inbox at some time
    calls,       \* [Calls -> what an invocation is doing]
    handlers,    \* [Handlers -> what a trigger invocation is doing]
    erasedBy,    \* the action whose call erased the document
    disturbed    \* a call died, or shared its time, and none has run alone since

target == <<content, lastAction, media, erasedBy>>
notice == <<eligible, outbox, signals, alert, dismissed, delivered>>
holds == <<holdVersion, holdEvents, handlers>>
vars == <<target, notice, holds, calls, disturbed>>

Stages == {"idle", "decide", "media", "prepare", "mark", "purge", "strip", "erase", "complete"}
Free == [at |-> "idle", action |-> "none", version |-> 0, left |-> {}, alone |-> TRUE]
Waiting == [at |-> "idle", version |-> 0, left |-> {}]
Notices == 1..MaxNotices

TypeOK ==
    /\ content \in {"active", "held", "deleting", "gone"}
    /\ lastAction \in {"none", "hold", "restore"}
    /\ media \in [Variants -> {"public", "withheld", "removed"}]
    /\ holdVersion \in 0..MaxHolds /\ holdEvents \subseteq 1..MaxHolds
    /\ eligible \in BOOLEAN
    /\ outbox \in [state : {"none", "pending", "ready"}, version : 0..MaxNotices]
    /\ signals \subseteq Notices
    /\ alert \in 0..MaxNotices /\ dismissed \in 0..MaxNotices
    /\ delivered \subseteq Notices
    /\ calls \in [Calls -> [at : Stages, action : Actions \cup {"none", "recover"},
            version : 0..MaxNotices, left : SUBSET Variants, alone : BOOLEAN]]
    /\ handlers \in [Handlers -> [at : {"idle", "check", "media"},
            version : 0..MaxHolds, left : SUBSET Variants]]
    /\ erasedBy \in {"none", "delete", "withdraw"}
    /\ disturbed \in BOOLEAN

Init ==
    /\ content = "active" /\ lastAction = "none" /\ erasedBy = "none"
    /\ media = [x \in Variants |-> "public"]
    /\ holdVersion = 0 /\ holdEvents = {} /\ handlers = [h \in Handlers |-> Waiting]
    /\ eligible = TRUE /\ outbox = [state |-> "none", version |-> 0]
    /\ signals = {} /\ alert = 0 /\ dismissed = 0
    /\ delivered = {}
    /\ calls = [c \in Calls |-> Free] /\ disturbed = FALSE
-----------------------------------------------------------------------------
BusyCalls == {c \in Calls : calls[c].at # "idle"}
BusyHandlers == {h \in Handlers : handlers[h].at # "idle"}

Goto(c, stage) == calls' = [calls EXCEPT ![c].at = stage] /\ UNCHANGED disturbed

(* A call that ran to its end with nobody beside it has put things right.  *)
Finish(c) ==
    /\ calls' = [calls EXCEPT ![c] = Free]
    /\ disturbed' = (disturbed /\ ~calls[c].alone)
Refuse(c) == calls' = [calls EXCEPT ![c] = Free] /\ UNCHANGED <<target, notice, disturbed>>

(* An invocation that begins beside another: neither is alone any more.    *)
NobodyAlone(C) == [c \in Calls |-> [C[c] EXCEPT !.alone = FALSE]]

(* setMediaAvailability, one object: a removed one is skipped.             *)
SetVariant(x, availability) ==
    media' = IF media[x] = "removed" THEN media ELSE [media EXCEPT ![x] = availability]
-----------------------------------------------------------------------------
(* moderateContent and deleteContent read the document, and what they find *)
(* decides how they start.  A deletion of content that is gone already is  *)
(* a recovery if an outbox document is there (variant: no notice prepared).*)
MayRestore == content = "held" \/ (content = "active" /\ lastAction = "restore")
StartsUnprepared(a) ==
    CASE a = "delete" /\ content # "gone" -> <<"delete", "mark">>
      [] OTHER -> <<"none", "idle">>
Starts(a) ==
    CASE a = "hold" /\ content # "gone" -> <<"hold", "decide">>
      [] a = "restore" /\ MayRestore -> <<"restore", "decide">>
      [] a = "delete" /\ content # "gone" -> <<"delete", "prepare">>
      [] a = "delete" /\ content = "gone" /\ outbox.state # "none" -> <<"recover", "purge">>
      [] a = "withdraw" /\ content # "gone" -> <<"withdraw", "mark">>
      [] OTHER -> <<"none", "idle">>

Begin(c, a) ==
    LET fresh == [Free EXCEPT !.action = Starts(a)[1], !.at = Starts(a)[2]]
        beside == BusyCalls # {} \/ BusyHandlers # {}
    IN /\ c \notin BusyCalls /\ Starts(a)[2] # "idle"
       /\ calls' = IF beside THEN NobodyAlone([calls EXCEPT ![c] = fresh])
                   ELSE [calls EXCEPT ![c] = fresh]
       /\ disturbed' = (disturbed \/ beside)
       /\ UNCHANGED <<target, notice, holds>>

(* Hold and restore: the transaction checks the status again; repeating    *)
(* what was done is allowed, so that the media writes can be repeated.     *)
Decide(c) ==
    LET me == calls[c] IN
    /\ me.at = "decide"
    /\ \/ /\ me.action = "hold" /\ content \in {"active", "held"}
          /\ content' = "held"
       \/ /\ me.action = "restore" /\ MayRestore
          /\ content' = "active"
    /\ lastAction' = me.action
    /\ calls' = [calls EXCEPT ![c].at = "media", ![c].left = Variants]
    /\ UNCHANGED <<media, erasedBy, notice, holds, disturbed>>

DecideNot(c) ==
    LET me == calls[c] IN
    /\ me.at = "decide"
    /\ me.action = "hold" => content \notin {"active", "held"}
    /\ me.action = "restore" => ~MayRestore
    /\ Refuse(c)
    /\ UNCHANGED holds

SetMedia(c) ==
    LET me == calls[c] IN
    /\ me.at = "media"
    /\ \E x \in me.left :
        /\ SetVariant(x, IF me.action = "restore" THEN "public" ELSE "withheld")
        /\ IF me.left = {x} THEN Finish(c)
           ELSE /\ calls' = [calls EXCEPT ![c].left = @ \ {x}]
                /\ UNCHANGED disturbed
    /\ UNCHANGED <<content, lastAction, erasedBy, notice, holds>>
-----------------------------------------------------------------------------
(* prepareOwnerNotificationOutbox: a pending notice is used again.         *)
Prepare(c) ==
    LET version == IF outbox.state = "pending" THEN outbox.version ELSE outbox.version + 1 IN
    /\ calls[c].at = "prepare"
    /\ \/ /\ eligible /\ version <= MaxNotices
          /\ outbox' = [state |-> "pending", version |-> version]
          /\ calls' = [calls EXCEPT ![c].at = "mark", ![c].version = version]
       \/ /\ ~eligible
          /\ calls' = [calls EXCEPT ![c].at = "mark"]
          /\ UNCHANGED outbox
    /\ UNCHANGED <<target, eligible, signals, alert, dismissed, delivered, holds, disturbed>>

(* deleteContentInternal: mark, purge the inbox rows about the content,    *)
(* remove the media, delete the document and all below it (variant: the    *)
(* notice is completed once the content is marked).                        *)
ToldEarly(stage) == [mark |-> "complete", purge |-> "strip", strip |-> "erase"][stage]
AfterStage(stage) == [mark |-> "purge", purge |-> "strip", strip |-> "erase"][stage]

MarkDeleting(c) ==
    /\ calls[c].at = "mark"
    /\ \/ /\ content # "gone"
          /\ content' = IF content = "active" THEN "deleting" ELSE content
          /\ Goto(c, AfterStage("mark"))
          /\ UNCHANGED <<lastAction, media, erasedBy, notice>>
       \/ content = "gone" /\ Refuse(c)
    /\ UNCHANGED holds

PurgeAlerts(c) ==
    /\ calls[c].at = "purge"
    /\ alert' = 0
    /\ Goto(c, IF calls[c].action = "recover" THEN "complete" ELSE AfterStage("purge"))
    /\ UNCHANGED <<target, eligible, outbox, signals, dismissed, delivered, holds>>

RemoveMedia(c) ==
    /\ calls[c].at = "strip"
    /\ media' = [x \in Variants |-> "removed"]
    /\ Goto(c, AfterStage("strip"))
    /\ UNCHANGED <<content, lastAction, erasedBy, notice, holds>>

(* Only a prepared notice is completed.                                    *)
Completes(c) == calls[c].version > 0

Erase(c) ==
    /\ calls[c].at = "erase"
    /\ content' = "gone"
    /\ erasedBy' = IF content = "gone" THEN erasedBy ELSE calls[c].action
    /\ IF Completes(c) THEN Goto(c, "complete") ELSE Finish(c)
    /\ UNCHANGED <<lastAction, media, notice, holds>>

(* completeOwnerNotificationOutbox: the version prepared, or in a recovery *)
(* whatever version is there; completing a ready notice signals it again   *)
(* (variant: it does not).                                                 *)
SignalsOnce(v) == IF outbox.state = "ready" THEN signals ELSE signals \cup {v}
SignalsAgain(v) == signals \cup {v}

Complete(c) ==
    LET v == IF calls[c].action = "recover" THEN outbox.version ELSE calls[c].version IN
    /\ calls[c].at = "complete"
    /\ IF outbox.version = v
       THEN outbox' = [outbox EXCEPT !.state = "ready"] /\ signals' = SignalsAgain(v)
       ELSE UNCHANGED <<outbox, signals>>
    /\ Finish(c)
    /\ UNCHANGED <<target, eligible, alert, dismissed, delivered, holds>>

(* The invocation dies, or a write of it fails.                            *)
Die(c) ==
    /\ c \in BusyCalls
    /\ calls' = [calls EXCEPT ![c] = Free]
    /\ disturbed' = TRUE
    /\ UNCHANGED <<target, notice, holds>>
-----------------------------------------------------------------------------
(* submitReport reaches AUTO_HOLD_THRESHOLD: status and projection in one  *)
(* transaction, media by the trigger on the case.                          *)
AutoHold ==
    /\ content = "active" /\ holdVersion < MaxHolds
    /\ content' = "held"
    /\ holdVersion' = holdVersion + 1
    /\ holdEvents' = holdEvents \cup {holdVersion + 1}
    /\ UNCHANGED <<lastAction, media, erasedBy, notice, handlers, calls, disturbed>>

(* handleModerationCaseNotificationWrite; an event may arrive again.       *)
StartEvent(h, v) ==
    /\ h \notin BusyHandlers /\ v <= holdVersion
    /\ handlers' = [handlers EXCEPT ![h] = [Waiting EXCEPT !.at = "check", !.version = v]]
    /\ calls' = IF BusyCalls = {} THEN calls ELSE NobodyAlone(calls)
    /\ disturbed' = (disturbed \/ BusyCalls # {})
    /\ UNCHANGED <<target, notice, holdVersion, holdEvents>>

Handled(h) ==
    /\ handlers' = [handlers EXCEPT ![h] = Waiting]
    /\ holdEvents' = holdEvents \ {handlers[h].version}

(* resolveCurrentModerationState: two reads taken as one step (variant:    *)
(* the status is not read).                                                *)
LatestHold(v) == holdVersion = v
StillHeld(v) == holdVersion = v /\ content = "held"

CheckHold(h) ==
    /\ handlers[h].at = "check"
    /\ IF StillHeld(handlers[h].version)
       THEN /\ handlers' = [handlers EXCEPT ![h].at = "media", ![h].left = Variants]
            /\ UNCHANGED holdEvents
       ELSE Handled(h)
    /\ UNCHANGED <<target, notice, holdVersion, calls, disturbed>>

WithholdMedia(h) ==
    LET me == handlers[h] IN
    /\ me.at = "media"
    /\ \E x \in me.left :
        /\ SetVariant(x, "withheld")
        /\ IF me.left = {x} THEN Handled(h)
           ELSE /\ handlers' = [handlers EXCEPT ![h].left = @ \ {x}]
                /\ UNCHANGED holdEvents
    /\ UNCHANGED <<content, lastAction, erasedBy, notice, holdVersion, calls, disturbed>>

HandlerDies(h) ==
    /\ h \in BusyHandlers
    /\ handlers' = [handlers EXCEPT ![h] = Waiting]
    /\ UNCHANGED <<target, notice, holdVersion, holdEvents, calls, disturbed>>
-----------------------------------------------------------------------------
(* handleOwnerNotificationOutboxWrite and its upsertNotification (variant: *)
(* an existing row is left alone).                                         *)
NoRowYet(v) == dismissed < v /\ alert = 0
Newer(v) == dismissed < v /\ alert < v

DeliverNotice(v) ==
    /\ v \in signals
    /\ IF eligible /\ Newer(v)
       THEN /\ alert' = v
            /\ delivered' = delivered \cup {v}
       ELSE UNCHANGED <<alert, delivered>>
    /\ signals' \in {signals, signals \ {v}}
    /\ UNCHANGED <<target, eligible, outbox, dismissed, holds, calls, disturbed>>

(* The owner deletes the row; the owner's account is deleted.              *)
DismissAlert ==
    /\ alert > 0
    /\ dismissed' = alert /\ alert' = 0
    /\ UNCHANGED <<target, eligible, outbox, signals, delivered, holds, calls, disturbed>>

OwnerLeaves ==
    /\ eligible
    /\ eligible' = FALSE
    /\ UNCHANGED <<target, outbox, signals, alert, dismissed, delivered, holds, calls, disturbed>>
-----------------------------------------------------------------------------
CallStep(c) ==
    \/ Decide(c) \/ DecideNot(c) \/ SetMedia(c)
    \/ Prepare(c) \/ MarkDeleting(c) \/ PurgeAlerts(c) \/ RemoveMedia(c) \/ Erase(c)
    \/ Complete(c) \/ Die(c)
HandlerStep(h) == CheckHold(h) \/ WithholdMedia(h) \/ HandlerDies(h)

Next ==
    \/ \E c \in Calls : CallStep(c)
    \/ \E c \in Calls, a \in Actions : Begin(c, a)
    \/ \E h \in Handlers, v \in 1..MaxHolds : StartEvent(h, v)
    \/ \E h \in Handlers : HandlerStep(h)
    \/ \E v \in Notices : DeliverNotice(v)
    \/ AutoHold \/ DismissAlert \/ OwnerLeaves

Spec == Init /\ [][Next]_vars

(* Only the delivery of outbox events is guaranteed to be repeated until   *)
(* it succeeds; no caller is bound to call again.                          *)
FairSpec == Spec /\ \A v \in Notices : SF_vars(DeliverNotice(v) /\ v \notin signals')
-----------------------------------------------------------------------------
(* PROPERTIES *)

Quiet == BusyCalls = {} /\ BusyHandlers = {} /\ holdEvents = {}

(* Once everything in flight is done, no object of held content is public  *)
(* and none of active content withheld, however late and often case events *)
(* arrived and their handlers died; unless a call died or overlapped with  *)
(* another, and then the next call that runs alone puts it right.          *)
MediaFollowsStatus ==
    Quiet /\ ~disturbed => \A x \in Variants :
        /\ content = "active" => media[x] # "withheld"
        /\ content = "held" => media[x] # "public"

(* A moderator's deletion is never silent: the notice is on record before  *)
(* the content goes, whoever else deletes and wherever the call dies.      *)
NoSilentDeletion == erasedBy = "delete" /\ eligible => outbox.state # "none"

(* The owner is not told of a deletion that has not happened.              *)
ToldOnlyWhenGone == alert > 0 => content = "gone"

(* A completed notice is in the inbox, or its owner dismissed it, once its *)
(* events are handled: a purge that takes it away is followed by a signal. *)
NoticeArrives ==
    /\ Quiet /\ signals = {} /\ ~disturbed
    /\ outbox.state = "ready" /\ eligible
    => alert = outbox.version \/ dismissed >= outbox.version

(* A notice that is ready is delivered, or the owner dismissed a later one *)
(* or leaves.                                                              *)
ReadyIsDelivered ==
    \A v \in Notices :
        outbox = [state |-> "ready", version |-> v] ~>
            v \in delivered \/ ~eligible \/ dismissed >= v \/ alert >= v
=============================================================================
