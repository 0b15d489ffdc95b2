---------------------------- MODULE CommentThreads ----------------------------
(***************************************************************************)
(* The comments of one post: roots, one level of replies, the counters     *)
(* stats.commentCount and replyCount, and everything that changes them     *)
(* (functions/socialService.js saveComment, deleteComment and              *)
(* processCommentThreadDeletionJob; adminService.js moderateContent for    *)
(* comments; deletionService.js removeAuthoredInteractions).               *)
(*                                                                         *)
(* A transaction is one action.  What a call does outside transactions,    *)
(* reading a page and writing it, counting and storing, is one action per  *)
(* read and per write, and other calls run in between.  The inbox rows     *)
(* that come and go with comments are NotificationInbox's.                 *)
(***************************************************************************)
EXTENDS Integers, FiniteSets

CONSTANTS
    Comments,       \* ids of comments that may ever be written
    RootOf,         \* [Comments -> the root of the comment's thread]
    Leaver,         \* comments of an author who deletes the account
    Workers,        \* calls and trigger deliveries that run at a time
    PageSize,       \* documents of a page
    MaxCalls,       \* bound: calls that delete threads, moderate or leave
    MaxDeaths       \* bound: instances that die or time out

IsRoot(c) == RootOf[c] = c
Roots == {c \in Comments : IsRoot(c)}
Replies(r) == {c \in Comments : RootOf[c] = r /\ c # r}

ASSUME ThreadAssumptions ==
    /\ IsFiniteSet(Comments) /\ Comments # {} /\ RootOf \in [Comments -> Comments]
    /\ \A c \in Comments : RootOf[RootOf[c]] = RootOf[c]
    /\ Leaver \subseteq Comments
    /\ PageSize \in Nat \ {0} /\ MaxCalls \in Nat /\ MaxDeaths \in Nat

VARIABLES
    comment,    \* [Comments -> the comment's document]
    count,      \* stats.commentCount of the post
    job,        \* [Roots -> thread deletion job]
    events,     \* job writes whose trigger has not succeeded yet
    calls,      \* [Workers -> what a running call is doing]
    leaving,    \* the account deletion has begun
    used,       \* calls made and instances that died, for the bounds
    ghost       \* what the properties remember, see below

vars == <<comment, count, job, events, calls, leaving, used, ghost>>

(* status "unborn" and "gone" are documents that do not exist.  byThread:  *)
(* threadModeration names the held root.  last: moderation.lastAction.     *)
Comment == [status : {"unborn", "active", "hold", "deleting", "gone"},
            byThread : BOOLEAN, last : {"none", "hold", "restore"}, replies : Nat]
Job == [state : {"none", "ready", "complete"}, version : Nat]
Thread == {"page", "batch", "tally", "finish"}          \* deleting a thread
Syncing == {"sync", "write"}                            \* replies of a moderated root
Counting == {"count", "store", "countReplies", "storeReplies"}
Leaving == {"next", "countAll", "storeAll"}             \* deleting an account
Call == [at : {"idle"} \cup Thread \cup Syncing \cup Counting \cup Leaving,
         op : {"none", "delete", "event", "hold", "restore", "remove", "leave"},
         target : Comments, version : Nat, page : SUBSET Comments,
         seen : SUBSET Comments, counted : Nat, todo : SUBSET Comments, alone : BOOLEAN]
Idle == [at |-> "idle", op |-> "none", target |-> CHOOSE c \in Comments : TRUE, version |-> 0,
         page |-> {}, seen |-> {}, counted |-> 0, todo |-> {}, alone |-> TRUE]

(* named: replies a moderator holds by name.  crossed: replies that        *)
(* changed between the read and the write of a root's synchronisation.     *)
(* doubt, doubtful: a count was stored that was no longer true, or a       *)
(* moderation died before it counted.  tidy: the last moderation of the    *)
(* root ran to its end with no other in its way.  left: an account         *)
(* deletion went through; overlooked: saved by its author after its query. *)
Ghost == [named : SUBSET Comments, crossed : SUBSET Comments, doubt : BOOLEAN,
          doubtful : SUBSET Comments, tidy : SUBSET Comments,
          left : BOOLEAN, overlooked : SUBSET Comments]

TypeOK ==
    /\ comment \in [Comments -> Comment]
    /\ count \in Nat
    /\ job \in [Roots -> Job]
    /\ events \subseteq Roots \X Nat
    /\ calls \in [Workers -> Call]
    /\ leaving \in BOOLEAN
    /\ used \in [calls : 0..MaxCalls, deaths : 0..MaxDeaths]
    /\ ghost \in Ghost

(* A post at rest: comments unwritten, published, held by a moderator, or  *)
(* held with their thread; both counters right; nothing under way.         *)
AtRest(shape) == \A c \in Comments :
    /\ shape[RootOf[c]] = "unborn" => shape[c] = "unborn"
    /\ shape[RootOf[c]] = "held" => shape[c] # "active"
    /\ shape[c] = "heldByThread" => ~IsRoot(c) /\ shape[RootOf[c]] = "held"
Published(shape) == {c \in Comments : shape[c] = "active"}
Document(shape, c) ==
    [status |-> IF shape[c] \in {"held", "heldByThread"} THEN "hold" ELSE shape[c],
     byThread |-> shape[c] = "heldByThread",
     last |-> IF shape[c] = "held" THEN "hold" ELSE "none",
     replies |-> IF IsRoot(c) THEN Cardinality(Replies(c) \cap Published(shape)) ELSE 0]

Init ==
    /\ \E shape \in [Comments -> {"unborn", "active", "held", "heldByThread"}] :
         /\ AtRest(shape)
         /\ comment = [c \in Comments |-> Document(shape, c)]
         /\ count = Cardinality(Published(shape))
         /\ ghost = [named |-> {c \in Comments : shape[c] = "held"}, crossed |-> {},
                     doubt |-> FALSE, doubtful |-> {}, tidy |-> Roots,
                     left |-> FALSE, overlooked |-> {}]
    /\ job = [r \in Roots |-> [state |-> "none", version |-> 0]]
    /\ events = {}
    /\ calls = [w \in Workers |-> Idle]
    /\ leaving = FALSE
    /\ used = [calls |-> 0, deaths |-> 0]
-----------------------------------------------------------------------------
Exists(c) == comment[c].status \in {"active", "hold", "deleting"}
Shown == {c \in Comments : comment[c].status = "active"}
Less(n) == IF n > 0 THEN n - 1 ELSE 0

(* A reply needs a published root.  The comment it answers is the root or  *)
(* another published reply of the thread; the root is always a choice.     *)
ThreadExists(c) == IsRoot(c) \/ Exists(RootOf[c])
OpenThread(c) == IsRoot(c) \/ comment[RootOf[c]].status = "active"

(* saveComment: a new root or reply, with both counters, in one            *)
(* transaction.  The text is left out, and with it the edit of a comment.  *)
Save(c) ==
    /\ comment[c].status = "unborn" /\ OpenThread(c)
    /\ comment' = [d \in Comments |->
                     IF d = c THEN [comment[c] EXCEPT !.status = "active"]
                     ELSE IF d = RootOf[c] THEN [comment[d] EXCEPT !.replies = @ + 1]
                     ELSE comment[d]]
    /\ count' = count + 1
    /\ ghost' = [ghost EXCEPT !.overlooked = IF leaving THEN @ \cup ({c} \cap Leaver) ELSE @]
    /\ UNCHANGED <<job, events, calls, leaving, used>>

(* What deleteComment does to a reply: the counters go down only if the    *)
(* reply was shown.                                                        *)
AnyReply(c) == TRUE
Counted(c) == comment[c].status = "active"
RemoveReply(c) ==
    /\ comment' = [d \in Comments |->
                     IF d = c THEN [comment[c] EXCEPT !.status = "gone"]
                     ELSE IF d = RootOf[c] /\ Counted(c) THEN [comment[d] EXCEPT !.replies = Less(@)]
                     ELSE comment[d]]
    /\ count' = IF Counted(c) THEN Less(count) ELSE count
    /\ UNCHANGED <<job, events>>

(* ... and to a root: it is marked and a job takes the thread away.        *)
MarkRoot(r) ==
    /\ comment' = [comment EXCEPT ![r].status = "deleting"]
    /\ job' = [job EXCEPT ![r] = [state |-> "ready", version |-> @.version + 1]]
    /\ events' = events \cup {<<r, job[r].version + 1>>}
    /\ UNCHANGED count

StartCall(w, next) ==
    /\ calls[w] = Idle /\ used.calls < MaxCalls
    /\ used' = [used EXCEPT !.calls = @ + 1]
    /\ calls' = [calls EXCEPT ![w] = next]
Goto(w, next) == calls' = [calls EXCEPT ![w] = next]

(* deleteComment, called by the author (or an administrator) for a reply.  *)
DeleteReply(c) ==
    /\ ~IsRoot(c) /\ Exists(c)
    /\ RemoveReply(c)
    /\ UNCHANGED <<calls, leaving, used, ghost>>

(* deleteComment of a root goes on to process the job it has queued.       *)
ThreadCall(r, op) ==
    [Idle EXCEPT !.at = "page", !.op = op, !.target = r, !.version = job[r].version + 1]
DeleteRoot(w, r) ==
    /\ Exists(r)
    /\ MarkRoot(r)
    /\ StartCall(w, ThreadCall(r, "delete"))
    /\ UNCHANGED <<leaving, ghost>>

(* onCommentThreadDeletionJobWritten: delivered until it succeeds.         *)
HandleEvent(w) == \E e \in events :
    /\ calls[w] = Idle
    /\ Goto(w, [Idle EXCEPT !.at = "page", !.op = "event", !.target = e[1], !.version = e[2]])
    /\ UNCHANGED <<comment, count, job, events, leaving, used, ghost>>
-----------------------------------------------------------------------------
(* processCommentThreadDeletionJob, run by the call that queued the job    *)
(* and by the trigger.  What follows it depends on the caller.             *)
AfterThread(k) ==
    CASE k.op = "leave" -> [k EXCEPT !.at = "next", !.page = {}]
      [] k.op = "remove" -> [k EXCEPT !.at = "count", !.page = {}]
      [] OTHER -> Idle
Finished(w) ==
    /\ Goto(w, AfterThread(calls[w]))
    /\ events' = IF calls[w].op = "event"
                 THEN events \ {<<calls[w].target, calls[w].version>>} ELSE events

Due(k) == job[k.target].state = "ready" /\ job[k.target].version = k.version
Undeleted(r) == {c \in Replies(r) : Exists(c)}
IsPage(S, rest) ==
    /\ S \subseteq rest
    /\ Cardinality(S) = (IF Cardinality(rest) < PageSize THEN Cardinality(rest) ELSE PageSize)

ReadPage(w) ==
    LET k == calls[w] IN
    /\ k.at = "page" /\ Due(k)
    /\ \E S \in SUBSET Undeleted(k.target) :
         /\ IsPage(S, Undeleted(k.target))
         /\ Goto(w, [k EXCEPT !.at = IF S = {} THEN "tally" ELSE "batch", !.page = S])
    /\ UNCHANGED <<comment, count, job, events, leaving, used, ghost>>

(* Superseded by a later request, or complete already.                     *)
NotDue(w) ==
    /\ calls[w].at = "page" /\ ~Due(calls[w])
    /\ Finished(w)
    /\ UNCHANGED <<comment, count, job, leaving, used, ghost>>

(* A batch of deletes does not mind documents that are gone already, and   *)
(* touches no counter.                                                     *)
OnePage(k) == [k EXCEPT !.at = "tally", !.page = {}]
AfterBatch(k) == [k EXCEPT !.at = "page", !.page = {}]
DeletePage(w) ==
    LET k == calls[w] IN
    /\ k.at = "batch"
    /\ comment' = [c \in Comments |->
                     IF c \in k.page THEN [comment[c] EXCEPT !.status = "gone"] ELSE comment[c]]
    /\ Goto(w, AfterBatch(k))
    /\ UNCHANGED <<count, job, events, leaving, used, ghost>>

TallyShown(w) ==
    /\ calls[w].at = "tally"
    /\ Goto(w, [calls[w] EXCEPT !.at = "finish", !.counted = Cardinality(Shown)])
    /\ UNCHANGED <<comment, count, job, events, leaving, used, ghost>>

FinishThread(w) ==
    LET k == calls[w] IN
    /\ k.at = "finish"
    /\ IF Due(k)
       THEN /\ comment' = [comment EXCEPT ![k.target].status = "gone"]
            /\ count' = k.counted
            /\ job' = [job EXCEPT ![k.target].state = "complete"]
            /\ ghost' = [ghost EXCEPT !.doubt = k.counted # Cardinality(Shown)]
       ELSE UNCHANGED <<comment, count, job, ghost>>
    /\ Finished(w)
    /\ UNCHANGED <<leaving, used>>
-----------------------------------------------------------------------------
(* moderateContent of a comment: hold, restore, and (after the same checks *)
(* as deleteComment) remove.  A restored reply needs a published root; an  *)
(* action repeated on what it has already done goes through again.         *)
MayHold(c) == comment[c].status \in {"active", "hold"}
MayRestoreAny(c) == comment[c].status = "hold"
MayRestore(c) ==
    /\ \/ comment[c].status = "hold"
       \/ comment[c].status = "active" /\ comment[c].last = "restore"
    /\ OpenThread(c)

(* Holding a reply by name takes it out of the hands of its thread.        *)
StillByThread(c) == [comment[c] EXCEPT !.status = "hold", !.last = "hold"]
AfterHold(c) == [comment[c] EXCEPT !.status = "hold", !.last = "hold",
                                   !.byThread = IF IsRoot(c) THEN @ ELSE FALSE]

ModerationOf(r) == {w \in Workers : calls[w].op \in {"hold", "restore"} /\ calls[w].target = r}
Moderated(w, c, op) ==
    LET isRoot == IsRoot(c)
        others == IF isRoot THEN ModerationOf(c) ELSE {} IN
    calls' = [v \in Workers |->
                IF v = w THEN [Idle EXCEPT !.at = IF isRoot THEN "sync" ELSE "count", !.op = op,
                                           !.target = c, !.alone = others = {}]
                ELSE IF v \in others THEN [calls[v] EXCEPT !.alone = FALSE] ELSE calls[v]]

Moderate(w, c, op) ==
    /\ calls[w] = Idle /\ used.calls < MaxCalls
    /\ CASE op = "hold" -> MayHold(c) [] op = "restore" -> MayRestore(c)
    /\ comment' = [comment EXCEPT ![c] = IF op = "hold" THEN AfterHold(c)
                                         ELSE [@ EXCEPT !.status = "active", !.last = "restore"]]
    /\ Moderated(w, c, op)
    /\ used' = [used EXCEPT !.calls = @ + 1]
    /\ ghost' = [ghost EXCEPT !.named = IF op = "hold" THEN @ \cup {c} ELSE @ \ {c},
                              !.crossed = @ \ {c},
                              !.tidy = IF IsRoot(c) THEN @ \ {c} ELSE @]
    /\ UNCHANGED <<count, job, events, leaving>>

ModerateRemove(w, c) ==
    /\ Exists(c)
    /\ IF IsRoot(c)
       THEN MarkRoot(c) /\ StartCall(w, ThreadCall(c, "remove"))
       ELSE RemoveReply(c) /\ StartCall(w, [Idle EXCEPT !.at = "count", !.op = "remove", !.target = c])
    /\ UNCHANGED <<leaving, ghost>>

(* syncRootReplyModeration: page by page, the replies that are shown are   *)
(* held for the thread, or those held for the thread are shown again.      *)
Qualifies(c, op) ==
    IF op = "hold" THEN comment[c].status = "active"
    ELSE comment[c].status = "hold" /\ comment[c].byThread

ReadReplies(w) ==
    LET k == calls[w]
        rest == Undeleted(k.target) \ k.seen IN
    /\ k.at = "sync" /\ rest # {}
    /\ \E S \in SUBSET rest :
         /\ IsPage(S, rest)
         /\ Goto(w, [k EXCEPT !.at = "write", !.seen = @ \cup S,
                              !.page = {c \in S : Qualifies(c, k.op)}])
    /\ UNCHANGED <<comment, count, job, events, leaving, used, ghost>>

(* The batch writes what was read to qualify, whatever it is by now.       *)
WriteReplies(w) ==
    LET k == calls[w] IN
    /\ k.at = "write" /\ \A c \in k.page : Exists(c)
    /\ comment' = [c \in Comments |->
                     IF c \notin k.page THEN comment[c]
                     ELSE [comment[c] EXCEPT !.status = IF k.op = "hold" THEN "hold" ELSE "active",
                                             !.byThread = k.op = "hold"]]
    /\ ghost' = [ghost EXCEPT !.crossed = @ \cup {c \in k.page : ~Qualifies(c, k.op)}]
    /\ Goto(w, [k EXCEPT !.at = "sync", !.page = {}])
    /\ UNCHANGED <<count, job, events, leaving, used>>

(* The last page was short: the replies are done, the counters are next.   *)
EndSync(w) ==
    LET k == calls[w] IN
    /\ k.at = "sync" /\ Undeleted(k.target) \subseteq k.seen
    /\ Goto(w, [k EXCEPT !.at = "count", !.seen = {}])
    /\ ghost' = [ghost EXCEPT !.tidy = IF k.alone THEN @ \cup {k.target} ELSE @]
    /\ UNCHANGED <<comment, count, job, events, leaving, used>>

CountShown(w) ==
    /\ calls[w].at = "count"
    /\ Goto(w, [calls[w] EXCEPT !.at = "store", !.counted = Cardinality(Shown)])
    /\ UNCHANGED <<comment, count, job, events, leaving, used, ghost>>

AfterCount(k) ==
    IF k.op = "remove" /\ IsRoot(k.target) THEN Idle ELSE [k EXCEPT !.at = "countReplies"]

StoreCount(w) ==
    LET k == calls[w] IN
    /\ k.at = "store"
    /\ count' = k.counted
    /\ Goto(w, AfterCount(k))
    /\ ghost' = [ghost EXCEPT !.doubt = k.counted # Cardinality(Shown)]
    /\ UNCHANGED <<comment, job, events, leaving, used>>

ShownReplies(r) == {c \in Replies(r) : comment[c].status = "active"}
CountReplies(w) ==
    LET k == calls[w] IN
    /\ k.at = "countReplies"
    /\ Goto(w, [k EXCEPT !.at = "storeReplies", !.counted = Cardinality(ShownReplies(RootOf[k.target]))])
    /\ UNCHANGED <<comment, count, job, events, leaving, used, ghost>>

StoreReplies(w) ==
    LET k == calls[w]
        r == RootOf[k.target] IN
    /\ k.at = "storeReplies"
    /\ comment' = IF Exists(r) THEN [comment EXCEPT ![r].replies = k.counted] ELSE comment
    /\ Goto(w, Idle)
    /\ ghost' = [ghost EXCEPT !.doubtful = IF k.counted # Cardinality(ShownReplies(r))
                                           THEN @ \cup {r} ELSE @ \ {r}]
    /\ UNCHANGED <<count, job, events, leaving, used>>
-----------------------------------------------------------------------------
(* removeAuthoredInteractions: every comment of the author found at the    *)
(* start, roots first, is deleted by deleteComment; then all comments of   *)
(* the post, whatever their status, are counted and the number stored.     *)
AuthoredAndShown == Leaver \cap Shown
Authored == {c \in Leaver : Exists(c)}
Leave(w) ==
    /\ leaving' = TRUE
    /\ StartCall(w, [Idle EXCEPT !.at = "next", !.op = "leave", !.todo = Authored])
    /\ UNCHANGED <<comment, count, job, events, ghost>>

Following(k) == IF k.todo \cap Roots # {} THEN k.todo \cap Roots ELSE k.todo
LeaveNext(w) ==
    LET k == calls[w] IN
    /\ k.at = "next"
    /\ \E c \in Following(k) :
         LET rest == [k EXCEPT !.todo = @ \ {c}] IN
         CASE ~Exists(c) -> Goto(w, rest) /\ UNCHANGED <<comment, count, job, events>>
           [] Exists(c) /\ ~IsRoot(c) -> RemoveReply(c) /\ Goto(w, rest)
           [] Exists(c) /\ IsRoot(c) ->
                /\ MarkRoot(c)
                /\ Goto(w, [rest EXCEPT !.at = "page", !.target = c, !.version = job[c].version + 1])
    /\ UNCHANGED <<leaving, used, ghost>>

LeaveCount(w) ==
    /\ calls[w].at = "next" /\ calls[w].todo = {}
    /\ Goto(w, [calls[w] EXCEPT !.at = "storeAll", !.counted = Cardinality({c \in Comments : Exists(c)})])
    /\ UNCHANGED <<comment, count, job, events, leaving, used, ghost>>

LeaveStore(w) ==
    /\ calls[w].at = "storeAll"
    /\ count' = calls[w].counted
    /\ Goto(w, Idle)
    /\ ghost' = [ghost EXCEPT !.doubt = calls[w].counted # Cardinality(Shown), !.left = TRUE]
    /\ UNCHANGED <<comment, job, events, leaving, used>>
-----------------------------------------------------------------------------
Abandoned(k) ==
    [ghost EXCEPT !.doubt = @ \/ k.op \in {"hold", "restore"},
                  !.doubtful = IF k.op \in {"hold", "restore"} THEN @ \cup {RootOf[k.target]} ELSE @]

(* A batch update of a document that is gone fails as a whole, and with it *)
(* the call.                                                               *)
WriteFails(w) ==
    LET k == calls[w] IN
    /\ k.at = "write" /\ \E c \in k.page : ~Exists(c)
    /\ Goto(w, Idle)
    /\ ghost' = Abandoned(k)
    /\ UNCHANGED <<comment, count, job, events, leaving, used>>

(* An instance dies, or a call fails, between any two steps.               *)
Die(w) ==
    LET k == calls[w] IN
    /\ k # Idle /\ used.deaths < MaxDeaths
    /\ used' = [used EXCEPT !.deaths = @ + 1]
    /\ Goto(w, Idle)
    /\ ghost' = Abandoned(k)
    /\ UNCHANGED <<comment, count, job, events, leaving>>

(* Leaves happen while others call; a call that started goes on.           *)
WorkerStep(w) ==
    \/ ReadPage(w) \/ NotDue(w) \/ DeletePage(w) \/ TallyShown(w) \/ FinishThread(w)
    \/ ReadReplies(w) \/ WriteReplies(w) \/ WriteFails(w) \/ EndSync(w)
    \/ CountShown(w) \/ StoreCount(w) \/ CountReplies(w) \/ StoreReplies(w)
    \/ LeaveNext(w) \/ LeaveCount(w) \/ LeaveStore(w)

Next ==
    \/ \E c \in Comments : Save(c) \/ DeleteReply(c)
    \/ \E w \in Workers :
         \/ \E r \in Roots : DeleteRoot(w, r)
         \/ \E c \in Comments : \/ \E op \in {"hold", "restore"} : Moderate(w, c, op)
                                \/ ModerateRemove(w, c)
         \/ Leave(w) \/ HandleEvent(w) \/ WorkerStep(w) \/ Die(w)

Spec == Init /\ [][Next]_vars

(* A running instance goes on unless it dies, and a trigger is delivered   *)
(* until it succeeds (index.js firestoreWritten, retry: true).             *)
FairSpec ==
    /\ Spec
    /\ \A w \in Workers : WF_vars(WorkerStep(w))
    /\ SF_vars(\E w \in Workers : HandleEvent(w))
-----------------------------------------------------------------------------
(* No reply is ever left without its root: a thread is deleted page by     *)
(* page while readers answer it, moderators restore parts of it, and       *)
(* another request deletes it again (socialService.js:601-714).            *)
RepliesHaveRoot == \A c \in Comments : Exists(c) => Exists(RootOf[c])

Quiet(r) == \A w \in Workers :
    calls[w].at \in Syncing \cup Counting => RootOf[calls[w].target] # r
NothingPending ==
    \A r \in Roots : Quiet(r) /\ job[r].state # "ready"

(* When no moderation or thread deletion is under way the post's counter   *)
(* is the number of its published comments, unless the last count stored   *)
(* was out of date or included hidden comments, or a moderation died; and  *)
(* the same of a root's replyCount (socialService.js:673-707,              *)
(* adminService.js:529-559, deletionService.js:259-271).                   *)
CountersSettle ==
    /\ NothingPending /\ ~ghost.doubt => count = Cardinality(Shown)
    /\ \A r \in Roots :
        Exists(r) /\ comment[r].status # "deleting" /\ Quiet(r) /\ r \notin ghost.doubtful
            => comment[r].replies = Cardinality(ShownReplies(r))

(* A comment that a moderator has held by name is not shown again by the   *)
(* moderation of its thread, unless the thread's batch crossed that hold.  *)
OwnHoldStands == \A c \in ghost.named \ ghost.crossed : comment[c].status # "active"

(* After a moderation of a root that ran to its end alone, a held thread   *)
(* shows no reply, and a published one has no reply held on its account.   *)
ThreadFollowsRoot == \A r \in ghost.tidy : \A c \in Replies(r) :
    /\ comment[r].status = "hold" => comment[c].status # "active"
    /\ comment[r].status = "active" /\ comment[c].status = "hold" => ~comment[c].byThread

(* A thread that was marked is deleted to the last reply, whoever dies.    *)
MarkedThreadVanishes == \A r \in Roots :
    comment[r].status = "deleting" ~> \A c \in Comments : RootOf[c] = r => ~Exists(c)

(* When an account deletion has gone through, each comment its author had  *)
(* written is gone, or is the root of a thread whose deletion another      *)
(* request has taken over (deletionService.js:205-255).                    *)
LeaverLeavesNothing == ghost.left =>
    \A c \in Leaver \ ghost.overlooked :
        Exists(c) => IsRoot(c) /\ comment[c].status = "deleting" /\ job[c].state = "ready"
=============================================================================
