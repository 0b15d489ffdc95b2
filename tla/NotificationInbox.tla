------------------------- MODULE NotificationInbox -------------------------
(***************************************************************************)
(* The durable notification inbox: users/{uid}/notifications, the unread   *)
(* counters of notificationState/state, the dismissal tombstones, and the  *)
(* like documents that a grouped-like row counts                           *)
(* (functions/notificationService.js, with its callers in socialService,   *)
(* moderationService, deletionService and adminService).                   *)
(*                                                                         *)
(* One Firestore transaction is one action.  A handler that queries first  *)
(* and then writes in a transaction of its own, or in several, is a        *)
(* "sweep": it moves query -> commit -> ... -> idle and everything else    *)
(* may happen between its steps.                                           *)
(***************************************************************************)
EXTENDS Integers, FiniteSets

CONSTANTS
    Users,          \* accounts
    Contents,       \* recommendations, routes and trips
    Comments,       \* comment documents, each created at most once
    ContentOwner,   \* [Contents -> Users]
    CommentParent,  \* [Comments -> Contents]
    NoUser,         \* "no actor"
    Staff,          \* accounts that may hold the admin role
    PageLimit,      \* rows per page (BULK_READ_LIMIT, BULK_DELETE_LIMIT, PURGE_LIMIT)
    MaxVersion,     \* bound: push versions per kind of row
    MaxGeneration,  \* bound: grouped-like generations
    MaxSweeps,      \* bound: sweeps in flight at once
    Runnable,       \* bound: the kinds of sweep a run exercises
    Blocking        \* bound: the pairs <<owner, actor>> that may block

ContentKinds == {"like", "content_held", "content_restored", "content_deleted", "case"}
Kinds == ContentKinds \cup {"comment"}
Channels == {"personal", "admin"}

(* A notification id is a hash of its kind and the thing it is about.      *)
Ids == [kind : ContentKinds, on : Contents] \cup [kind : {"comment"}, on : Comments]

ASSUME SetsAreFinite ==
    IsFiniteSet(Users) /\ IsFiniteSet(Contents) /\ IsFiniteSet(Comments)
ASSUME OwnersAreUsers ==
    /\ ContentOwner \in [Contents -> Users]
    /\ CommentParent \in [Comments -> Contents]
    /\ NoUser \notin Users /\ Staff \subseteq Users
ASSUME BoundsAreNumbers ==
    /\ PageLimit \in Nat \ {0}
    /\ MaxVersion \in [Kinds -> Nat]
    /\ MaxGeneration \in Nat /\ MaxSweeps \in Nat

Channel(n) == IF n.kind = "case" THEN "admin" ELSE "personal"
About(n) == IF n.kind = "comment" THEN CommentParent[n.on] ELSE n.on
LikeRow(t) == [kind |-> "like", on |-> t]
CommentRow(c) == [kind |-> "comment", on |-> c]
StatusRow(k, t) == [kind |-> k, on |-> t]

(* Kinds written by upsertNotification with an activityVersion of their    *)
(* producer; the others take the row's own next version.                   *)
Versioned == {"content_deleted", "case"}

Row == [state : {"absent", "unread", "read"}, version : Nat,
        generation : Nat, count : Nat, actor : Users \cup {NoUser}]
NoRow == [state |-> "absent", version |-> 0,
          generation |-> 0, count |-> 0, actor |-> NoUser]

(* generation 0: the like is not counted by any grouped-like row.          *)
Like == [liked : BOOLEAN, generation : Nat]
NoLike == [liked |-> FALSE, generation |-> 0]

(* What runs in pages: the owner's bulk mutations, the purges, and the     *)
(* loops that detach likes one transaction at a time.                      *)
BulkSweeps == {"read", "clear"} \X Users \X Channels
TargetSweeps == {"target"} \X (Contents \cup Comments)
ActorSweeps == {"actor", "demotion"} \X Users
BlockSweeps == {"block"} \X Users \X Users
DetachSweeps == ({"blockLikes"} \X Users \X Users) \cup ({"eraseLikes"} \X Users)
Sweeps == BulkSweeps \cup TargetSweeps \cup ActorSweeps \cup BlockSweeps \cup DetachSweeps

(* Retried by a trigger or a resumable job until they succeed.             *)
Durable(s) == s[1] \in {"block", "blockLikes", "actor", "eraseLikes"}
              \/ (s[1] = "target" /\ s[2] \in Comments)

VARIABLES
    inbox,       \* [Users -> [Ids -> Row]]
    unread,      \* [Users -> [Channels -> Int]]: the denormalised counters
    dismissed,   \* [Users -> [Ids -> Nat]]: version in the tombstone, 0 if none
    likes,       \* [Contents -> [Users -> Like]]
    posted,      \* [Comments -> [status, author]]
    content,     \* [Contents -> status]
    blocked,     \* pairs <<owner, actor>>: users/{owner}/blockedUsers/{actor}
    eligible,    \* [Users -> BOOLEAN]: account not being deleted
    admins,      \* active entries of system/moderation/admins
    issued,      \* [Versioned x Contents -> Nat]: latest activity version produced
    sweeps,      \* [Sweeps -> [at, page]]
    lastGeneration

vars == <<inbox, unread, dismissed, likes, posted, content, blocked, eligible,
          admins, issued, sweeps, lastGeneration>>
-----------------------------------------------------------------------------
Idle == [at |-> "idle", page |-> {}]
Querying == [at |-> "query", page |-> {}]
InFlight == {s \in Sweeps : sweeps[s].at # "idle"}

Present(u, n) == inbox[u][n].state # "absent"

(* assertActiveTarget (variant: any content that still exists).            *)
OpenUntilGone(t) == content[t] # "gone"
Open(t) == content[t] = "active"

UnreadRows(u, c) == {n \in Ids : Channel(n) = c /\ inbox[u][n].state = "unread"}

(* nextPushVersion (variant: an existing row keeps its version).           *)
KeptVersion(u, n) == IF Present(u, n) THEN inbox[u][n].version ELSE 1
NextVersion(u, n) == inbox[u][n].version + 1

TypeOK ==
    /\ inbox \in [Users -> [Ids -> Row]]
    /\ unread \in [Users -> [Channels -> Int]]
    /\ dismissed \in [Users -> [Ids -> Nat]]
    /\ likes \in [Contents -> [Users -> Like]]
    /\ posted \in [Comments -> [status : {"new", "active", "deleted", "erased"},
                                author : Users \cup {NoUser}]]
    /\ content \in [Contents -> {"active", "held", "deleting", "gone"}]
    /\ blocked \subseteq Users \X Users
    /\ eligible \in [Users -> BOOLEAN]
    /\ admins \subseteq Users
    /\ issued \in [[kind : Versioned, on : Contents] -> Nat]
    /\ sweeps \in [Sweeps -> [at : {"idle", "query", "commit", "last"},
                              page : SUBSET (Users \X Ids \cup Users \X Contents)]]
    /\ lastGeneration \in Nat

Init ==
    /\ inbox = [u \in Users |-> [n \in Ids |-> NoRow]]
    /\ unread = [u \in Users |-> [c \in Channels |-> 0]]
    /\ dismissed = [u \in Users |-> [n \in Ids |-> 0]]
    /\ likes = [t \in Contents |-> [u \in Users |-> NoLike]]
    /\ posted = [c \in Comments |-> [status |-> "new", author |-> NoUser]]
    /\ content = [t \in Contents |-> "active"]
    /\ blocked = {}
    /\ eligible = [u \in Users |-> TRUE]
    /\ admins \in SUBSET Staff
    /\ issued = [n \in [kind : Versioned, on : Contents] |-> 0]
    /\ sweeps = [s \in Sweeps |-> Idle]
    /\ lastGeneration = 0
-----------------------------------------------------------------------------
(* Writes shared by the handlers.                                          *)

(* stageNotificationActivity: the row becomes unread; the counter moves    *)
(* only if no unread row was there.                                        *)
Stage(R, n, version, generation, count, actor) ==
    /\ inbox' = [u \in Users |-> IF u \in R
            THEN [inbox[u] EXCEPT ![n] =
                    [state |-> "unread", version |-> version[u],
                     generation |-> generation, count |-> count, actor |-> actor]]
            ELSE inbox[u]]
    /\ unread' = [u \in Users |-> IF u \in R /\ inbox[u][n].state # "unread"
            THEN [unread[u] EXCEPT ![Channel(n)] = @ + 1]
            ELSE unread[u]]

(* Deleting rows and taking the unread ones off the counters (variant: the *)
(* counters are forgotten).                                                *)
DropUncounted(S) ==
    /\ inbox' = [u \in Users |-> [n \in Ids |->
            IF <<u, n>> \in S THEN NoRow ELSE inbox[u][n]]]
    /\ UNCHANGED unread
Drop(S) ==
    /\ inbox' = [u \in Users |-> [n \in Ids |->
            IF <<u, n>> \in S THEN NoRow ELSE inbox[u][n]]]
    /\ unread' = [u \in Users |-> [c \in Channels |->
            unread[u][c] - Cardinality({n \in UnreadRows(u, c) : <<u, n>> \in S})]]

MarkRead(S) ==
    /\ inbox' = [u \in Users |-> [n \in Ids |->
            IF <<u, n>> \in S THEN [inbox[u][n] EXCEPT !.state = "read"] ELSE inbox[u][n]]]
    /\ unread' = [u \in Users |-> [c \in Channels |->
            unread[u][c] - Cardinality({n \in UnreadRows(u, c) : <<u, n>> \in S})]]

(* stageNotificationDismissal, for rows that are deleted by their owner.   *)
Dismiss(S) ==
    dismissed' = [u \in Users |-> [n \in Ids |->
        IF <<u, n>> \in S THEN inbox[u][n].version ELSE dismissed[u][n]]]

(* prepareGroupedLikeRemoval and its outcome: the contribution counts only *)
(* while the row still has the generation the like was recorded under      *)
(* (variant: any row).                                                     *)
RemoveFromAnyRow(t, like) ==
    LET o == ContentOwner[t] IN
    IF inbox[o][LikeRow(t)].count > 1
    THEN inbox' = [inbox EXCEPT ![o][LikeRow(t)].count = @ - 1] /\ UNCHANGED unread
    ELSE Drop({<<o, LikeRow(t)>>})
RemoveContribution(t, like) ==
    LET o == ContentOwner[t]
        row == inbox[o][LikeRow(t)]
        matches == like.generation # 0 /\ row.state # "absent"
                   /\ row.generation = like.generation
    IN \/ /\ ~matches
          /\ UNCHANGED <<inbox, unread>>
       \/ /\ matches /\ row.count > 1
          /\ inbox' = [inbox EXCEPT ![o][LikeRow(t)].count = @ - 1]
          /\ UNCHANGED unread
       \/ /\ matches /\ row.count <= 1
          /\ Drop({<<o, LikeRow(t)>>})

(* A recipient is told unless they did it, are leaving, or blocked the     *)
(* actor (variant: blocks are not read).                                   *)
CanNotifyBlocker(o, a) == o # a /\ eligible[o]
CanNotify(o, a) == o # a /\ eligible[o] /\ <<o, a>> \notin blocked

(* canonical page loop: done when the page came back short.                *)
AfterLastPage(s) ==
    IF s[1] = "demotion" \/ (s[1] = "target" /\ s[2] \in Contents)
    THEN [at |-> "last", page |-> {}]
    ELSE Idle
StartNothing(S) == UNCHANGED sweeps
Start(S) ==
    /\ \A s \in S : s[1] \in Runnable
    /\ Cardinality(InFlight \cup S) <= MaxSweeps
    /\ sweeps' = [s \in Sweeps |-> IF s \in S THEN Querying ELSE sweeps[s]]
-----------------------------------------------------------------------------
(* socialService.setReaction                                               *)
React(a, t) ==
    LET o == ContentOwner[t]
        n == LikeRow(t)
        row == inbox[o][n]
        fresh == row.state = "absent"
        generation == IF fresh THEN lastGeneration + 1 ELSE row.generation
    IN /\ Open(t) /\ ~likes[t][a].liked
       /\ \/ /\ CanNotify(o, a)
             /\ NextVersion(o, n) <= MaxVersion["like"] /\ generation <= MaxGeneration
             /\ Stage({o}, n, [u \in {o} |-> NextVersion(u, n)], generation,
                      row.count + 1, NoUser)
             /\ likes' = [likes EXCEPT ![t][a] = [liked |-> TRUE, generation |-> generation]]
             /\ lastGeneration' = IF fresh THEN generation ELSE lastGeneration
          \/ /\ ~CanNotify(o, a)
             /\ likes' = [likes EXCEPT ![t][a] = [liked |-> TRUE, generation |-> 0]]
             /\ UNCHANGED <<inbox, unread, lastGeneration>>
       /\ UNCHANGED <<dismissed, posted, content, blocked, eligible, admins, issued, sweeps>>

Unreact(a, t) ==
    /\ Open(t) /\ likes[t][a].liked
    /\ likes' = [likes EXCEPT ![t][a] = NoLike]
    /\ RemoveContribution(t, likes[t][a])
    /\ UNCHANGED <<dismissed, posted, content, blocked, eligible, admins, issued,
                   sweeps, lastGeneration>>

(* socialService.saveComment: the content's owner and the author replied   *)
(* to are told, unless they wrote it, blocked the author or are leaving.   *)
PostComment(a, c) ==
    LET t == CommentParent[c]
        n == CommentRow(c)
    IN \E repliedTo \in {NoUser} \cup {posted[d].author : d \in
                {d \in Comments : CommentParent[d] = t /\ posted[d].status = "active"}} :
        LET R == {u \in {ContentOwner[t], repliedTo} \ {NoUser} : CanNotify(u, a)} IN
        /\ posted[c].status = "new" /\ Open(t)
        /\ posted' = [posted EXCEPT ![c] = [status |-> "active", author |-> a]]
        /\ \A u \in R : NextVersion(u, n) <= MaxVersion["comment"]
        /\ Stage(R, n, [u \in R |-> NextVersion(u, n)], 0, 1, a)
        /\ UNCHANGED <<dismissed, likes, content, blocked, eligible, admins, issued,
                       sweeps, lastGeneration>>

(* socialService.deleteComment: the owner's row goes with the comment, the *)
(* other recipients' rows with the purge that the cleanup job runs.        *)
DeleteComment(c) ==
    /\ posted[c].status = "active"
    /\ posted' = [posted EXCEPT ![c].status = "deleted"]
    /\ Drop({<<ContentOwner[CommentParent[c]], CommentRow(c)>>})
    /\ Start({<<"target", c>>})
    /\ UNCHANGED <<dismissed, likes, content, blocked, eligible, admins, issued, lastGeneration>>

(* adminService.moderateContent, hold and restore: status and owner alert  *)
(* in one transaction.                                                     *)
SetHold(t, from, to, kind) ==
    LET o == ContentOwner[t]
        n == StatusRow(kind, t)
    IN /\ content[t] = from
       /\ content' = [content EXCEPT ![t] = to]
       /\ NextVersion(o, n) <= MaxVersion[kind]
       /\ IF eligible[o]
          THEN Stage({o}, n, [u \in {o} |-> NextVersion(u, n)], 0, 1, NoUser)
          ELSE UNCHANGED <<inbox, unread>>
       /\ UNCHANGED <<dismissed, likes, posted, blocked, eligible, admins, issued,
                      sweeps, lastGeneration>>
HoldContent(t) == SetHold(t, "active", "held", "content_held")
RestoreContent(t) == SetHold(t, "held", "active", "content_restored")
-----------------------------------------------------------------------------
(* A producer outside the inbox (report projection, deletion outbox) makes *)
(* the next version of an activity.                                        *)
Issue(n) ==
    /\ issued[n] < MaxVersion[n.kind]
    /\ n.kind = "content_deleted" => content[n.on] = "gone"
    /\ issued' = [issued EXCEPT ![n] = @ + 1]
    /\ UNCHANGED <<inbox, unread, dismissed, likes, posted, content, blocked, eligible,
                   admins, sweeps, lastGeneration>>

(* The versions a delivery must beat (variant: the row alone).             *)
NewerThanRow(u, n, v) == inbox[u][n].version < v
Newer(u, n, v) == dismissed[u][n] < v /\ inbox[u][n].version < v

(* upsertNotification, called from a trigger that is retried, so any       *)
(* version issued so far may arrive, again and in any order.               *)
Deliver(u, n, v) ==
    /\ n.kind = "case" => u \in admins
    /\ n.kind = "content_deleted" => u = ContentOwner[n.on]
    /\ eligible[u]
    /\ Newer(u, n, v)
    /\ Stage({u}, n, [x \in {u} |-> v], 0, 1, NoUser)
    /\ UNCHANGED <<dismissed, likes, posted, content, blocked, eligible, admins, issued,
                   sweeps, lastGeneration>>
-----------------------------------------------------------------------------
(* The owner's own callables.                                              *)
MayMutate(u, c) == c = "admin" => u \in admins

SetNotificationRead(u, n, read) ==
    /\ Present(u, n) /\ MayMutate(u, Channel(n))
    /\ (inbox[u][n].state = "read") # read
    /\ inbox' = [inbox EXCEPT ![u][n].state = IF read THEN "read" ELSE "unread"]
    /\ unread' = [unread EXCEPT ![u][Channel(n)] = IF read THEN @ - 1 ELSE @ + 1]
    /\ UNCHANGED <<dismissed, likes, posted, content, blocked, eligible, admins, issued,
                   sweeps, lastGeneration>>

DeleteNotification(u, n) ==
    /\ Present(u, n) /\ MayMutate(u, Channel(n))
    /\ Dismiss({<<u, n>>})
    /\ Drop({<<u, n>>})
    /\ UNCHANGED <<likes, posted, content, blocked, eligible, admins, issued,
                   sweeps, lastGeneration>>

(* mutateChannelInBatches begins; its pages are Query and Commit below.    *)
StartBulk(s) ==
    /\ sweeps[s].at = "idle"
    /\ MayMutate(s[2], s[3])
    /\ Start({s})
    /\ UNCHANGED <<inbox, unread, dismissed, likes, posted, content, blocked, eligible,
                   admins, issued, lastGeneration>>

(* moderationService.setBlockedUser; the trigger on the same document runs *)
(* the two clean-ups again until they succeed.                             *)
Block(o, a) ==
    /\ o # a /\ <<o, a>> \in Blocking \ blocked
    /\ blocked' = blocked \cup {<<o, a>>}
    /\ Start({<<"block", o, a>>, <<"blockLikes", o, a>>})
    /\ UNCHANGED <<inbox, unread, dismissed, likes, posted, content, eligible, admins,
                   issued, lastGeneration>>

Unblock(o, a) ==
    /\ <<o, a>> \in blocked
    /\ blocked' = blocked \ {<<o, a>>}
    /\ UNCHANGED <<inbox, unread, dismissed, likes, posted, content, eligible, admins,
                   issued, sweeps, lastGeneration>>

(* deletionService.deleteContentInternal: markDeleting moves the status    *)
(* only if it was active, then purge, then recursiveDelete.  On content    *)
(* already gone, moderateContent purges again before it repeats the alert. *)
DeleteContent(t) ==
    /\ sweeps[<<"target", t>>].at = "idle"
    /\ content' = [content EXCEPT ![t] = IF @ = "active" THEN "deleting" ELSE @]
    /\ Start({<<"target", t>>})
    /\ UNCHANGED <<inbox, unread, dismissed, likes, posted, blocked, eligible, admins,
                   issued, lastGeneration>>

EraseContent(t) ==
    /\ sweeps[<<"target", t>>].at = "last"
    /\ content' = [content EXCEPT ![t] = "gone"]
    /\ likes' = [likes EXCEPT ![t] = [u \in Users |-> NoLike]]
    /\ posted' = [c \in Comments |->
            IF CommentParent[c] = t /\ posted[c].status = "active"
            THEN [posted[c] EXCEPT !.status = "erased"] ELSE posted[c]]
    /\ sweeps' = [sweeps EXCEPT ![<<"target", t>>] = Idle]
    /\ UNCHANGED <<inbox, unread, dismissed, blocked, eligible, admins, issued, lastGeneration>>

(* deletionService.requestAccountDeletion, as far as the inbox sees it:    *)
(* the user stops being a recipient and the likes are detached.            *)
DeleteAccount(a) ==
    /\ eligible[a]
    /\ eligible' = [eligible EXCEPT ![a] = FALSE]
    /\ Start({<<"eraseLikes", a>>})
    /\ UNCHANGED <<inbox, unread, dismissed, likes, posted, content, blocked, admins,
                   issued, lastGeneration>>

(* adminService.setUserAdmin: registry first, purge after.                 *)
GrantAdmin(u) ==
    /\ u \in Staff \ admins
    /\ admins' = admins \cup {u}
    /\ UNCHANGED <<inbox, unread, dismissed, likes, posted, content, blocked, eligible,
                   issued, sweeps, lastGeneration>>

RemoveAdmin(u) ==
    /\ u \in admins /\ Cardinality(admins) > 1
    /\ admins' = admins \ {u}
    /\ Start({<<"demotion", u>>})
    /\ UNCHANGED <<inbox, unread, dismissed, likes, posted, content, blocked, eligible,
                   issued, lastGeneration>>

(* purgeAdminNotificationsForUser ends by writing adminUnread: 0.          *)
ZeroAdminUnread(u) ==
    /\ sweeps[<<"demotion", u>>].at = "last"
    /\ unread' = IF eligible[u] THEN [unread EXCEPT ![u]["admin"] = 0] ELSE unread
    /\ sweeps' = [sweeps EXCEPT ![<<"demotion", u>>] = Idle]
    /\ UNCHANGED <<inbox, dismissed, likes, posted, content, blocked, eligible, admins,
                   issued, lastGeneration>>
-----------------------------------------------------------------------------
(* The rows a paged handler queries for, and re-checks in its transaction. *)
Matching(s) ==
    {p \in Users \X Ids :
        LET u == p[1]
            n == p[2]
            row == inbox[u][n]
        IN /\ row.state # "absent"
           /\ \/ s[1] = "read" /\ u = s[2] /\ Channel(n) = s[3] /\ row.state = "unread"
              \/ s[1] = "clear" /\ u = s[2] /\ Channel(n) = s[3]
              \/ s[1] = "target" /\ s[2] \in Contents /\ About(n) = s[2]
              \/ s[1] = "target" /\ s[2] \in Comments /\ n = CommentRow(s[2])
              \/ s[1] = "actor" /\ row.actor = s[2]
              \/ s[1] = "block" /\ u = s[2] /\ row.actor = s[3] /\ n.kind = "comment"
              \/ s[1] = "demotion" /\ u = s[2] /\ Channel(n) = "admin"}

(* detachBlockedActorLikeContributions, removeAuthoredInteractions: the    *)
(* like documents to detach.                                               *)
MatchingLikes(s) ==
    {p \in Users \X Contents :
        /\ likes[p[2]][p[1]].liked
        /\ \/ s[1] = "blockLikes" /\ ContentOwner[p[2]] = s[2] /\ p[1] = s[3]
              /\ likes[p[2]][p[1]].generation # 0
           \/ s[1] = "eraseLikes" /\ p[1] = s[2]}

QueryPage(s) ==
    /\ sweeps[s].at = "query" /\ s \notin DetachSweeps
    /\ \E P \in SUBSET Matching(s) :
        /\ Cardinality(P) = PageLimit \/ (Cardinality(P) < PageLimit /\ P = Matching(s))
        /\ sweeps' = [sweeps EXCEPT ![s] =
                IF P = {} THEN AfterLastPage(s) ELSE [at |-> "commit", page |-> P]]
    /\ UNCHANGED <<inbox, unread, dismissed, likes, posted, content, blocked, eligible,
                   admins, issued, lastGeneration>>

CommitPage(s) ==
    LET live == sweeps[s].page \cap Matching(s) IN
    /\ sweeps[s].at = "commit" /\ s \notin DetachSweeps
    /\ s \in BulkSweeps => MayMutate(s[2], s[3])
    /\ \/ s[1] = "read" /\ MarkRead(live) /\ UNCHANGED dismissed
       \/ s[1] = "clear" /\ Drop(live) /\ Dismiss(live)
       \/ s \notin BulkSweeps /\ Drop(live) /\ UNCHANGED dismissed
    /\ sweeps' = [sweeps EXCEPT ![s] =
            IF Cardinality(sweeps[s].page) < PageLimit THEN AfterLastPage(s) ELSE Querying]
    /\ UNCHANGED <<likes, posted, content, blocked, eligible, admins, issued, lastGeneration>>

QueryLikes(s) ==
    /\ sweeps[s].at = "query" /\ s \in DetachSweeps
    /\ sweeps' = [sweeps EXCEPT ![s] = [at |-> "commit", page |-> MatchingLikes(s)]]
    /\ UNCHANGED <<inbox, unread, dismissed, likes, posted, content, blocked, eligible,
                   admins, issued, lastGeneration>>

(* detachGroupedLikeContribution: one transaction per like of the page.    *)
DetachLike(s, a, t) ==
    /\ sweeps[s].at = "commit" /\ s \in DetachSweeps /\ <<a, t>> \in sweeps[s].page
    /\ sweeps' = [sweeps EXCEPT ![s].page = @ \ {<<a, t>>}]
    /\ IF likes[t][a].liked
       THEN /\ likes' = [likes EXCEPT ![t][a] =
                    IF s[1] = "eraseLikes" THEN NoLike ELSE [@ EXCEPT !.generation = 0]]
            /\ RemoveContribution(t, likes[t][a])
       ELSE UNCHANGED <<likes, inbox, unread>>
    /\ UNCHANGED <<dismissed, posted, content, blocked, eligible, admins, issued, lastGeneration>>

(* The account deletion goes on to purge what the actor caused.            *)
DetachDone(s) ==
    /\ sweeps[s].at = "commit" /\ s \in DetachSweeps /\ sweeps[s].page = {}
    /\ sweeps' = IF s[1] = "eraseLikes"
                 THEN [sweeps EXCEPT ![s] = Idle, ![<<"actor", s[2]>>] = Querying]
                 ELSE [sweeps EXCEPT ![s] = Idle]
    /\ UNCHANGED <<inbox, unread, dismissed, likes, posted, content, blocked, eligible,
                   admins, issued, lastGeneration>>

(* The function instance dies, or the transaction fails: a trigger or job  *)
(* starts over, a callable is simply gone.                                 *)
SweepFails(s) ==
    /\ sweeps[s].at # "idle"
    /\ sweeps' = [sweeps EXCEPT ![s] = IF Durable(s) THEN Querying ELSE Idle]
    /\ UNCHANGED <<inbox, unread, dismissed, likes, posted, content, blocked, eligible,
                   admins, issued, lastGeneration>>
-----------------------------------------------------------------------------
SweepStep(s) ==
    \/ QueryPage(s) \/ CommitPage(s) \/ QueryLikes(s) \/ DetachDone(s)
    \/ \E a \in Users, t \in Contents : DetachLike(s, a, t)

Next ==
    \/ \E a \in Users, t \in Contents : React(a, t) \/ Unreact(a, t)
    \/ \E a \in Users, c \in Comments : PostComment(a, c)
    \/ \E c \in Comments : DeleteComment(c)
    \/ \E t \in Contents : HoldContent(t) \/ RestoreContent(t)
    \/ \E t \in Contents : DeleteContent(t) \/ EraseContent(t)
    \/ \E n \in DOMAIN issued : Issue(n)
    \/ \E u \in Users, n \in DOMAIN issued : \E v \in 1..issued[n] : Deliver(u, n, v)
    \/ \E u \in Users, n \in Ids : \E read \in BOOLEAN : SetNotificationRead(u, n, read)
    \/ \E u \in Users, n \in Ids : DeleteNotification(u, n)
    \/ \E s \in BulkSweeps : StartBulk(s)
    \/ \E o, a \in Users : Block(o, a) \/ Unblock(o, a)
    \/ \E u \in Users : DeleteAccount(u) \/ GrantAdmin(u) \/ RemoveAdmin(u) \/ ZeroAdminUnread(u)
    \/ \E s \in Sweeps : SweepStep(s) \/ SweepFails(s)

Spec == Init /\ [][Next]_vars
-----------------------------------------------------------------------------
(* PROPERTIES *)

(* The personal badge is exactly the number of unread personal rows, after *)
(* any interleaving of activities, bulk pages, purges and detaches: every  *)
(* transaction that writes a row also moves the counter.                   *)
PersonalUnreadExact ==
    \A u \in Users : unread[u]["personal"] = Cardinality(UnreadRows(u, "personal"))

(* The admin badge never claims more than is there.  It may fall short:    *)
(* the demotion ends by writing 0 unconditionally, and an account promoted *)
(* again meanwhile may already have rows.                                  *)
AdminUnreadNeverOvercounts ==
    \A u \in Users : unread[u]["admin"] <= Cardinality(UnreadRows(u, "admin"))

(* A grouped-like row counts exactly the likes recorded under its own      *)
(* generation, and vanishes with the last of them: an unlike of a like     *)
(* whose row was dismissed and re-created meanwhile changes nothing.       *)
GroupedCountExact ==
    \A t \in Contents :
        LET row == inbox[ContentOwner[t]][LikeRow(t)] IN
        content[t] # "gone" /\ row.state # "absent" =>
            /\ row.count = Cardinality({a \in Users : likes[t][a].generation = row.generation})
            /\ row.count > 0

(* A row the owner dismissed does not come back by a late or repeated      *)
(* delivery: what is in the inbox is newer than the tombstone.             *)
DismissedStaysDismissed ==
    \A u \in Users, n \in DOMAIN issued :
        Present(u, n) => inbox[u][n].version > dismissed[u][n]

(* Every activity that adds to a row or brings it back moves the push      *)
(* version, which is all the push trigger looks at.                        *)
ActivityAdvancesVersion ==
    [][\A u \in Users, n \in Ids :
        /\ inbox'[u][n].state # "absent"
        /\ \/ inbox[u][n].state = "absent"
           \/ inbox'[u][n].count > inbox[u][n].count
           \/ inbox'[u][n].version # inbox[u][n].version
        => inbox'[u][n].version > inbox[u][n].version]_vars

(* Nothing is left of a blocked actor once the clean-ups of the block are  *)
(* through: no comment row, no counted like, whatever was in flight.       *)
BlockedActorSilenced ==
    \A o, a \in Users :
        /\ <<o, a>> \in blocked
        /\ sweeps[<<"block", o, a>>].at = "idle"
        /\ sweeps[<<"blockLikes", o, a>>].at = "idle"
        => /\ \A c \in Comments : inbox[o][CommentRow(c)].actor # a
           /\ \A t \in Contents : ContentOwner[t] = o => likes[t][a].generation = 0

(* Content erased while its status says "deleting" leaves no like and no   *)
(* comment row behind: the status keeps new activity out during the purge. *)
ErasedContentLeavesNothing ==
    [][\A t \in Contents, u \in Users :
        content[t] = "deleting" /\ content'[t] = "gone" =>
            /\ inbox'[u][LikeRow(t)].state = "absent"
            /\ \A c \in Comments : CommentParent[c] = t =>
                    inbox'[u][CommentRow(c)].state = "absent"]_vars

(* The trigger on a notification clean-up job is retried until an attempt  *)
(* gets through, so each step of its purge is strongly fair; a callable    *)
(* that died is gone for good.                                             *)
FairSpec ==
    Spec /\ \A c \in Comments :
        SF_vars(QueryPage(<<"target", c>>)) /\ SF_vars(CommitPage(<<"target", c>>))

(* The rows about a deleted comment disappear from every inbox.            *)
DeletedCommentsVanish ==
    \A c \in Comments :
        posted[c].status = "deleted" ~> \A u \in Users : ~Present(u, CommentRow(c))
=============================================================================
