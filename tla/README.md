# PlanLi: specifications, model checks and proofs

PlanLi is a travel community: people publish recommendations, routes and
trips, like and comment on each other's content, follow a notification inbox
with push messages, and are moderated. The repository holds an Expo / React
Native client (`client/`) and a Firebase Functions backend (`functions/`).
This directory models the part of the backend in which several documents,
several function instances and external services have to agree: the
notification inbox, the push dispatch with its receipts and devices, comment
threads and their counters, the administrator roster, content moderation with its
owner notices, routes and their revisions, and the rename of destinations; and, of the
client, the queue of publications.

All of them are translated from the code. `PROJECT.json` gives, for every definition,
the lines it stands for.

    tlc -workers 2 -config InboxLikes.cfg MCNotificationInbox.tla
    tlapm NotificationInboxProofs.tla

Contents: [how the system executes](#how-the-system-executes),
[inventory](#inventory), [the modules](#the-modules), [the runs](#the-runs),
[fairness](#fairness), [the proofs](#the-proofs),
[what the models show of the code](#what-the-models-show-of-the-code),
[abstractions and omissions](#abstractions-and-omissions), [plan](#plan).

## How the system executes

- **Callables** (`onCall` in `functions/index.js`) run once per request of a
  client. If the instance dies between two awaits, nobody continues; a user may
  call again.
- **Triggers** (`firestoreWritten` in `functions/index.js`) run when a document
  is written. Those that carry work are configured with `retry: true`, so they
  are delivered at least once, in any order, and repeated when they throw. A
  trigger receives a snapshot; most of the modelled handlers read the document
  again and ignore the snapshot.
- **Schedules** run every few minutes and pick up what is due (expired leases,
  back-offs).
- A **Firestore transaction** is serialisable: it either sees and writes one
  consistent state or is retried. It is one action of a model. Everything
  outside a transaction (a query before it, a second transaction, a call of
  Cloud Storage, of Firebase Auth or of the Expo push service) is an action of
  its own, and every other actor may move in between.
- **The client** is one thread: code between two awaits runs to completion, and an await
  of storage, of an upload or of a callable lets every other handler run. The app may be
  killed at any await.
- Instances have a time limit (120 s for the push trigger, 300 s for its scans),
  dispatch leases last five minutes. The push model does not use that relation:
  there a lease may run out under an instance that is only slow.

## Inventory

State, operations, what makes each part hard, and what it has to guarantee.
The status of each part is in `PROJECT.json`.

### Notification inbox — `notificationService.js` and its callers

*State*: rows `users/{uid}/notifications/{id}` (read flag, `push.version`, for
grouped likes a generation and a count, for comments the actor), the counters
`notificationState/state` (`unread`, `adminUnread`), dismissal tombstones, and in
the like documents the generation they were counted under.
*Operations*: `stageNotificationActivity` on behalf of reactions, comments,
holds and restores; `upsertNotification` for versioned deliveries;
`setNotificationRead`, `deleteNotification`, mark-all-read and clear-all in pages;
purges by target, actor, blocked actor and demoted administrator; the detaching
of likes on block and account deletion.
*Interacts with*: reactions and comments (same transaction), blocking (trigger),
content deletion and account deletion (purges), the roster (`requireActiveAdmin`),
push dispatch (a trigger on the rows).
*Hard*: a page is queried outside the transaction that commits it; counters are
denormalised and moved by deltas; a like, its unlike and a detach of the same like
may all meet a row that was dismissed and made again.
*Correct when*: counters equal the rows, grouped counts equal the likes, the
dismissed stays dismissed, purges leave nothing, each activity advances the
version that push looks at.

### Push dispatch — `notificationPushService.js`

*State*: `notificationPushDispatches` (status, attempt count, lease, claim token),
receipt jobs, devices, preferences.
*Operations*: the write trigger and the five-minute scan claim a dispatch, read
row, eligibility and devices again, send chunks with retries, mark, persist one
outcome per ticket, settle.
*Hard*: lapsed leases, instances that come back late, transport errors that leave
the provider's side unknown, rows that move on meanwhile.
*Correct when*: nothing is sent twice without a reason the code cannot avoid,
superseded versions are not sent, outcomes are final, every activity settles, and
no activity's push is swallowed by an older dispatch.

### Push receipts and retried sends — `notificationPushService.js`

*State*: receipt jobs (per ticket) and retry jobs (per device) with claim, lease,
attempts, age. *Operations*: the scan that polls the provider, disables tokens that
are gone, puts receipts off, turns them into retries, claims and re-sends single
messages. *Hard*: the same as dispatch, with an attempt counter that a claim of a
retried send does not move, and documents that were read by a query long before they
are settled. *Correct when*: no attempt is sent twice without a reason the code cannot
avoid, what is sent is bounded, each job ends.

### Notification devices and preferences — `notificationPushService.js`

*State*: devices by token hash and owner, registration window. *Operations*:
register, unregister, hand over to another account, disable. *Hard*: limits (5 active,
10 per window) under concurrent registration; a token moves between accounts while
answers about it are under way. *Correct when*: the limit of active devices holds, and
an answer about an earlier owner's message leaves the new owner alone.

### Content moderation — `adminService.js`, `moderationService.js`, `mediaModeration.js`

*State*: status and `moderation.lastAction` of a document, availability of its
storage objects, the moderation case with its held-media projection.
*Operations*: hold, restore, delete by a moderator; delete by the owner; automatic
hold at the report threshold; the case trigger that withholds media.
*Hard*: status and media live in different systems and are written one after the
other; callables are not repeated; case events are late and repeated.
*Correct when*: media follows the status once everything is done.

### Owner notification outbox — `notificationService.js`, `adminService.js`

*State*: an outbox document (pending or ready, version) per deleted content.
*Operations*: prepare before the deletion, complete after it, the trigger that
delivers, the recovery when a moderator repeats an interrupted deletion.
*Hard*: deaths between the steps; the content's purge takes the delivered row away.
*Correct when*: no deletion by a moderator is silent, the owner is not told early,
a completed notice arrives.

### Administrator roster — `adminService.js`, `adminAuthorization.js`

*State*: the claim in Firebase Auth, the session token, the registry
`system/moderation/admins`, admin rows in inboxes. *Operations*: `setUserAdmin`,
`fanoutAdminNotification`, sign-in, account deletion. *Hard*: three systems written
in turn without a transaction, by calls that overlap and die. *Correct when*: former
administrators see nothing, claim and registry agree when nothing went wrong.

### Destination rename — `destinationRenameService.js`, `destinationCacheService.js`

*State*: the destination's name and its source, one job per requested name (status,
stage, cursor, generation), the name copied into content. *Operations*: request;
process one page per execution; authors' saves, moves and deletions; cache refresh.
*Hard*: several instances with copies of one job, requests that come back to an
earlier name, a read and a later write around a slow provider. *Correct when*: a
complete job of the canonical name leaves no other name behind, checkpoints move
forward, jobs settle.

### Comment threads and their counters — `socialService.js`, `adminService.js`, `deletionService.js`

*State*: comments, replies, `replyCount`, `commentCount`, a deletion job per root.
*Operations*: save, delete with clean-up job and its trigger, hold and restore with
the replies of a root, recount, the removal of what an account wrote. *Hard*: pages
read and written later; counts taken by a query outside the transaction that stores
them; a thread deleted by several actors while it grows. *Correct when*: no reply
outlives its root, counters and holds agree once nothing is under way, a marked thread
goes to the last reply.

### Reactions and favorites — `socialService.js`, `favoriteCleanup.js`

*State*: like documents and counts, favorites with a preview of their content.
*Operations*: toggle, project, clean up. *Hard*: the favorite projection writes from
an event's snapshot and events are unordered. Likes are modelled, favorites planned.

### Reports and cases — `moderationService.js`, `moderationPreview.js`

*State*: one report per reporter and target, the case and its counters.
*Operations*: submit, resolve, preview. *Hard*: little: single transactions. *Correct
when*: a reporter counts once. The automatic hold and the alerts are modelled.

### Blocking — `moderationService.js`

*State*: `users/{owner}/blockedUsers/{actor}`. *Operations*: block, unblock, the
trigger with two clean-ups. *Hard*: clean-ups of one block crossing the next unblock,
block and activity. *Correct when*: nothing of a blocked actor remains.

### Suspension and account deletion — `adminService.js`, `authPolicy.js`, `deletionService.js`, `appleAuthService.js`

*State*: `accountStatus`, a deletion job with stages. *Operations*: suspend (hide
content page by page, detach likes), delete (mark, erase content, likes, comments,
documents, Auth user; revoke the Apple token). *Hard*: resumable stages repeated by a
retry, other users acting meanwhile. *Correct when*: a deletion that began ends, and
leaves no document and no count behind. Effects on inbox, roster and comment threads
are modelled.

### Rate limits — `socialService.js`, `publicRateLimitService.js`, `providerRateLimitService.js`

*State*: a window start and a count per key. *Hard*: the boundary of a fixed window;
the time is taken before the transaction. Planned.

### Routes and revisions — `routeService.js`, `deletionService.js`

*State*: the route document (status, version, active revision), revisions with days
and stops (prepared, active, superseded, with an expiry). *Operations*: save under a
base version, replay a creation by its request id, read in three steps, hold and
restore, delete recursively, sweep what expired. *Hard*: the revision is written before
the transaction that makes it the route's, so saves race, lose and die with documents
written; readers take three reads. *Correct when*: the route behaves like one document
that is replaced whole, readers see whole routes, leftovers go.

### Recommendations and trips — `recommendationService.js`, `tripService.js`

*State*: the documents and statistics. *Operations*: save, in one transaction, which
copies the destination's name. That name is modelled in the rename.

### Media — `mediaProcessor.js`, `mediaCleanup.js`

*State*: uploads, derived variants. *Operations*: decode, store, delete what an update
dropped. *Hard*: repeated triggers; idempotent. Not modelled: image decoding and
storage writes of private objects.

### Destinations, catalog, countries — `destinationAdminService.js`, `destinationIdentityService.js`, `destinationOverviewService.js`, `destinationImageService.js`, `destinationCatalogService.js`, `countryGeography.js`, `countryMetadata.js`

*State*: destination documents and derived catalogs. *Operations*: selection rules over
providers' answers, stored in one transaction each. Not modelled, except name and source.

### Places gateway, personalisation, discovery, profiles

Translations of an external service, ranking over query results, and the projection
of a profile: pure functions or last write wins. Not modelled.

### Client — `client/src`

*Publish queue* (`RecommendationPublishContext.js`, `recommendationPublishStorage.js`,
`RecommendationPublishBanner.js`). *State*: jobs in memory and in storage, a chain of
snapshots to be written, images kept on the device, one worker. *Operations*: enqueue,
review and edit, retry, discard, hydrate, upload, save, close. *Hard*: every operation
awaits the storage while the others change the queue in memory; answers of the server are
lost; the app is killed, the account changes. *Correct when*: what was accepted is kept
with its images until it is published, what is shown as published is, no job hangs.

*Request coordinator* (`requestCoordinator.js`): in-flight
de-duplication, stale answers, an LRU bound. *Push coordinator* and *notification
centre*: device registration across sign-in and sign-out. *Authentication context*:
session restore against a listener. The request coordinator is planned; screens,
components and styles are presentation.

### Rules, indexes, scripts

`firestore.rules` and `storage.rules` are declarative; the modelled handlers run with
administrative access. Scripts are run once by an operator.

## The modules

Each component is one module; its theorems are in `<Module>Proofs.tla`, which EXTENDS
it (those of `AdminRoster` and `DestinationRename` in `AdministrationProofs.tla`);
`MC<Module>.tla` names the model values and the bounds of the runs. In every module
one transaction, one query or one call of another service is one action, and an
operation with several of them keeps a program counter. Operators whose comment says
"variant" are deviations of the code next to them: they are never used by `Next`, and
exist to confirm that the properties notice a plausible mistake.

The modules are checked one by one. Where two components meet, the other one appears
as the actions it can take: `NotificationInbox` contains the blocks, deletions and
demotions that purge it, `PushDispatch` the changes of the row it re-reads,
`ContentModeration` the delivery into the inbox of its own notice, `AdminRoster` the
fan-out.

### NotificationInbox

| model | code |
|---|---|
| `inbox`, `unread`, `dismissed` | rows, `notificationState/state`, tombstones |
| `likes[t][a].generation` | `notificationGeneration` on a like: the grouped row it is counted in, 0 for none |
| `React`, `Unreact` | `setReaction`, with `prepareGroupedLikeActivity` / `prepareGroupedLikeRemoval` in its transaction |
| `PostComment`, `DeleteComment` | `saveComment`, `deleteComment` with the clean-up job it writes |
| `HoldContent`, `RestoreContent` | the alert staged by `moderateContent` |
| `Issue`, `Deliver` | a producer's next activity version; `upsertNotification` for any version issued, any number of times, in any order |
| `SetNotificationRead`, `DeleteNotification`, `StartBulk` | the owner's callables |
| `Block`, `Unblock`, `DeleteContent`, `EraseContent`, `DeleteAccount`, `GrantAdmin`, `RemoveAdmin`, `ZeroAdminUnread` | the operations that start purges, and the steps after the last page |
| `sweeps[s]` = `query → commit → ... → idle` | every paged handler: `QueryPage` outside, `CommitPage` inside a transaction, where the rows are read again and those that no longer match are left alone |
| `QueryLikes`, `DetachLike`, `DetachDone` | loops with one transaction per like |
| `SweepFails` | the instance dies: durable work starts over, a callable is gone |

A notification id is a hash of kind and target, so it is the pair. Generations are
random ids in the code, fresh numbers here.

### PushDispatch

One recipient and one row. A key is `<generation, version>`, the part of a dispatch
id that varies. `dispatch[k]` is the document, with `due` for "lease or back-off has
run out" and `old` for "seven days have passed"; `attempts` also stands for the claim
token, which is drawn once per attempt. `worker[w].at` is the await an instance
stands at. `accepted` counts what the provider really took, `doubtful` collects the
keys for which the code cannot know: both are history, no guard reads them. `Activity`
and `RemoveRow` are the row's producers, `HandleEvent` the trigger, `Scan` the
schedule, `SendAnswered` and `SendFails` one round of `sendChunkWithRetry`,
`MarkAccepted`, `Persist`, `Settle`, `Retry` the writes after it, `Crash` a death at
any of them. `RenewsGeneration` tells the two kinds of row apart: a grouped-like row
that is made again takes a new generation, the others do not have one.

### PushReceipts

One notification of one user is followed from the dispatch's tickets on. `jobs` holds a
receipt job per ticket and a retry job per device. A scanner is the treatment of one
entry of a scan, `Pick` (the query, which carries the document as it was) to the
transaction that settles it: `claim → row → device → send → [disable →] settle` for a
retry (`processRetrySendJob`), `fetch → [bury →] receipt` for a receipt. Entries of one
scan and of overlapping scans are all scanners. `old` and `leased` are `expireAt` and
the lease, which end at any time (`GrowsOld`, `LeaseLapses`). `Register`, `Unregister`
and `Disable` are the transactions on devices. `ghost` is history: what the provider
took, which attempts were sent, and where a scanner died after its send or outlived its
lease. `PushDispatch` and this module meet in `DispatchAccepted` and `DispatchDelayed`:
what the one has sent, the other treats.

### CommentThreads

One post. `comment[c]` is a document with its status, the mark `byThread` of a reply held
on its root's account, the last action of a moderator and, for a root, `replyCount`.
`Save`, `DeleteReply`, `MarkRoot`, `Moderate` are transactions. A call that goes on after
them is in `calls`: `page → batch → page ... → tally → finish` is
`processCommentThreadDeletionJob`, run by the call that marked the root, by the trigger
(`HandleEvent`) and by an account deletion; `sync → write → sync ...` is
`syncRootReplyModeration`; `count → store → countReplies → storeReplies` the recount of
`moderateContent`; `next → ... → countAll → storeAll` is `removeAuthoredInteractions`.
`Die` ends any of them, and `events` are job writes whose trigger has not succeeded. `Init`
is any post at rest: comments unwritten, published, held by name or with their thread.

### RouteRegister and RouteRevisions

`RouteRegister` is the abstract specification: a text, a status, a version; a writer
looks, and replaces the text if the version is still what it saw. `RouteRevisions` is the
code: `Look → Prepare → Activate | Replay → Discard | Refuse`, one step per read, batch or
transaction; `MarkDeleting → ListTree → RemoveTree → RemoveRoute` is
`deleteContentInternal` with `recursiveDelete`; a reader is `ReadRoute → ReadRevision →
ReadBody`; `Expires` and `Sweep` are the clock and `cleanupRouteRevisions`. The
refinement maps the text to the active revision's id, which stands for its days and
stops since those are written once, and what a writer has seen to the base version
its call carries (`Register == INSTANCE RouteRegister WITH ...`). Prepared, superseded
and swept revisions are stutters.

### PublishQueue

`jobs` is `jobsRef`, `stored` what `AsyncStorage` holds, `writes` the chain of promises in
`persistenceRef`, one snapshot each, with whoever awaits it; `Commit` is `commitJobs`.
`worker` is `processJob`: `Start → upload → Ready → Send → saving → Answered → Close`, where
`started`, `prepared`, `entering`, `closing` and `recording` are its awaits of a write and
`Fail` its catch block. What follows an await up to the next one is a `WorkerBlock`, before
which nobody else moves. `form[j]` is the editor with its submission: `OpenReview → Submit
→ Place → StoreForForm`, images first, then the queue, then the storage; a write that
fails puts the source job back. `Load` and `Hydrate` are the two halves of the restoration,
`Kill` ends everything but storage, images, requests and server. `posted` is the server's
side of a request id: the first save publishes, a later one is replayed
(`saveRecommendation`, as `saveRoute` in `RouteRevisions`). `version` and `media` number a
job's texts and images, so that one can see which of them were published. `ghost` is
history: jobs accepted, refused or discarded, jobs whose edit crossed their publication
(`crossed`), jobs saved by another account (`swapped`), a queue written before it was read
(`reset`).

### AdminRoster

`claim`, `session` and `registry` are kept apart, because the code checks the token
and the registry and writes the claim and the registry. `Begin → CountAdmins →
WriteClaim → WriteRegistry → PurgeRows` is `setUserAdmin`, with `CallDies` between any two.
`Fanout` is one transaction of `upsertNotification` with `requireActiveAdmin`.
`abandoned` and `disturbed` are history, used only in the properties.

### ContentModeration

A call is `decide → media, object by object` (hold, restore) or `prepare → mark →
purge → strip → erase → complete` (delete; an owner's `withdraw` leaves out the first
and the last; the recovery of a deletion is `purge → complete`). A handler of a case
event is `check → media`. `outbox`, `signals` and `alert` are the outbox document, its
events and the row in the owner's inbox. `Begin` reads the document outside the
transaction of `Decide`, which checks it again.

### DestinationRename

`jobs[n]` is the job of the requested name `n`: `stage` 1 to 3 for recommendations,
routes and trips, `cursor` the last document id of the previous page. A worker holds
the copy of the job it took: `Take → CheckCity → ReadPage → WritePage → Advance`, or
`Supersede`, `Fail`, `Die`. `content[c]` is the name a document shows, `Elsewhere` for
content of another destination, `Gone` for content that was deleted. `StartRefresh`
and `FinishRefresh` are the read and the write of the cache refresh.

## The runs

Twelve runs; times are with two TLC workers. Every run lets the system stop
(`CHECK_DEADLOCK FALSE`), because versions, holds, requests and attempts are bounded
and a system nobody uses does rest.

| run | what it shows | instance | states |
|---|---|---|---|
| `InboxLikes` | badge, grouped count and push version under likes, dismissals, blocks, an account deletion and a content deletion; nothing is left of what is gone | 3 users, 1 content, versions to 3, 2 generations, pages of 2, 2 sweeps at once | 615 k |
| `InboxComments` | comments and replies against block and deletion; clean-ups end | 2 users, 2 comments, pages of 1, 2 sweeps | 45 k |
| `InboxAlerts` | case alerts redelivered in any order against dismissal, clear, demotion and re-promotion | 2 users, case versions to 2, one hold and one restore alert | 891 k |
| `PushClaims` | two instances race for the dispatches of a row that is removed and made again meanwhile | 2 instances, 1 device, 2 × 2 attempts, 1 version, 1 generation | 205 k |
| `ReceiptScans` | overlapping scans of receipts and retries while the device changes hands and a scan dies | 2 scanners, 1 device, 2 accounts, 3 attempts, 4 tickets, 1 death | 1163 k |
| `CommentThreadCalls` | a thread is answered while it is deleted, held, shown again and left by an author | 3 comments, 2 calls at a time and in all, pages of 1, 1 death | 932 k |
| `RosterChanges` | overlapping grants and demotions that die | 2 administrators, 2 calls, symmetric | 197 k |
| `ModerationCalls` | media follows the status; notices are on record, truthful, and arrive | 2 calls of any action, 1 handler, 2 objects, 1 hold, notices to 2 | 599 k |
| `RenameOnce` | a rename reaches everything, in two instances | 2 instances, 3 documents in 2 stages, pages of 1, 2 requests | 730 k |
| `RenameFair` | jobs settle, also when a refresh undoes the name | 1 instance, 2 documents, 2 requests, a refresh | 29 k |
| `PublishCalls` | what was accepted is kept until published, as it was queued, with its images; jobs settle | 1 job, 2 accounts, 1 automatic retry, 2 edits or manual retries, 2 mishaps (kill, change of account, storage failure) | 2215 k |
| `RouteSaves` | revisions implement a document replaced whole; readers see whole routes; leftovers go | 2 calls at a time, 1 reader, 3 revisions, 1 deletion | 478 k |

### Why these bounds

- *Likes.* Three versions and two generations are what it takes to like, dismiss,
  like again from another account and unlike the first; two actors are what it takes
  for a stale contribution to be counted against somebody else's. Pages of two with
  three likers make a page that is full and one that is short.
- *Inbox rows of comments.* Two comments make a reply possible, and with pages of one a purge that
  starts over between pages.
- *Alerts.* Two versions make an old one arrive after a new one was dismissed; two
  kinds of sweep (demotion, clear) meet in one inbox.
- *Push.* Two instances are needed for a late one to meet a lease that was taken over;
  two dispatch attempts make the limit bite, two send attempts make an earlier round's
  tickets exist when a later one throws. `PushClaims` keeps one key and one device: the
  row can be removed before and under a dispatch, and the instances meet only in the
  dispatch document of one key. With two versions or generations and two instances the
  model exceeds ten million states; the theorems `NothingSupersededIsSent` and
  `EveryActivityIsFresh` cover them.
- *Publications.* One job, since the worker takes one at a time and jobs share only the
  chain of snapshots, each of which holds the whole queue: two jobs (several million
  states) differ in the order of their writes. Two edits are a retry under an open editor;
  two mishaps are a kill after a failed write, two kills, or sign-out and sign-in. One
  automatic retry instead of two leaves the same decisions.
- *Receipts.* Two scanners are two entries with the same document; one device and two
  accounts make a hand-over; three attempts and four tickets let a message go from
  receipt to retry and back to its limit, with one ticket to spare for a second claim.
  One death and any number of lapsed leases are the two ways to be in doubt.
- *Comments.* A root with two replies and pages of one make every page step happen twice;
  two calls are every overlap of two kinds of call. One of the replies is the leaver's; a
  root that leaves is an ordinary deletion of its thread.
- *Routes.* Two calls and three revisions make a save that loses, one that wins after it,
  and a previous revision that a reader still reads; one deletion may die at every step.
- *Roster.* Two administrators can demote each other and be deleted; a third adds no
  kind of pair. Accounts and calls are interchangeable in `RosterInit`, `RosterNext` and the
  properties, all of which are safety, so symmetry is sound.
- *Moderation.* Two calls give every overlap of two actions with a handler; a second
  notice version is the repeated deletion; two objects make a half-done loop.
- *Rename.* Two documents in the first stage give a checkpoint inside a stage, the
  third one the change of stage; two instances give a stale copy. Pages of one write
  one document and so leave most steps in between.

The theorems remove these bounds for the properties they cover. Where a module's type
invariant is a theorem no run repeats it.

### The properties

*Inbox.* `PersonalUnreadExact`, `GroupedCountExact`, `AdminUnreadNeverOvercounts`
relate counters to what they count; `DismissedStaysDismissed` relates a row to its
tombstone whatever order deliveries come in; `ActivityAdvancesVersion` is what push
depends on; `BlockedActorSilenced`, `ErasedContentLeavesNothing` and
`DeletedCommentsVanish` say that purges which were overtaken while they ran have still
done their work.

*Push.* `SentTwiceOnlyInDoubt`: duplicates only where the code cannot know better;
`OutcomeStands`; `SupersededNeverSent`; `EveryActivitySettles`; and, as a theorem only,
`FreshActivityFreshDispatch`: no activity's push is taken for an old one.

*Receipts.* `ResentOnlyInDoubt`: one attempt of a retry is handed over by two claims only
where a scanner died after its send or outlived its lease; `SendsBounded`: retries and
receipts that turn into each other end; `HandedOverDeviceStands`: an answer about an
earlier owner's message leaves the device alone; `EveryJobEnds`.

*Comment threads.* `RepliesHaveRoot`: a thread deleted by several actors while it is
answered leaves no orphan; `CountersSettle`: both counters are right when nothing is under
way, unless the last count stored was out of date;
`OwnHoldStands`, `ThreadFollowsRoot`: who may show a reply again;
`LeaverLeavesNothing`; `MarkedThreadVanishes`.

*Routes.* `ImplementsRegister` is the refinement; `OneActiveRevision` relates the route to
its revisions at every step of a deletion; `ReadersSeeWholeRoutes` relates three reads;
`LeftoversSwept`.

*Publications.* `AcceptedSurvives` relates what the user was told to storage and server,
across kills, put-backs and late writes; `PublishedAsQueued`: a lost answer and the save
that repeats it do not show something else than was published; `QueuedMediaStands`: of the
images that edits drop, keep and put back, none is deleted that the stored queue needs;
`JobsSettle`: a job is not left "uploading" by anything but an edit that crossed its upload.

*Roster.* `FormerAdminSeesNothing`, also if calls overlap and accounts are deleted,
except where a demotion died before its purge; `RosterAgrees` when nothing died.

*Moderation.* `MediaFollowsStatus` at rest, unless a call died or overlapped another
one and none has run alone since: the code relies on a moderator repeating the call;
`NoSilentDeletion`, `ToldOnlyWhenGone`, `NoticeArrives`, `ReadyIsDelivered`: the four
promises of an outbox.

*Rename.* `CanonicalNameEverywhere`, `CheckpointNeverRewinds`, `RenameSettles`.

## Fairness

Only what the platform repeats is fair. No client, administrator, author or caller is
ever bound to act.

- **Inbox** (`FairSpec`, used by `InboxComments`): strong fairness of the page steps of
  a comment's clean-up job, whose trigger is declared with `retry: true`
  (`functions/index.js`). It has to be strong because a death disables the step each
  time. Other paged work is not assumed to end.
- **Push** (used by `PushClaims`): time passes (`TimeRunsOut`, weak); an instance goes on
  or is killed (`WorkerStep` weak, and `Crash` is one of its disjuncts, so no progress of
  a single instance is assumed); the trigger's event is redelivered until handled and
  the scan runs every five minutes (strong, because an instance may be busy each time).
  `EveryActivitySettles` therefore rests on the count of attempts, not on an instance
  that survives.
- **Receipts** (used by `ReceiptScans`): scans keep coming and an invocation runs to its
  end or dies (weak, over all scanners together: which entry is treated, and which scan
  goes on, is left open); leases lapse and documents age (weak). The provider is not
  bound to say anything.
- **Comment threads** (used by `CommentThreadCalls`): an instance that does not die goes on
  (weak); the trigger of a thread deletion job is delivered until it succeeds (strong,
  `retry: true` in `functions/index.js`). Nobody is bound to call.
- **Routes** (used by `RouteSaves`): a call ends within its time limit, and `Fails` is one
  of the ways to end (weak); readers end; time passes; the sweep is scheduled daily
  (`functions/index.js:742`, weak for each revision). A deletion may stop for good.
- **Publications** (used by `PublishCalls`): the worker, the chain of writes and the
  hydration go on (weak): uploads and callables have timeouts, and their failing is one of
  the ways to go on; the effect (`RecommendationPublishContext.js:696`) starts the next job
  whenever a job, the account or the wake count changes. The server is not bound to serve,
  nor anybody to sign in; an app in the background is taken for one that was killed.
- **Moderation** (used by `ModerationCalls`): strong fairness only of the delivery of an
  outbox event that consumes it. Calls may die for good.
- **Rename** (used by `RenameFair`): strong fairness of the steps of an instance, since
  the trigger on a queued job is declared with `retry: true` (`functions/index.js:1105`):
  an execution that does not die comes in the end.

## The proofs

All theorems are checked by TLAPS (SMT, Zenon, and LS4 for the temporal steps) and
hold for every value of the constants that satisfies the named assumptions of the
module: finite sets of users, contents, devices, numbered documents, and bounds that
are natural numbers. Nothing is assumed about how large they are.

### NotificationInboxProofs

- `TypeCorrect`. `TypeOK` is inductive; the point that could go wrong is a grouped count
  below zero, which the guard `row.count > 1` of the removal excludes.
- `PersonalBadgeExact`. The difference `Gap(u, c)` between a counter and the rows it
  counts is not changed by any write: staging adds one to the counter exactly when
  a row becomes unread, dropping and marking take off the cardinality of the unread rows
  they touch. The lemmas on staging, dropping and marking state this once, on finite
  sets, and each action cites the one it uses.
- `AdminBadgeBounded`. The same gap, which `ZeroAdminUnread` alone changes, and only
  downwards.
- `DismissalsLast`. A row of a versioned kind is above its tombstone: dismissal removes
  the row and records its version, delivery demands a version above both. The
  induction carries what a version of a row and a tombstone can be.
- `ActivitiesAdvance` (`ActivityAdvancesVersion`), an action property. What a step can do
  to one row is said once: it leaves it (`Stays`), takes it away (`Loses`), or lets
  something arrive, and each arrival writes a version above the row's and its
  tombstone's. One lemma shows that every action does one of these to every row.
- `ErasuresLeaveNothing` (`ErasedContentLeavesNothing`). `Purged`: while content is being
  deleted, a like or comment row of it that is left is on the page of a purge whose query
  came back short, and the purge is not over. `NothingArrives` uses the moves above:
  closed content lets no row in.
- `GroupedCountsExact`. `Likable`: a like that is off carries generation 0 and none is
  ahead of the last one drawn, an absent row is blank, and a present row has a generation
  and as many contributors as it counts. A fresh generation therefore has none, and what
  a like or its removal adds or takes is one element of a finite set.
- `BlockedActorsSilenced`. `Silenced`: while the block stands, a comment row of the actor
  is still ahead of its clean-up (`Ahead`), and so is a like that is counted in a row
  (`LikesAhead`); `Block` starts both over, no producer adds to them, and only the
  clean-up of a page that has them moves on.

### PushDispatchProofs

- `PushTypeCorrect`.
- `OutcomesStand`. An instance that may still write holds the attempt number of the
  dispatch: `Claims` says that attempt numbers of instances never exceed the
  dispatch's, so an instance that was overtaken fails the comparison.
- `SentOnceUnlessInDoubt`. `Sound(k)` describes a key without doubt: at most one
  instance works on it, the holder of the latest attempt; what the provider took of it
  is what that instance's tickets say; and once sent it is in a status from which it is
  not claimed. Every way to break one of these adds the key to `doubtful` in the same
  step.
- `NothingSupersededIsSent`, `EveryActivityIsFresh`, under
  `RenewsGeneration = TRUE`: keys a row has passed are ordered below it and never
  come back (`Past`, `Ordered`), so an instance that was stale at its claim finds another
  row, and a new activity finds no document.

### PushReceiptsProofs

- `ReceiptsTypeCorrect`, attempts within `MaxAttempts + 1` included.
- `DevicesStayWithinLimit`. Only `Register` makes a device active, and counts first in the
  same transaction.
- `SendsStayBounded` (`SendsBounded`). A notification has one job for a device at a time
  (`Lone`), and none before it is dispatched (`Undispatched`). A send is paid for with two
  attempts, that of the retry and that of the receipt asking for it: `Granted` bounds what
  the provider took by the attempts of the job that is alive, and `Known` says that the
  number a scanner read is still that of its document when it is used.
- `HandedOverDevicesStand`, an action property: `Disable` compares the owner in its
  transaction.
- `ResentOnlyWhenInDoubt`. The invariant `Once` speaks of a device without doubt:
  `Unwritten`: the jobs of devices without an outcome and of tickets not yet issued are
  untouched and were never sent; `Ticketed`: the ticket a scanner was given names a
  document that nobody has written and no other scanner holds; `Held`: a scanner past its
  claim holds it, with its lease; `Answered`: a job one of whose attempts was taken is
  closed, or the scanner that sent it has yet to settle it. A second claim of the
  same attempt therefore finds it changed, unless the holder died or its lease lapsed,
  which is when doubt is recorded.

### CommentThreadsProofs

- `ThreadTypeCorrect`.
- `RepliesKeepTheirRoot` (`RepliesHaveRoot`). The invariant adds: `Marked`, a root is
  "deleting" exactly as long as its job is ready; `CallSound`, no page that a call carries
  holds a root, no call is ahead of the job it works for, and a call that has found the
  thread empty and is not superseded finds it empty still, since no one may answer a marked
  root and a request that queues the thread again raises the version. `Steady` says once
  what no step does (bring a comment to life in a closed thread, take a root from a reply,
  move a job without its root), and what the calls know follows from it.
- `NamedHoldsStand` (`OwnHoldStands`). The invariant adds `NamedHeld`: a reply held by name
  is not held for its thread, so a restore that reads it passes it by.
- `LeaversAreGone` (`LeaverLeavesNothing`). `CallSound` also says that what the leaver
  still has, and is no marked root, is on the call's list; the list is empty when the
  call counts.
- `ThreadsFollow` (`ThreadFollowsRoot`). Of two moderations of one root none is alone
  (`Solitary`), and one that runs alone finds the root as it left it, or on its way out,
  and each reply it has passed following it (`SyncKnows`). `NextContinues` says that only a
  moderation's first step makes a call a moderation.
- `CountsSettle` (`CountersSettle`). `PostExact`: outside a deletion, and with no count
  left to store, the post's counter is the cardinality of what is shown; `RootExact`: so is
  a root's, unless a moderation of its thread is under way. Every step shows or hides one
  comment and moves the counters it owes, or a whole set and stores what it has counted.

### RouteRevisionsProofs

- `RouteTypeCorrect`.
- `RevisionsAgree` (`OneActiveRevision`). The invariant adds `Deleted`: a running deletion
  that did not begin with a held route finds the status "deleting", so nobody publishes,
  what it has listed contains the active revision, and none is active when it erases the
  route; and `Discarded`: a revision that a call discards was never the route's.
- `RoutesReadWhole`. A revision a reader has seen active cannot expire under it (two hours
  and a week against a time limit of minutes), hence is not swept.
- `RoutesImplementRegister`. Every step maps to a step of `RouteRegister` or a stutter; the
  only one that uses the invariant is `Activate`, whose previous text must be the one
  the version stands for.

### ContentModerationProofs

- `ModerationTypeCorrect`.
- `NoticeIsTrue` (from `Truthful`): a call reaches `complete`, and an outbox becomes
  ready, only once the content is gone; gone is final; a row in the inbox carries a
  version that was signalled.
- `DeletionIsRecorded` (from `Recorded`, `Numbered`): a call that deletes carries the
  version it prepared from `mark` on, and the outbox never goes back.
- `MediaFollow` (`MediaFollowsStatus`). `Solitude`: a call that is alone is the only one,
  beside no handler. `CallSets` and `HandlerSets`: whoever is at the media, undisturbed,
  works for the status the content has, and what it has passed is set for it; `Follows`:
  in between the media follow the status, or the event of the latest hold is still to be
  handled.
- `CompletedNoticesArrive` (`NoticeArrives`). `Arrives`: a ready outbox of an owner who
  still exists has its version signalled, shown or dismissed, or a recovery is about to
  signal it; `DeletesAlone`: a deletion that is alone knows the latest version.

### AdministrationProofs

The two components that administrators drive have their theorems in one module, and
`AdminRoster` names its specification `RosterSpec`, its type invariant `RosterTypeOK` and
so on, because `AdministrationProofs` extends it together with `DestinationRename`.

- `RosterTypeCorrect`.
- `FormerAdminsAreCleared`. The property is nearly inductive: an entry leaves the
  registry only with a purge or a deletion behind it, and a fan-out adds rows only to
  who is listed.
- `RostersAgree` (`RosterAgrees`). `Orderly`, for as long as no call died or overlapped
  another: at most one call runs, its user stays active and nobody leaves, and claim and
  registry agree except for the account whose claim it has written and whose entry it
  has not.
- `RenameTypeCorrect`.
- `CheckpointsAdvance`. `Copies`: a copy an instance holds under the generation the job
  still has is the job; generations only grow. `Pages`: a page lies behind the copy's
  cursor. An advance under the same generation therefore goes forward.
- `OneNameIsCarried`: `CanonicalNameEverywhere` for one requested name without cache
  refresh, for any documents, page size, instances and requests. `Carried` says that
  everything before a job's checkpoint shows its name (`PassedShow`) and that a page
  that was written shows it until the checkpoint moves (`PageShows`); authors' saves
  write the same name. Without the restriction the property is false: see "A name given back" below.

### PublishQueueProofs

What the storage holds of a job, or will or may hold, lies in memory, in storage, in what
hydration has read and in every snapshot of the chain of writes: its `Copies`. Two lemmas
describe a step once for all proofs: each action gives a job one of a few fates (`Fate`:
untouched, revised by the worker, dropped, restored, created, edited, put back), and moves
the chain in one of a few ways (`Chain`: a snapshot appended, the first one stored or
refused, the whole cut off). So a copy after a step was a copy before it, or is the new
entry. `Since(by, j)` is what is left
of a job's copies from the write on that `by` awaits: when that write is stored nothing
older can come back, and what was known of those copies is known of all.

- `PublishTypeCorrect`. `Typed` also bounds texts and images by the edits made.
- `PublishedContentExact` (`PublishedAsQueued`). `Basic`: who awaits which write, and each
  at most one; a job nobody enqueued has left no trace; what there is before the queue is
  restored; a job closed as published was published. `Coherent`, for jobs no edit of
  which crossed a publication: what the server has received is what every copy says
  (`Faithful`), an edit is stored only while nothing has left (`Storing`), and when the
  worker sends a job every copy has its content (`Entering`).
- `QueuedMediaKept` (`QueuedMediaStands`). `Provided`: a copy to be taken up again has its
  images (`Supplied`), and what an edit or a discard deletes after its write is named by no
  copy written since (`Replacing`, `Discarding`).
- `AcceptedKept` (`AcceptedSurvives`). `Accepting`, unless the queue was written before it
  was read or the job is `Excused`: an accepted job stands in storage, in every snapshot, in
  memory once the queue is restored and in what an editor would put back (`Standing`); a
  submission that awaits its write is in every snapshot since (`Awaited`).

All four hold for any number of jobs, accounts, edits, retries and mishaps; the run has one
job. The module assumes that there is a job, since its idle worker names one.

### Only model-checked

Every safety invariant and action property of the runs is a theorem, and so is the one
refinement; `CanonicalNameEverywhere` for one requested name. The liveness properties
`DeletedCommentsVanish`, `EveryActivitySettles`, `ReadyIsDelivered`, `RenameSettles`,
`EveryJobEnds`, `MarkedThreadVanishes`, `JobsSettle` and `LeftoversSwept` stay with TLC: fairness and ENABLED are out of the provers' reach
here, as is induction over data. No module uses RECURSIVE operators.

## What the models show of the code

Where the code does not do what its tests say or mean:

- *Tickets are thrown away* (`notificationPushService.js:483`). A chunk's rounds collect
  tickets in a local array. If the last round meets a transport error the array is lost and
  the dispatch is retried for every device: a device whose ticket was "ok" is sent the same
  version again, with no crash and no lost answer. `SentTwiceOnlyInDoubt` counts this
  among the doubts; the tests at `notificationPushService.test.js:501` and `:1020` say
  that what was taken is not sent again.
- *A push is swallowed* (`adminService.js:489`). `content_held` and `content_restored` rows
  have no generation and are staged without reading the tombstone. Hold, dismiss,
  restore, hold: the new row has version 1 again, its dispatch id is that of the first,
  whose dispatch is finished, and the push is swallowed. With
  `RenewsGeneration = FALSE`, `FreshActivityFreshDispatch` fails.
- *A name given back* (`destinationRenameService.js:227`). Rename to A, to B while A's job is
  past the recommendations, back to A: A's job goes on from where it stood, and a
  recommendation that took B in between keeps it while the job says complete. With two
  names and three requests, `CanonicalNameEverywhere` fails.

The models also reach the following. No text of the repository says what should
happen, so no property is stated, and the passing properties are formulated so that
they are not hidden:

- *A lapsed lease sends twice.* An instance slower than its lease (or dead after the
  send) leaves a dispatch that is claimed again. `SentTwiceOnlyInDoubt` says that this
  and lost answers are the only ways.
- *A repeated deletion delivers the same notice version again*
  (`adminService.js:327-344`). The recovery purges the delivered row and signals the
  version again; the owner sees it as new.
- *A late hold event withholds the media of restored content*
  (`moderationService.js:224`). The handler checks, a moderator restores, the handler
  writes. The case and the content agree again only when somebody repeats the call,
  hence `disturbed` in `MediaFollowsStatus`.
- *Two administrators demote each other* (`adminService.js:770`). Both count two entries
  before either is removed, and none is left. For one call at a time the guard is never
  the reason of a refusal, since the caller is listed and may not name themselves; the
  deletion of the last administrator's account has no such guard.
- *A registry entry may outlive its account.* A grant that overlaps an account deletion
  writes the registry after the entry was removed; the count then includes an
  account that cannot sign in. `RosterAgrees` excludes this by `disturbed`.
- *A renamed page is written after its check* (`destinationRenameService.js:299`). An
  instance of the superseded name that checked in time overwrites what the newer job has
  carried; it then fails to advance, and the newer job may be complete already. With
  two names asked for, the property fails on this even without a name given back.
- *A just-queued job is superseded* (`destinationRenameService.js:291`). The update looks
  at nothing: name A changes to B, an instance of A decides to supersede, A is asked for
  again and queued, and the update stops that job.
- *A refresh loses the administrator's name* (`destinationCacheService.js:84`). It reads
  the destination before the provider's answer and writes back the whole cache after it.
  A rename in between is undone, name and source, and its job is superseded.
- *Held content restored during its deletion* (`deletionService.js:83`). The status is
  moved to "deleting" only if it was "active", so held content stays restorable; likes
  and comments taken then outlive the content as inbox rows. `ErasedContentLeavesNothing`
  speaks of content whose status says "deleting".
- *A deletion of held content that dies after the media step* leaves a document that can
  be restored without its media.
- *A dispatch that dies after it was marked* (`notificationPushService.js:640`) never writes
  its receipt jobs: the token the provider has retired stays enabled until another
  push finds it.
- *A late receipt disables a device registered again* by the same account
  (`notificationPushService.js:665`): the owner is compared, the registration is not.
- *An account deletion counts hidden comments* (`deletionService.js:262`): it stores the number
  of all comments of the post where everybody else counts the published ones, hence
  `doubt` in `CountersSettle`.
- *A thread's page overwrites a hold by name* (`adminService.js:287`). The page was read
  while the reply was shown; the moderator's own hold is then marked as the thread's, and
  a restoration of the root shows the reply. `OwnHoldStands` excludes it by `crossed`.
- *A counter recounted before a comment and stored after it* (`adminService.js:531`) stays
  off until the next recount.
- *A held route edited during its deletion* (`deletionService.js:83`) leaves an active
  revision under no route, and the sweep looks only for those that are not active.
- *An edit under a publication is lost* (`RecommendationPublishContext.js:370`). The editor of
  a failed job stays open while the banner retries it. Submitted while the job is being
  saved, the edit is marked as published with it, or removed by the timer of the old
  version; submitted after a save whose answer was lost, it is answered by the replay of
  the old version. Hence `crossed`.
- *A put-back job hangs* (`RecommendationPublishContext.js:376`). An edit that crosses the
  upload of its job and cannot be stored puts the job back as "uploading" after the worker
  has left it: nothing takes it up before the next start of the app.
- *A put-back is not stored*: it changes the queue in memory only, so a later snapshot
  that was taken before it, or a restart, may bring the refused job back, without its
  images. Hence `rejected` in `QueuedMediaStands`.
- *The account changes during an upload* (`RecommendationPublishContext.js:567`). The save
  goes out under whoever is signed in then, and the content is theirs. Hence `swapped`.
- *The queue is written before it was read* (`RecommendationPublishContext.js:262`). A
  publication that is enqueued before the hydration ends replaces the stored queue and is
  itself replaced in memory; a storage that fails to be read counts as empty. Hence `reset`.
- *A page takes moved content back* (`destinationRenameService.js:131`). A page carries the
  destination its documents had when they were read, so content its author moved
  elsewhere meanwhile is back at the old destination.

## Abstractions and omissions

- Texts, avatars, routes of a notification and everything a screen shows are left out;
  a message is its kind and target.
- A run's users, contents and versions are few; bounds are constants whose comment says
  "bound". They sit in guards: an activity above its bound does not happen.
- `NotificationInbox`: the detaching of all likes of a suspended account is left out, as
  is the erasure of an account's own inbox. Content ids are never used again.
- `PushDispatch`: one recipient, one row, one chunk (a recipient has at most five
  devices, so the messages of a row fit one). Back-offs and leases end at any time. What
  receipts find later is `PushReceipts`'.
- `PushReceipts`: one notification. The limit of registrations per window, which only
  refuses more, and the chunks in which receipts are fetched are left out; the second check
  of a receipt's id in its settlement is implied by the ticket naming the document.
- `CommentThreads`: one post. Texts, and so edits, are left out; of a moderation's other
  effects (the owner's alert, the case) see `NotificationInbox` and `ContentModeration`.
- `RouteRevisions`: one route, of one publication request. Place resolution, text safety's
  verdict (any), statistics and cover images are left out. That a call or a reader ends
  before a revision it uses expires is a relation of time limits (minutes against two
  hours and a week) and is assumed in `Expires`.
- `PublishQueue`: one image per job; its upload is one step that succeeds or fails. Left out:
  drafts, jobs without images, the progress of an upload, the second save after an expired
  place token, the upgrade of jobs of an older taxonomy, delays before a retry (they may
  be over at any time), and content deleted between two saves of one request.
- `AdminRoster`: the pages of the purge and the counter are `NotificationInbox`'s. Audit
  entries are left out.
- `ContentModeration`: one content. The case is kept as the version of its held-media
  projection; edits of the media list, the suspension of the owner (a precondition of
  restore) and the removal of the outbox with its owner's account, which here is an
  owner who leaves, are left out. The two reads of `resolveCurrentModerationState` are
  one step.
- `DestinationRename`: one destination. Events are not queued, since a handler reads the
  job again and does nothing unless it is queued. The stops of a route follow their
  route. A page fits one batch; batches of more than 400 writes and the deactivation of a
  destination without content are left out. Provider names are one constant.
- Firestore transactions are taken as serialisable; eventual consistency of queries is
  covered by the time between a query and the commit that follows it.

## Plan

Done, in the order of importance: 1. `NotificationInbox`; 2. `PushDispatch`;
3. `ContentModeration`; 4. `AdminRoster`; 5. `DestinationRename`; 6. `PushReceipts` with the
device registry; 7. `CommentThreads`; 8. `RouteRevisions` under `RouteRegister`;
9. `PublishQueue`; the theorems above.

Next modules:

10. `AccountDeletion` with suspension: stages, resumption, other users' activity;
    property: nothing is left, and a deletion that began ends.
11. `FavoriteProjection`: projection from unordered event snapshots.
12. `RequestCoordinator`: the client's de-duplication of requests.
13. `RateLimiter`: fixed windows with the time read first.

Abstract specifications worth stating: the outcome of a dispatch as seen from outside
(`unsent → sent | skipped | failed`, with `PushDispatch` as its implementation under a
refinement mapping from `dispatch[k].status`); an unread badge that simply is a
cardinality, implemented by `NotificationInbox`; an owner notice that is given at least
once, implemented by `ContentModeration`.

Theorems worth proving next: the refinements above, once they are stated; and of
`PublishQueue` that a job is published at most once under one request, which is now a
consequence of how `posted` is written.

Runs are limited to what answers a question of its own: when a module of the plan is
added, small runs of the same module are merged before a new one is.
