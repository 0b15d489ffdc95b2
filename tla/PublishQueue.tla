----------------------------- MODULE PublishQueue -----------------------------
(***************************************************************************)
(* The client's queue of publications (client/src/features/community/      *)
(* publishing/RecommendationPublishContext.js and its storage): a job is   *)
(* accepted when the queue has been stored with it, its images are         *)
(* uploaded, the content is saved by a callable, and every change of the   *)
(* queue is stored again, while the user retries, edits and discards jobs, *)
(* signs out and in, and the system kills and restarts the app.            *)
(*                                                                         *)
(* The queue in memory (jobsRef) and the queue in storage are kept apart;  *)
(* between them is the chain of promises that writes one snapshot after    *)
(* the other.  Code between two awaits runs to completion: what follows an *)
(* await of the worker is one action, before which nobody else moves.      *)
(* The server saves one content per account and request id                 *)
(* (functions/recommendationService.js, routeService.js); a job keeps its  *)
(* request id, so that the job's id stands for both.                       *)
(***************************************************************************)
EXTENDS Naturals, Sequences

CONSTANTS
    Jobs, Users, NoOne,
    Owner,          \* [Jobs -> who enqueues it]
    MaxRetries,     \* MAX_AUTOMATIC_RETRIES
    MaxEdits,       \* bound: edits and manual retries
    MaxMishaps      \* bound: kills, changes of account, failures of the storage

ASSUME QueueAssumptions ==
    /\ Jobs # {} /\ Owner \in [Jobs -> Users] /\ NoOne \notin Users
    /\ MaxRetries \in Nat /\ MaxEdits \in Nat /\ MaxMishaps \in Nat

VARIABLES
    jobs,       \* the queue in memory
    stored,     \* the queue in storage
    files,      \* images kept for the queue
    writes,     \* snapshots to be stored, first to last
    phase,      \* "loading", "read", "up": hydration of the queue
    loaded,     \* what hydration has read
    worker,     \* processJob
    form,       \* [Jobs -> editor of the job, with its submission]
    timers,     \* jobs that were published and are about to leave the queue
    user,       \* who is signed in
    requests,   \* saves under way to the server
    posted,     \* [Users \X Jobs -> what the server has published]
    used,       \* for the bounds
    ghost       \* what the properties remember, see below

vars == <<jobs, stored, files, writes, phase, loaded, worker, form, timers, user,
          requests, posted, used, ghost>>

(* version counts the texts, media names the images: an edit may keep      *)
(* them.  prepared: uploaded.  retryable: the error allows another try.    *)
Versions == 0..(MaxEdits + 1)
Entry == [status : {"none", "queued", "uploading", "saving", "failed", "success"},
          version : Versions, media : Versions, prepared : BOOLEAN,
          attempts : Nat, retryable : BOOLEAN]
NoEntry == [status |-> "none", version |-> 0, media |-> 0, prepared |-> FALSE,
            attempts |-> 0, retryable |-> FALSE]
Queued(v, m, p) == [NoEntry EXCEPT !.status = "queued", !.version = v, !.media = m, !.prepared = p]
Queue == [Jobs -> Entry]
Empty == [j \in Jobs |-> NoEntry]
Here(e) == e.status # "none"

(* Whose await a write ends, and the image to delete after it.             *)
Write == [jobs : Queue, by : {"nobody", "worker", "form", "discard"}, job : Jobs, media : Versions]
(* media: the image being uploaded, or to be published; by: who saves it.  *)
Waits == {"started", "prepared", "entering", "closing", "recording"}
Blocks == {"ready", "send", "close", "broken"}
AnyJob == CHOOSE j \in Jobs : TRUE
Idle == [at |-> "idle", job |-> AnyJob, media |-> 0, by |-> NoOne]
Worker == [at : {"idle", "upload", "saving"} \cup Waits \cup Blocks, job : Jobs, media : Versions,
           by : Users \cup {NoOne}]
(* entry: the job as reviewed, then as submitted; source: as found then.   *)
Form == [at : {"closed", "open", "media", "storing"}, entry : Entry, source : Entry]
Closed == [at |-> "closed", entry |-> NoEntry, source |-> NoEntry]
Post == [version : Versions, media : Versions]
NoPost == [version |-> 0, media |-> 0]
Request == [user : Users, job : Jobs, post : Post]

(* accepted: told to be in the queue.  rejected: told not to be.           *)
(* crossed: an edit met a job that was being published, or whose content   *)
(* an earlier save may have published.  swapped: saved by another account. *)
(* reset: the queue was not read before it was written.                    *)
Ghost == [born : SUBSET Jobs, accepted : SUBSET Jobs, rejected : SUBSET Jobs,
          discarded : SUBSET Jobs, crossed : SUBSET Jobs, swapped : SUBSET Jobs, reset : BOOLEAN]

TypeOK ==
    /\ jobs \in Queue /\ stored \in Queue /\ loaded \in Queue
    /\ files \subseteq Jobs \X Versions
    /\ writes \in Seq(Write)
    /\ phase \in {"loading", "read", "up"}
    /\ worker \in Worker
    /\ form \in [Jobs -> Form]
    /\ timers \subseteq Jobs
    /\ user \in Users \cup {NoOne}
    /\ requests \subseteq Request
    /\ posted \in [Users \X Jobs -> Post]
    /\ used \in [edits : 0..MaxEdits, mishaps : 0..MaxMishaps]
    /\ ghost \in Ghost

Init ==
    /\ jobs = Empty /\ stored = Empty /\ loaded = Empty
    /\ files = {} /\ writes = <<>> /\ phase = "loading"
    /\ worker = Idle
    /\ form = [j \in Jobs |-> Closed]
    /\ timers = {} /\ requests = {}
    /\ user \in Users
    /\ posted = [p \in Users \X Jobs |-> NoPost]
    /\ used = [edits |-> 0, mishaps |-> 0]
    /\ ghost = [born |-> {}, accepted |-> {}, rejected |-> {}, discarded |-> {},
                crossed |-> {}, swapped |-> {}, reset |-> FALSE]
-----------------------------------------------------------------------------
(* commitJobs: memory at once, storage in its turn.                        *)
Commit(next, by, j, m) ==
    /\ jobs' = next
    /\ writes' = Append(writes, [jobs |-> next, by |-> by, job |-> j, media |-> m])
Update(j, e) == IF Here(jobs[j]) THEN [jobs EXCEPT ![j] = e] ELSE jobs
Goto(at) == worker' = [worker EXCEPT !.at = at]
Mishap == used.mishaps < MaxMishaps /\ used' = [used EXCEPT !.mishaps = @ + 1]
Edits == used.edits < MaxEdits /\ used' = [used EXCEPT !.edits = @ + 1]
Leave(at) == worker' = [worker EXCEPT !.at = at, !.media = 0, !.by = NoOne]
Rest == worker' = Idle
-----------------------------------------------------------------------------
(* Hydration: read the storage, and later replace the queue in memory by   *)
(* what was read.  A read that fails finds an empty queue.                 *)
Load ==
    /\ phase = "loading" /\ phase' = "read"
    /\ \/ loaded' = stored /\ UNCHANGED <<used, ghost>>
       \/ /\ Mishap
          /\ loaded' = Empty
          /\ ghost' = [ghost EXCEPT !.reset = TRUE]
    /\ UNCHANGED <<jobs, stored, files, writes, worker, form, timers, user, requests, posted>>

(* Published jobs are dropped, with their images; what was being worked on *)
(* is queued (upgradeRestoredPublishJob) (variants: such a job is dropped; *)
(* it is left as it is).                                                   *)
QueuedOrFailed(e) == e.status \in {"queued", "failed"}
Restorable(e) == e.status \notin {"none", "success"}
AsStored(e) == e
Requeued(e) == IF e.status \in {"uploading", "saving"} THEN [e EXCEPT !.status = "queued"] ELSE e
Restored == [j \in Jobs |-> IF Restorable(loaded[j]) THEN Requeued(loaded[j]) ELSE NoEntry]

Hydrate ==
    /\ phase = "read" /\ phase' = "up"
    /\ loaded' = Empty
    /\ files' = files \ {<<j, loaded[j].media>> : j \in {i \in Jobs : loaded[i].status = "success"}}
    /\ IF Restored # loaded THEN Commit(Restored, "nobody", AnyJob, 0)
       ELSE jobs' = Restored /\ UNCHANGED writes
    /\ UNCHANGED <<stored, worker, form, timers, user, requests, posted, used, ghost>>
-----------------------------------------------------------------------------
(* enqueueCreate of a new content.  Nothing waits for the hydration.       *)
EnqueueNew(j) ==
    /\ j \notin ghost.born /\ user = Owner[j]
    /\ files' = files \cup {<<j, 1>>}
    /\ Commit([jobs EXCEPT ![j] = Queued(1, 1, FALSE)], "form", j, 0)
    /\ form' = [form EXCEPT ![j] = [at |-> "storing", entry |-> Queued(1, 1, FALSE), source |-> NoEntry]]
    /\ ghost' = [ghost EXCEPT !.born = @ \cup {j}, !.reset = @ \/ phase # "up"]
    /\ UNCHANGED <<stored, phase, loaded, worker, timers, user, requests, posted, used>>

(* The banner offers retry, edit and discard of a failed job while none of *)
(* the user's is being published.  It stays on screen over the editor.     *)
Offered(j) ==
    /\ user = Owner[j] /\ jobs[j].status = "failed"
    /\ \A i \in Jobs : Owner[i] = user => jobs[i].status \notin {"uploading", "saving"}

(* loadJobForReview.                                                       *)
OpenReview(j) ==
    /\ Offered(j) /\ form[j] = Closed
    /\ form' = [form EXCEPT ![j] = [Closed EXCEPT !.at = "open", !.entry = jobs[j]]]
    /\ UNCHANGED <<jobs, stored, files, writes, phase, loaded, worker, timers, user, requests,
                   posted, used, ghost>>

(* Nobody is publishing the job, and no save of it has left.               *)
AtRest(j) ==
    /\ jobs[j].status = "failed" /\ (worker.at \in {"idle", "recording"} \/ worker.job # j)
    /\ \A r \in requests : r.job # j
    /\ \A u \in Users : posted[<<u, j>>] = NoPost
Crossing(j) == ghost' = [ghost EXCEPT !.crossed = IF AtRest(j) THEN @ ELSE @ \cup {j}]

(* enqueueCreate of an edited job, whatever has become of it since it was  *)
(* opened: the images are kept first, then the job is put in its place.    *)
Submit(j) == \E sameImages \in BOOLEAN :
    LET v == jobs[j].version + 1
        was == form[j].entry
        next == IF sameImages THEN Queued(v, was.media, was.prepared) ELSE Queued(v, v, FALSE) IN
    /\ form[j].at = "open" /\ user = Owner[j] /\ Here(jobs[j]) /\ Edits
    /\ files' = IF sameImages THEN files ELSE files \cup {<<j, v>>}
    /\ form' = [form EXCEPT ![j] = [at |-> "media", entry |-> next, source |-> jobs[j]]]
    /\ Crossing(j)
    /\ UNCHANGED <<jobs, stored, writes, phase, loaded, worker, timers, user, requests, posted>>

Place(j) ==
    /\ form[j].at = "media"
    /\ Commit(Update(j, form[j].entry), "form", j, 0)
    /\ form' = [form EXCEPT ![j].at = "storing"]
    /\ Crossing(j)
    /\ UNCHANGED <<stored, files, phase, loaded, worker, timers, user, requests, posted, used>>

Retry(j) ==
    /\ Offered(j) /\ jobs[j].retryable /\ Edits
    /\ Commit([jobs EXCEPT ![j] = [@ EXCEPT !.status = "queued", !.attempts = 0, !.retryable = FALSE]],
              "nobody", j, 0)
    /\ UNCHANGED <<stored, files, phase, loaded, worker, form, timers, user, requests, posted, ghost>>

Discard(j) ==
    /\ Offered(j)
    /\ Commit([jobs EXCEPT ![j] = NoEntry], "discard", j, jobs[j].media)
    /\ ghost' = [ghost EXCEPT !.discarded = @ \cup {j}]
    /\ UNCHANGED <<stored, files, phase, loaded, worker, form, timers, user, requests, posted, used>>
-----------------------------------------------------------------------------
(* The next snapshot is stored, or is not, and whoever waited for it goes  *)
(* on.                                                                     *)
Stores(ok) ==
    /\ writes # <<>>
    /\ writes' = Tail(writes)
    /\ IF ok THEN stored' = Head(writes).jobs /\ UNCHANGED used
       ELSE Mishap /\ UNCHANGED stored

Resumed == CASE worker.at = "started" -> "upload" [] worker.at = "prepared" -> "ready"
             [] worker.at = "entering" -> "send" [] worker.at = "closing" -> "close"
             [] OTHER -> "idle"
StoreForWorker == \E ok \in BOOLEAN :
    /\ Stores(ok) /\ Head(writes).by = "worker"
    /\ IF worker.at = "recording" THEN Rest ELSE Goto(IF ok THEN Resumed ELSE "broken")
    /\ UNCHANGED <<jobs, files, phase, loaded, form, timers, user, requests, posted, ghost>>

(* The editor: images that the edit has dropped are deleted, or, if the    *)
(* queue could not be stored, the job is put back and the new ones are     *)
(* (variant: images that were kept are deleted too).                       *)
AllOld(f) == {f.source.media}
Replaced(f) == {f.source.media} \ {f.entry.media}
New(f) == {f.entry.media} \ {f.source.media}
Of(j, media) == {<<j, m>> : m \in media}
StoreForForm == \E ok \in BOOLEAN :
    LET j == Head(writes).job
        f == form[j] IN
    /\ Stores(ok) /\ Head(writes).by = "form"
    /\ files' = files \ Of(j, IF ok THEN Replaced(f) ELSE New(f))
    /\ jobs' = IF ok THEN jobs ELSE Update(j, f.source)
    /\ form' = [form EXCEPT ![j] = Closed]
    /\ ghost' = IF ok THEN [ghost EXCEPT !.accepted = @ \cup {j}]
                ELSE [ghost EXCEPT !.rejected = @ \cup {j}]
    /\ UNCHANGED <<phase, loaded, worker, timers, user, requests, posted>>

StoreForOthers == \E ok \in BOOLEAN :
    LET w == Head(writes) IN
    /\ Stores(ok) /\ w.by \in {"nobody", "discard"}
    /\ files' = IF ok /\ w.by = "discard" THEN files \ {<<w.job, w.media>>} ELSE files
    /\ UNCHANGED <<jobs, phase, loaded, worker, form, timers, user, requests, posted, ghost>>
-----------------------------------------------------------------------------
(* processJob, one job at a time.                                          *)
Start(j) ==
    /\ worker = Idle /\ phase = "up" /\ user = Owner[j] /\ jobs[j].status = "queued"
    /\ Commit([jobs EXCEPT ![j].status = "uploading"], "worker", j, 0)
    /\ worker' = [Idle EXCEPT !.at = "started", !.job = j]
    /\ UNCHANGED <<stored, files, phase, loaded, form, timers, user, requests, posted, used, ghost>>

(* The catch block, and publishRetryPolicy.                                *)
Errors == {"transient", "manual", "final"}
Again(error, n) == error = "transient" /\ n <= MaxRetries
Fail(error) ==
    LET j == worker.job
        n == jobs[j].attempts + 1 IN
    IF Here(jobs[j])
    THEN /\ Commit([jobs EXCEPT ![j] = [@ EXCEPT !.attempts = n,
                        !.status = IF Again(error, n) THEN "queued" ELSE "failed",
                        !.retryable = error # "final"]], "worker", j, 0)
         /\ Leave("recording")
    ELSE Rest /\ UNCHANGED <<jobs, writes>>

(* preparePendingMedia: images that were edited away meanwhile stay        *)
(* unprepared.                                                             *)
Pending == Here(jobs[worker.job]) /\ ~jobs[worker.job].prepared
UploadBegins ==
    /\ worker.at = "upload" /\ worker.media = 0
    /\ worker' = IF Pending THEN [worker EXCEPT !.media = jobs[worker.job].media]
                 ELSE [worker EXCEPT !.at = "ready"]
    /\ UNCHANGED <<jobs, stored, files, writes, phase, loaded, form, timers, user, requests, posted,
                   used, ghost>>
Uploaded ==
    LET j == worker.job IN
    /\ worker.at = "upload" /\ <<j, worker.media>> \in files
    /\ Commit(IF Here(jobs[j]) /\ jobs[j].media = worker.media
              THEN [jobs EXCEPT ![j].prepared = TRUE] ELSE jobs, "worker", j, 0)
    /\ Leave("prepared")
    /\ UNCHANGED <<stored, files, phase, loaded, form, timers, user, requests, posted, used, ghost>>
UploadFails == \E error \in Errors :
    /\ worker.at = "upload" /\ worker.media # 0
    /\ Fail(error)
    /\ UNCHANGED <<stored, files, phase, loaded, form, timers, user, requests, posted, used, ghost>>

(* The images are taken from the job as it is before the write, the rest   *)
(* from the job as it is after it.                                         *)
Ready ==
    LET j == worker.job IN
    /\ worker.at = "ready"
    /\ IF Here(jobs[j]) /\ jobs[j].prepared
       THEN /\ Commit([jobs EXCEPT ![j].status = "saving"], "worker", j, 0)
            /\ worker' = [worker EXCEPT !.at = "entering", !.media = jobs[j].media]
       ELSE Fail("final")
    /\ UNCHANGED <<stored, files, phase, loaded, form, timers, user, requests, posted, used, ghost>>

Send ==
    LET j == worker.job IN
    /\ worker.at = "send"
    /\ CASE ~Here(jobs[j]) -> Rest /\ UNCHANGED <<jobs, writes, requests, ghost>>
         [] Here(jobs[j]) /\ user = NoOne -> Fail("final") /\ UNCHANGED <<requests, ghost>>
         [] Here(jobs[j]) /\ user # NoOne ->
              /\ requests' = requests \cup {[user |-> user, job |-> j,
                     post |-> [version |-> jobs[j].version, media |-> worker.media]]}
              /\ ghost' = [ghost EXCEPT !.swapped = IF user = Owner[j] THEN @ ELSE @ \cup {j}]
              /\ worker' = [worker EXCEPT !.at = "saving", !.media = 0, !.by = user]
              /\ UNCHANGED <<jobs, writes>>
    /\ UNCHANGED <<stored, files, phase, loaded, form, timers, user, posted, used>>

(* The server publishes at the first save of a request and replays at the  *)
(* others, whether the client still waits or not.                          *)
Serve(r) ==
    /\ r \in requests
    /\ posted' = IF posted[<<r.user, r.job>>] = NoPost
                 THEN [posted EXCEPT ![<<r.user, r.job>>] = r.post] ELSE posted
    /\ requests' = requests \ {r}
    /\ UNCHANGED <<jobs, stored, files, writes, phase, loaded, worker, form, timers, user, used, ghost>>

(* An answer comes after a save was served (variant: a save that was not   *)
(* answered in time is taken for done).                                    *)
Unanswered(j) == TRUE
Served(j) == posted[<<worker.by, j>>] # NoPost
Answered ==
    LET j == worker.job IN
    /\ worker.at = "saving" /\ Served(j)
    /\ Commit(Update(j, [jobs[j] EXCEPT !.status = "success"]), "worker", j, 0)
    /\ Leave("closing")
    /\ UNCHANGED <<stored, files, phase, loaded, form, timers, user, requests, posted, used, ghost>>
SaveFails == \E error \in Errors :
    /\ worker.at = "saving"
    /\ requests' \in {requests, {r \in requests : r.job # worker.job}}
    /\ Fail(error)
    /\ UNCHANGED <<stored, files, phase, loaded, form, timers, user, posted, used, ghost>>

(* Published: the images are deleted, and the job is shown for a moment.   *)
Close ==
    LET j == worker.job IN
    /\ worker.at = "close"
    /\ files' = IF Here(jobs[j]) THEN files \ {<<j, jobs[j].media>>} ELSE files
    /\ timers' = IF Here(jobs[j]) THEN timers \cup {j} ELSE timers
    /\ Rest
    /\ UNCHANGED <<jobs, stored, writes, phase, loaded, form, user, requests, posted, used, ghost>>
Broken ==
    /\ worker.at = "broken"
    /\ Fail("final")
    /\ UNCHANGED <<stored, files, phase, loaded, form, timers, user, requests, posted, used, ghost>>

TimerFires(j) ==
    /\ j \in timers /\ timers' = timers \ {j}
    /\ Commit([jobs EXCEPT ![j] = NoEntry], "nobody", j, 0)
    /\ UNCHANGED <<stored, files, phase, loaded, worker, form, user, requests, posted, used, ghost>>
-----------------------------------------------------------------------------
SignIn == \E u \in Users \cup {NoOne} :
    /\ u # user /\ user' = u /\ Mishap
    /\ UNCHANGED <<jobs, stored, files, writes, phase, loaded, worker, form, timers, requests, posted,
                   ghost>>

(* The app is killed, or reloaded, and started again.                      *)
Kill ==
    /\ Mishap
    /\ jobs' = Empty /\ writes' = <<>> /\ phase' = "loading" /\ loaded' = Empty
    /\ worker' = Idle /\ form' = [j \in Jobs |-> Closed] /\ timers' = {}
    /\ UNCHANGED <<stored, files, user, requests, posted, ghost>>

WorkerBlock == UploadBegins \/ Ready \/ Send \/ Close \/ Broken
WorkerStep == Uploaded \/ UploadFails \/ Answered \/ SaveFails \/ \E j \in Jobs : Start(j)
StoreStep == StoreForWorker \/ StoreForForm \/ StoreForOthers
InBlock == worker.at \in Blocks \/ (worker.at = "upload" /\ worker.media = 0)

Next ==
    \/ WorkerBlock
    \/ /\ ~InBlock
       /\ \/ Load \/ Hydrate \/ WorkerStep \/ StoreStep \/ SignIn \/ Kill
          \/ \E r \in requests : Serve(r)
          \/ \E j \in Jobs : \/ EnqueueNew(j) \/ OpenReview(j) \/ Submit(j) \/ Place(j)
                             \/ Retry(j) \/ Discard(j) \/ TimerFires(j)

Spec == Init /\ [][Next]_vars

(* Storage answers, uploads and callables end in an answer or a timeout,   *)
(* and the effect starts the next job.  Nobody is bound to sign in.        *)
FairSpec ==
    /\ Spec
    /\ WF_vars(WorkerBlock \/ (~InBlock /\ WorkerStep))
    /\ WF_vars(~InBlock /\ StoreStep)
    /\ WF_vars(~InBlock /\ (Load \/ Hydrate))
-----------------------------------------------------------------------------
(* A publication that was accepted is in storage, to be taken up after a   *)
(* restart, until it is published or discarded: whatever is written late,  *)
(* put back, killed or retried (RecommendationPublishContext.js:229-398),  *)
(* except where an edit crossed a publication, another account saved it,   *)
(* or the queue was written before it was read.                            *)
Kept(e) == e.status \in {"queued", "uploading", "saving", "failed"}
AcceptedSurvives == ~ghost.reset =>
    \A j \in ghost.accepted \ (ghost.discarded \cup ghost.crossed \cup ghost.swapped) :
        Kept(stored[j]) \/ posted[<<Owner[j], j>>] # NoPost

(* A job shown as published has been published by its owner, once, with    *)
(* the text and the images it has in the queue.                            *)
PublishedAsQueued ==
    \A j \in Jobs \ (ghost.crossed \cup ghost.swapped) :
        jobs[j].status = "success" =>
            posted[<<Owner[j], j>>] = [version |-> jobs[j].version, media |-> jobs[j].media]

(* A job that would be taken up after a restart finds its images, unless   *)
(* its user was told that it, or its edit, could not be stored.            *)
QueuedMediaStands ==
    \A j \in Jobs \ (ghost.crossed \cup ghost.rejected) :
        Kept(stored[j]) /\ ~stored[j].prepared => <<j, stored[j].media>> \in files

(* While its owner is signed in a job does not stay in the queue for ever: *)
(* it is published, or failed and left to the user, killed app or not.     *)
(* (An edit that crosses the upload of its job, and cannot be stored, puts *)
(* the job back as "uploading", with nobody to upload it.)                 *)
Waiting(j) ==
    \/ jobs[j].status \in {"queued", "uploading", "saving"}
    \/ phase # "up" /\ stored[j].status \in {"queued", "uploading", "saving"}
JobsSettle == \A j \in Jobs :
    Waiting(j) ~> ~Waiting(j) \/ user # Owner[j] \/ j \in ghost.crossed
=============================================================================
