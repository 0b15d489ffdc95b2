--------------------------- MODULE DestinationRename ---------------------------
(***************************************************************************)
(* An administrator renames a destination and a job carries the canonical  *)
(* name to every recommendation, route and trip that shows it, one page at *)
(* a time (functions/destinationRenameService.js), while authors save      *)
(* content, the cache refresh rewrites the destination                     *)
(* (destinationCacheService.js) and a page's function instance may die.    *)
(*                                                                         *)
(* Every write of a queued job fires a trigger that is delivered at least  *)
(* once and reads the job again, so an instance may Take a job as long as  *)
(* it is queued, more than once; a delivery that finds it otherwise does   *)
(* nothing.  One job is kept per requested name.                           *)
(***************************************************************************)
EXTENDS Integers, FiniteSets

CONSTANTS
    Names,              \* names the destination can have
    FirstName,          \* the provider's name, shown at the start
    Requested,          \* names administrators ask for
    Elsewhere, Gone,    \* content of another destination; deleted content
    Recommendations, Routes, Trips,     \* document ids, numbered in order
    PageSize,           \* documents of a page
    Workers,            \* function instances
    MaxRequests,        \* bound: rename requests
    MayRefresh          \* bound: whether the cache refresh runs

Contents == Recommendations \cup Routes \cup Trips

ASSUME RenameAssumptions ==
    /\ FirstName \in Names /\ Requested \subseteq Names
    /\ Elsewhere \notin Names /\ Gone \notin Names /\ Elsewhere # Gone
    /\ Contents \subseteq Nat \ {0} /\ IsFiniteSet(Contents)
    /\ Recommendations \cap Routes = {} /\ Recommendations \cap Trips = {}
    /\ Routes \cap Trips = {}
    /\ PageSize \in Nat \ {0} /\ MaxRequests \in Nat /\ MayRefresh \in BOOLEAN

VARIABLES
    city,       \* the destination's name and where it came from
    jobs,       \* [Names -> rename job of that name]
    content,    \* [Contents -> name it shows, Elsewhere or Gone]
    workers,    \* [Workers -> what an instance is doing]
    refresh,    \* the destination as the running cache refresh read it
    requests    \* rename requests made

vars == <<city, jobs, content, workers, refresh, requests>>

Stages == 1..4      \* recommendations, routes, trips, complete
City == [name : Names, source : {"google", "admin"}]
Job == [status : {"none", "queued", "superseded", "failed", "complete"},
        stage : Stages, cursor : Nat, generation : Nat]
NoJob == [status |-> "none", stage |-> 1, cursor |-> 0, generation |-> 0]
Worker == [at : {"idle", "check", "supersede", "query", "write", "advance", "fail"},
           name : Names, job : Job, page : SUBSET Contents]
Idle == [at |-> "idle", name |-> FirstName, job |-> NoJob, page |-> {}]

TypeOK ==
    /\ city \in City
    /\ jobs \in [Names -> Job]
    /\ content \in [Contents -> Names \cup {Elsewhere, Gone}]
    /\ workers \in [Workers -> Worker]
    /\ refresh \subseteq City
    /\ requests \in 0..MaxRequests
    /\ \A n \in Names : jobs[n].status = "queued" => jobs[n].stage # 4

Init ==
    /\ city = [name |-> FirstName, source |-> "google"]
    /\ jobs = [n \in Names |-> NoJob]
    /\ content \in [Contents -> {FirstName, Elsewhere}]
    /\ workers = [w \in Workers |-> Idle]
    /\ refresh = {}
    /\ requests = 0
-----------------------------------------------------------------------------
(* startDestinationRename: the name is set at once and the job is queued   *)
(* unless it is complete and the name has not changed since.  Only a job   *)
(* that went through every stage starts again from the first page; any     *)
(* other goes on where it stopped.                                         *)
Restarted(job) ==
    IF job.status = "complete" THEN [job EXCEPT !.stage = 1, !.cursor = 0]
    ELSE [job EXCEPT !.stage = IF @ = 4 THEN 1 ELSE @]

Queued(job) ==
    [Restarted(job) EXCEPT !.status = "queued", !.generation = @ + 1]

Rename(n) ==
    /\ requests < MaxRequests /\ n \in Requested
    /\ requests' = requests + 1
    /\ city' = [name |-> n, source |-> "admin"]
    /\ jobs' = IF jobs[n].status = "complete" /\ city.name = n THEN jobs
               ELSE [jobs EXCEPT ![n] = Queued(@)]
    /\ UNCHANGED <<content, workers, refresh>>

(* Saving content reads the destination in the same transaction, so it     *)
(* takes the name of that moment (variant: of some earlier moment).        *)
NameReadEarlier == Names
NameAtSave == {city.name}

SaveContent(c) ==
    /\ content[c] # Gone
    /\ \E n \in NameAtSave : content' = [content EXCEPT ![c] = n]
    /\ UNCHANGED <<city, jobs, workers, refresh, requests>>

(* The author moves the content to another destination, or deletes it.     *)
LeaveCity(c) ==
    /\ content[c] \in Names
    /\ \E to \in {Elsewhere, Gone} : content' = [content EXCEPT ![c] = to]
    /\ UNCHANGED <<city, jobs, workers, refresh, requests>>

(* refreshDestinationCaches reads the destination, asks the provider, and  *)
(* writes the whole cache back: an administrator's name is kept if it was  *)
(* there when the destination was read, and nothing is written when the    *)
(* provider fails.                                                         *)
StartRefresh ==
    /\ MayRefresh /\ refresh = {}
    /\ refresh' = {city}
    /\ UNCHANGED <<city, jobs, content, workers, requests>>

Refreshed(read) ==
    IF read.source = "admin" THEN read ELSE [name |-> FirstName, source |-> "google"]

FinishRefresh ==
    /\ \E read \in refresh : city' \in {Refreshed(read), city}
    /\ refresh' = {}
    /\ UNCHANGED <<jobs, content, workers, requests>>
-----------------------------------------------------------------------------
(* processDestinationRenameJob, one instance.                              *)
Goto(w, at) == workers' = [workers EXCEPT ![w].at = at]

Take(w, n) ==
    /\ workers[w].at = "idle" /\ jobs[n].status = "queued"
    /\ workers' = [workers EXCEPT ![w] =
                    [at |-> "check", name |-> n, job |-> jobs[n], page |-> {}]]
    /\ UNCHANGED <<city, jobs, content, refresh, requests>>

StillCanonical(n) == city = [name |-> n, source |-> "admin"]

(* A job whose name is no longer canonical is superseded, by an update of  *)
(* its own that looks at nothing (variant: left as it is).                 *)
LeftQueued(n) == IF StillCanonical(n) THEN "query" ELSE "idle"
AfterCheck(n) == IF StillCanonical(n) THEN "query" ELSE "supersede"

CheckCity(w) ==
    /\ workers[w].at = "check"
    /\ Goto(w, AfterCheck(workers[w].name))
    /\ UNCHANGED <<city, jobs, content, refresh, requests>>

Supersede(w) ==
    /\ workers[w].at = "supersede"
    /\ jobs' = [jobs EXCEPT ![workers[w].name].status = "superseded"]
    /\ workers' = [workers EXCEPT ![w] = Idle]
    /\ UNCHANGED <<city, content, refresh, requests>>

(* pagedQuery: the documents of this destination after the cursor, ordered *)
(* by id and limited to a page.                                            *)
OfStage(stage) == CASE stage = 1 -> Recommendations
                    [] stage = 2 -> Routes
                    [] stage = 3 -> Trips
                    [] OTHER -> {}
Remaining(job) == {c \in OfStage(job.stage) : c > job.cursor /\ content[c] \in Names}
IsPage(page, rest) ==
    /\ Cardinality(page) <= PageSize
    /\ \A c \in page, d \in rest : d < c => d \in page
    /\ Cardinality(page) < PageSize => page = rest

ReadPage(w) ==
    /\ workers[w].at = "query"
    /\ \E page \in SUBSET Remaining(workers[w].job) :
        /\ IsPage(page, Remaining(workers[w].job))
        /\ workers' = [workers EXCEPT ![w].page = page, ![w].at = "write"]
    /\ UNCHANGED <<city, jobs, content, refresh, requests>>

(* commitUpdates writes the destination as the page read it, under the     *)
(* job's name: content that has moved since is taken back, and a document  *)
(* that is gone fails the batch.                                           *)
WritePage(w) ==
    /\ workers[w].at = "write"
    /\ \A c \in workers[w].page : content[c] # Gone
    /\ content' = [c \in Contents |->
                    IF c \in workers[w].page THEN workers[w].name ELSE content[c]]
    /\ Goto(w, "advance")
    /\ UNCHANGED <<city, jobs, refresh, requests>>

PageFails(w) ==
    /\ workers[w].at \in {"query", "write", "advance"}
    /\ Goto(w, "fail")
    /\ UNCHANGED <<city, jobs, content, refresh, requests>>

(* advanceJob: the checkpoint moves only if the job is as it was read      *)
(* (variant: whenever it is still queued), and the job is complete after   *)
(* the last stage (variant: judged by the stage that was read).            *)
StillQueued(w) == jobs[workers[w].name].status = "queued"
SameJob(w) ==
    /\ jobs[workers[w].name].status = "queued"
    /\ jobs[workers[w].name].generation = workers[w].job.generation

LastPage(page) == Cardinality(page) < PageSize

NextCursors(page) ==
    IF LastPage(page) THEN {0} ELSE {c \in page : \A d \in page : d <= c}

NextStage(job, page) == IF LastPage(page) THEN job.stage + 1 ELSE job.stage

Advanced(job, page, next) ==
    [status |-> IF NextStage(job, page) = 4 THEN "complete" ELSE "queued",
     stage |-> NextStage(job, page), cursor |-> next, generation |-> job.generation + 1]

Advance(w) ==
    /\ workers[w].at = "advance"
    /\ \E next \in NextCursors(workers[w].page) :
        jobs' = IF SameJob(w)
                THEN [jobs EXCEPT ![workers[w].name] =
                        Advanced(workers[w].job, workers[w].page, next)]
                ELSE jobs
    /\ workers' = [workers EXCEPT ![w] = Idle]
    /\ UNCHANGED <<city, content, refresh, requests>>

Fail(w) ==
    /\ workers[w].at = "fail"
    /\ jobs' = IF jobs[workers[w].name].generation = workers[w].job.generation
               THEN [jobs EXCEPT ![workers[w].name].status = "failed"]
               ELSE jobs
    /\ workers' = [workers EXCEPT ![w] = Idle]
    /\ UNCHANGED <<city, content, refresh, requests>>

Die(w) ==
    /\ workers[w].at # "idle"
    /\ workers' = [workers EXCEPT ![w] = Idle]
    /\ UNCHANGED <<city, jobs, content, refresh, requests>>

WorkerStep(w) ==
    \/ CheckCity(w) \/ Supersede(w)
    \/ ReadPage(w) \/ WritePage(w) \/ PageFails(w)
    \/ Advance(w) \/ Fail(w) \/ Die(w)

Next ==
    \/ \E n \in Names : Rename(n)
    \/ \E c \in Contents : SaveContent(c) \/ LeaveCity(c)
    \/ StartRefresh \/ FinishRefresh
    \/ \E w \in Workers, n \in Names : Take(w, n)
    \/ \E w \in Workers : WorkerStep(w)

Spec == Init /\ [][Next]_vars

(* The trigger is retried until its handler returns, so an execution that  *)
(* does not die comes in the end.                                          *)
FairSpec ==
    /\ Spec
    /\ \A w \in Workers :
        /\ \A n \in Requested : SF_vars(Take(w, n))
        /\ SF_vars(CheckCity(w)) /\ SF_vars(Supersede(w))
        /\ SF_vars(ReadPage(w)) /\ SF_vars(WritePage(w) \/ PageFails(w))
        /\ SF_vars(Advance(w)) /\ SF_vars(Fail(w))
-----------------------------------------------------------------------------
(* Once the job of the canonical name is complete, all content of the      *)
(* destination shows that name: what was there when the rename began, what *)
(* was saved during it and what a delivery wrote twice.                    *)
CanonicalNameEverywhere ==
    \A n \in Names : StillCanonical(n) /\ jobs[n].status = "complete"
                        => \A c \in Contents : content[c] \in Names => content[c] = n

(* A checkpoint moves forward only: an instance that read the job before   *)
(* others advanced it never sends it back over pages already done.  Only a *)
(* job that went through every stage starts again.                         *)
Before(this, that) ==
    this.stage < that.stage \/ (this.stage = that.stage /\ this.cursor < that.cursor)

CheckpointNeverRewinds ==
    [][\A n \in Names : Before(jobs'[n], jobs[n]) => jobs[n].stage = 4]_vars

(* A job is not left queued: it completes, fails or is superseded, however *)
(* often the instances that work on it die.                                *)
RenameSettles ==
    \A n \in Names : jobs[n].status = "queued" ~> jobs[n].status # "queued"
================================================================================
