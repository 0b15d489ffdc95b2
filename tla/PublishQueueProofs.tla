--------------------------- MODULE PublishQueueProofs ---------------------------
(***************************************************************************)
(* Theorems about PublishQueue, for any jobs, users, retries, edits and    *)
(* mishaps.  What the storage holds of a job, or will hold, is in memory,  *)
(* in storage, in what hydration has read and in the snapshots that wait   *)
(* to be written: its copies.  The proofs follow them.  Each action gives  *)
(* a job one of a few fates and moves the chain of writes in one of a few  *)
(* ways, and from that each copy after a step was a copy before it or is   *)
(* the job's new entry.                                                    *)
(*                                                                         *)
(* Basic says who awaits which write, that an unborn job has left no       *)
(* trace, what can be there before the queue is restored, and who          *)
(* published.  On it stand Coherent, the content of the copies, and on     *)
(* both Provided, their images, and Accepting, that accepted jobs stay.    *)
(* Since(by, j) is the key to the writes that are awaited: when the write  *)
(* that ends an await is stored, the copies of its job that are left are   *)
(* those written since.                                                    *)
(***************************************************************************)
EXTENDS PublishQueue, SequenceTheorems, TLAPS

(* Types.  An entry's texts and images are numbered by edits: none is      *)
(* ahead of the edits made, and an entry that is there has images.         *)
Fitting(n) == {e \in Entry : e.version <= n /\ e.media <= n /\ (Here(e) => e.media >= 1)}
Queues(n) == [Jobs -> Fitting(n)]
Snapshots(n) == [jobs : Queues(n), by : {"nobody", "worker", "form", "discard"}, job : Jobs,
                 media : Versions]
Editors(n) == {f \in Form : /\ f.entry \in Fitting(n) /\ f.source \in Fitting(n)
                            /\ f.at # "closed" => f.entry.media >= 1
                            /\ f.at \in {"media", "storing"} => f.entry.status = "queued"}
QueuesTyped(n) == jobs \in Queues(n) /\ stored \in Queues(n) /\ loaded \in Queues(n)
DataTyped(n) == QueuesTyped(n) /\ writes \in Seq(Snapshots(n)) /\ form \in [Jobs -> Editors(n)]
WorkerTyped == worker \in Worker /\ (worker.at = "saving" => worker.by \in Users)
OtherTyped ==
    /\ files \subseteq Jobs \X Versions /\ phase \in {"loading", "read", "up"}
    /\ timers \subseteq Jobs /\ user \in Users \cup {NoOne}
    /\ ghost \in Ghost
ServerTyped == requests \subseteq Request /\ posted \in [Users \X Jobs -> Post]
UsedTyped == used \in [edits : 0..MaxEdits, mishaps : 0..MaxMishaps]
Bound == used.edits + 1
Typed == DataTyped(Bound) /\ WorkerTyped /\ OtherTyped /\ ServerTyped /\ UsedTyped

LEMMA Limits == MaxEdits \in Nat /\ MaxMishaps \in Nat /\ MaxRetries \in Nat
BY QueueAssumptions

LEMMA NoEntryFits == ASSUME NEW n \in Nat PROVE NoEntry \in Fitting(n) /\ Empty \in Queues(n)
<1>1. NoEntry \in Entry /\ NoEntry.version <= n /\ NoEntry.media <= n /\ ~Here(NoEntry)
  BY Limits DEF NoEntry, Entry, Versions, Here
<1> QED BY <1>1 DEF Fitting, Empty, Queues

LEMMA AnyJobIsOne == AnyJob \in Jobs
BY QueueAssumptions DEF AnyJob

LEMMA IdleTyped == Idle \in Worker /\ Idle.at = "idle" /\ Idle.by = NoOne
BY Limits, AnyJobIsOne DEF Idle, Worker, Versions, Waits, Blocks

LEMMA ClosedFits == ASSUME NEW n \in Nat PROVE Closed \in Editors(n)
BY NoEntryFits DEF Closed, Editors, Form, Fitting

LEMMA FittingGrows ==
    ASSUME NEW n \in Nat, NEW m \in Nat, n <= m
    PROVE  /\ Fitting(n) \subseteq Fitting(m) /\ Queues(n) \subseteq Queues(m)
           /\ Snapshots(n) \subseteq Snapshots(m) /\ Editors(n) \subseteq Editors(m)
<1>1. Fitting(n) \subseteq Fitting(m)
  BY Limits DEF Fitting, Entry, Versions
<1>2. Queues(n) \subseteq Queues(m)
  BY <1>1 DEF Queues
<1>3. Snapshots(n) \subseteq Snapshots(m)
  BY <1>2 DEF Snapshots
<1>4. Editors(n) \subseteq Editors(m)
  BY <1>1 DEF Editors
<1> QED BY <1>1, <1>2, <1>3, <1>4

LEMMA DataGrows ==
    ASSUME NEW n \in Nat, NEW m \in Nat, n <= m, DataTyped(n)
    PROVE  DataTyped(m)
BY FittingGrows, SeqMonotonic DEF DataTyped, QueuesTyped

(* An entry of which only the course of its publication has changed.       *)
LEMMA RevisedFits ==
    ASSUME NEW n \in Nat, NEW e \in Fitting(n), Here(e), NEW f \in Entry,
           f.version = e.version, f.media = e.media
    PROVE  f \in Fitting(n)
BY DEF Fitting

LEMMA BoundIsNat == UsedTyped => Bound \in Nat /\ Bound <= MaxEdits + 1 /\ used.edits \in Nat
BY Limits DEF UsedTyped, Bound

LEMMA TypedIsTypeOK == Typed => TypeOK
<1> SUFFICES ASSUME Typed PROVE TypeOK
  OBVIOUS
<1> DEFINE n == Bound
<1>1. n \in Nat
  BY BoundIsNat DEF Typed
<1> HIDE DEF n
<1>2. Fitting(n) \subseteq Entry
  BY DEF Fitting
<1>3. Queues(n) \subseteq Queue
  BY <1>2 DEF Queues, Queue
<1>4. Snapshots(n) \subseteq Write
  BY <1>3 DEF Snapshots, Write
<1>5. Editors(n) \subseteq Form
  BY DEF Editors
<1>6. DataTyped(n)
  BY DEF Typed, n
<1>7. writes \in Seq(Write)
  BY <1>4, <1>6, SeqMonotonic DEF DataTyped
<1>8. jobs \in Queue /\ stored \in Queue /\ loaded \in Queue /\ form \in [Jobs -> Form]
  BY <1>3, <1>5, <1>6 DEF DataTyped, QueuesTyped
<1> QED BY <1>7, <1>8 DEF Typed, TypeOK, WorkerTyped, OtherTyped, ServerTyped, UsedTyped

LEMMA InitTyped == Init => Typed
<1> SUFFICES ASSUME Init PROVE Typed
  OBVIOUS
<1>1. UsedTyped /\ Bound = 1
  BY Limits DEF Init, UsedTyped, Bound
<1>2. DataTyped(1)
  BY NoEntryFits, ClosedFits, EmptySeq DEF Init, DataTyped, QueuesTyped
<1>3. WorkerTyped
  BY IdleTyped DEF Init, WorkerTyped
<1>4. OtherTyped
  BY DEF Init, OtherTyped, Ghost
<1>5. ServerTyped
  BY Limits DEF Init, ServerTyped, Post, NoPost, Versions
<1> QED BY <1>1, <1>2, <1>3, <1>4, <1>5 DEF Typed
-----------------------------------------------------------------------------
(* The chain of writes.                                                    *)
Writers == {"nobody", "worker", "form", "discard"}

LEMMA CommitTyped ==
    ASSUME NEW n \in Nat, DataTyped(n), NEW next \in Queues(n), NEW by \in Writers, NEW j \in Jobs,
           NEW m \in Versions, Commit(next, by, j, m)
    PROVE  jobs' \in Queues(n) /\ writes' \in Seq(Snapshots(n))
<1> DEFINE w == [jobs |-> next, by |-> by, job |-> j, media |-> m]
<1>1. w \in Snapshots(n)
  BY DEF Snapshots, Writers
<1>2. writes' = Append(writes, w)
  BY DEF Commit
<1> HIDE DEF w
<1> QED BY <1>1, <1>2, AppendProperties DEF DataTyped, Commit

LEMMA StoresTyped ==
    ASSUME NEW n \in Nat, DataTyped(n), UsedTyped, NEW ok \in BOOLEAN, Stores(ok)
    PROVE  /\ stored' \in Queues(n) /\ writes' \in Seq(Snapshots(n))
           /\ UsedTyped' /\ used'.edits = used.edits
           /\ Head(writes) \in Snapshots(n)
<1>1. /\ Head(writes) \in Snapshots(n) /\ Tail(writes) \in Seq(Snapshots(n))
  BY HeadTailProperties DEF DataTyped, Stores
<1>2. Head(writes).jobs \in Queues(n)
  BY <1>1 DEF Snapshots
<1>3. stored' \in Queues(n) /\ writes' \in Seq(Snapshots(n))
  BY <1>1, <1>2 DEF DataTyped, QueuesTyped, Stores
<1>4. UsedTyped' /\ used'.edits = used.edits
  BY Limits DEF UsedTyped, Stores, Mishap
<1> QED BY <1>1, <1>3, <1>4

LEMMA UpdateTyped ==
    ASSUME NEW n \in Nat, jobs \in Queues(n), NEW j \in Jobs, NEW e \in Fitting(n)
    PROVE  Update(j, e) \in Queues(n) /\ [jobs EXCEPT ![j] = e] \in Queues(n)
BY DEF Update, Queues

LEMMA SameEdits ==
    ASSUME NEW n, n = Bound, jobs' \in Queues(n), stored' \in Queues(n), loaded' \in Queues(n),
           writes' \in Seq(Snapshots(n)), form' \in [Jobs -> Editors(n)], used'.edits = used.edits
    PROVE  DataTyped(Bound)'
BY DEF DataTyped, QueuesTyped, Bound

LEMMA Parts ==
    ASSUME Typed, NEW n, n = Bound
    PROVE  /\ n \in Nat /\ DataTyped(n) /\ n <= MaxEdits + 1 /\ n \in Versions /\ n = used.edits + 1 /\ n >= 1
           /\ jobs \in Queues(n) /\ stored \in Queues(n) /\ loaded \in Queues(n)
           /\ writes \in Seq(Snapshots(n)) /\ form \in [Jobs -> Editors(n)]
           /\ worker \in Worker /\ worker.job \in Jobs /\ worker.media \in Versions
           /\ \A j \in Jobs : /\ jobs[j] \in Fitting(n) /\ loaded[j] \in Fitting(n) /\ stored[j] \in Fitting(n)
                              /\ form[j] \in Editors(n)
           /\ Fitting(n) \subseteq Entry
<1>1. n \in Nat /\ DataTyped(n) /\ n <= MaxEdits + 1 /\ n = used.edits + 1 /\ n >= 1
  BY BoundIsNat DEF Typed, Bound
<1>2. n \in Versions
  BY <1>1, Limits DEF Versions
<1>3. worker \in Worker /\ worker.job \in Jobs /\ worker.media \in Versions
  BY DEF Typed, WorkerTyped, Worker
<1>4. /\ jobs \in Queues(n) /\ stored \in Queues(n) /\ loaded \in Queues(n)
      /\ writes \in Seq(Snapshots(n)) /\ form \in [Jobs -> Editors(n)]
  BY <1>1 DEF DataTyped, QueuesTyped
<1>5. Fitting(n) \subseteq Entry
  BY DEF Fitting
<1> QED BY <1>1, <1>2, <1>3, <1>4, <1>5 DEF Queues

LEMMA QueuedFits ==
    ASSUME NEW n \in Nat, n <= MaxEdits + 1, NEW v \in 1..n, NEW m \in 1..n, NEW p \in BOOLEAN
    PROVE  Queued(v, m, p) \in Fitting(n) /\ Queued(v, m, p).status = "queued"
           /\ Queued(v, m, p).media = m /\ Queued(v, m, p).version = v /\ Queued(v, m, p).prepared = p
<1> DEFINE q == Queued(v, m, p)
<1>1. NoEntry \in Entry
  BY NoEntryFits DEF Fitting
<1>2. q = [NoEntry EXCEPT !.status = "queued", !.version = v, !.media = m, !.prepared = p]
  BY DEF Queued
<1>3. v \in Versions /\ m \in Versions
  BY Limits DEF Versions
<1>4. q \in Entry /\ q.status = "queued" /\ q.media = m /\ q.version = v /\ q.prepared = p
  BY <1>1, <1>2, <1>3 DEF Entry
<1> HIDE DEF q
<1>5. q \in Fitting(n)
  BY <1>4 DEF Fitting
<1> QED BY <1>4, <1>5 DEF q

LEMMA UnpreparedFits ==
    ASSUME NEW n \in Nat, n <= MaxEdits + 1, NEW v \in 1..n, NEW m \in 1..n
    PROVE  Queued(v, m, FALSE) \in Fitting(n) /\ Queued(v, m, FALSE).status = "queued"
           /\ Queued(v, m, FALSE).media = m /\ Queued(v, m, FALSE).version = v
           /\ Queued(v, m, FALSE).prepared = FALSE
<1> DEFINE q == Queued(v, m, FALSE)
<1>1. NoEntry \in Entry
  BY NoEntryFits DEF Fitting
<1>2. q = [NoEntry EXCEPT !.status = "queued", !.version = v, !.media = m, !.prepared = FALSE]
  BY DEF Queued
<1>3. v \in Versions /\ m \in Versions
  BY Limits DEF Versions
<1>4. q \in Entry /\ q.status = "queued" /\ q.media = m /\ q.version = v /\ q.prepared = FALSE
  BY <1>1, <1>2, <1>3 DEF Entry
<1> HIDE DEF q
<1>5. q \in Fitting(n)
  BY <1>4 DEF Fitting
<1> QED BY <1>4, <1>5 DEF q

(* The entry of a new job.                                                 *)
LEMMA FirstQueued ==
    /\ Queued(1, 1, FALSE).status = "queued" /\ Queued(1, 1, FALSE).media = 1
    /\ ~Queued(1, 1, FALSE).prepared
    /\ \A n \in Nat : 1 <= n => Queued(1, 1, FALSE) \in Fitting(n)
<1> DEFINE q == Queued(1, 1, FALSE)
<1>1. NoEntry \in Entry
  BY NoEntryFits, 0 \in Nat DEF Fitting
<1>2. q = [NoEntry EXCEPT !.status = "queued", !.version = 1, !.media = 1, !.prepared = FALSE]
  BY DEF Queued
<1>3. 1 \in Versions
  BY Limits DEF Versions
<1>4. q \in Entry /\ q.status = "queued" /\ q.media = 1 /\ q.version = 1 /\ ~q.prepared
  BY <1>1, <1>2, <1>3 DEF Entry
<1> HIDE DEF q
<1>5. \A n \in Nat : 1 <= n => q \in Fitting(n)
  BY <1>4 DEF Fitting
<1> QED BY <1>4, <1>5 DEF q

(* What publishing does to the entry of a job that is there.               *)
Revises(e, f) ==
    /\ Here(e) /\ Here(f) /\ f \in Entry /\ f.version = e.version /\ f.media = e.media
    /\ e.prepared => f.prepared

LEMMA RevisesFits == ASSUME NEW n \in Nat, NEW e \in Fitting(n), NEW f, Revises(e, f) PROVE f \in Fitting(n)
BY RevisedFits DEF Revises

LEMMA FailShape ==
    ASSUME Typed, NEW error, Fail(error)
    PROVE  LET j == worker.job IN
           \/ /\ ~Here(jobs[j]) /\ Rest /\ UNCHANGED <<jobs, writes>>
           \/ \E f : /\ Revises(jobs[j], f) /\ f.status \in {"queued", "failed"}
                     /\ Commit([jobs EXCEPT ![j] = f], "worker", j, 0) /\ Leave("recording")
<1> DEFINE j == worker.job
           n == Bound
           k == jobs[j].attempts + 1
           f == [jobs[j] EXCEPT !.attempts = k,
                        !.status = IF Again(error, k) THEN "queued" ELSE "failed",
                        !.retryable = error # "final"]
<1>1. j \in Jobs /\ jobs[j] \in Entry
  BY Parts
<1>2. CASE Here(jobs[j])
  <2>1. Commit([jobs EXCEPT ![j] = f], "worker", j, 0) /\ Leave("recording")
    BY <1>2 DEF Fail
  <2>2. k \in Nat
    BY <1>1 DEF Entry
  <2>3. f \in Entry /\ f.version = jobs[j].version /\ f.media = jobs[j].media /\ f.prepared = jobs[j].prepared
        /\ f.status \in {"queued", "failed"}
    <3> HIDE DEF k
    <3> QED BY <1>1, <2>2 DEF Entry
  <2>4. Revises(jobs[j], f)
    BY <1>2, <2>3 DEF Revises, Here
  <2> QED BY <2>1, <2>3, <2>4
<1>3. CASE ~Here(jobs[j])
  BY <1>3 DEF Fail
<1> QED BY <1>2, <1>3

LEMMA LeaveTyped ==
    ASSUME Typed, NEW at \in Waits \cup Blocks, Leave(at)
    PROVE  /\ WorkerTyped' /\ worker'.at = at /\ worker'.job = worker.job /\ worker'.media = 0
           /\ worker'.by = NoOne
<1>1. worker' = [worker EXCEPT !.at = at, !.media = 0, !.by = NoOne]
  BY DEF Leave
<1>2. worker \in Worker
  BY Parts
<1>3. worker'.at = at /\ worker'.job = worker.job /\ worker'.media = 0 /\ worker'.by = NoOne
  BY <1>1, <1>2 DEF Worker
<1>4. worker' \in Worker
  <2>1. 0 \in Versions /\ at \in {"idle", "upload", "saving"} \cup Waits \cup Blocks
    BY Limits DEF Versions
  <2> QED BY <1>1, <1>2, <2>1 DEF Worker
<1>5. at # "saving"
  BY DEF Waits, Blocks
<1> QED BY <1>3, <1>4, <1>5 DEF WorkerTyped

LEMMA GotoTyped ==
    ASSUME Typed, NEW at \in {"idle", "upload"} \cup Waits \cup Blocks, Goto(at)
    PROVE  /\ WorkerTyped' /\ worker'.at = at /\ worker'.job = worker.job /\ worker'.media = worker.media
           /\ worker'.by = worker.by
<1>1. worker' = [worker EXCEPT !.at = at]
  BY DEF Goto
<1>2. worker \in Worker
  BY Parts
<1>3. worker'.at = at /\ worker'.job = worker.job /\ worker'.media = worker.media /\ worker'.by = worker.by
  BY <1>1, <1>2 DEF Worker
<1>4. worker' \in Worker
  BY <1>1, <1>2 DEF Worker
<1>5. at # "saving"
  BY DEF Waits, Blocks
<1> QED BY <1>3, <1>4, <1>5 DEF WorkerTyped

LEMMA RestTyped == Rest => WorkerTyped' /\ worker'.at = "idle"
BY IdleTyped DEF Rest, WorkerTyped

LEMMA FailTyped ==
    ASSUME Typed, NEW error, Fail(error), NEW n, n = Bound
    PROVE  jobs' \in Queues(n) /\ writes' \in Seq(Snapshots(n)) /\ WorkerTyped'
<1> USE Parts
<1> DEFINE j == worker.job
<1>1. CASE Rest /\ UNCHANGED <<jobs, writes>>
  BY <1>1, RestTyped
<1>2. ASSUME NEW f, Revises(jobs[j], f), Commit([jobs EXCEPT ![j] = f], "worker", j, 0), Leave("recording")
      PROVE  jobs' \in Queues(n) /\ writes' \in Seq(Snapshots(n)) /\ WorkerTyped'
  <2>1. [jobs EXCEPT ![j] = f] \in Queues(n)
    BY <1>2, RevisesFits, UpdateTyped
  <2>2. 0 \in Versions /\ "worker" \in Writers /\ "recording" \in Waits
    BY Limits DEF Versions, Writers, Waits
  <2>3. jobs' \in Queues(n) /\ writes' \in Seq(Snapshots(n))
    BY <1>2, <2>1, <2>2, CommitTyped
  <2> QED BY <1>2, <2>2, <2>3, LeaveTyped
<1> QED BY <1>1, <1>2, FailShape
-----------------------------------------------------------------------------
(* Hydration and the callables of the user.                                *)
LEMMA RestoredFits ==
    ASSUME Typed, NEW n, n = Bound
    PROVE  Restored \in Queues(n)
<1> SUFFICES ASSUME NEW j \in Jobs
             PROVE  (IF Restorable(loaded[j]) THEN Requeued(loaded[j]) ELSE NoEntry) \in Fitting(n)
  BY DEF Restored, Queues
<1>1. loaded[j] \in Fitting(n) /\ n \in Nat /\ loaded[j] \in Entry
  BY Parts
<1>2. CASE Restorable(loaded[j])
  <2>1. Revises(loaded[j], Requeued(loaded[j]))
    BY <1>1, <1>2 DEF Revises, Restorable, Requeued, Here, Entry
  <2> QED BY <1>1, <1>2, <2>1, RevisesFits
<1>3. CASE ~Restorable(loaded[j])
  BY <1>1, <1>3, NoEntryFits
<1> QED BY <1>2, <1>3

LEMMA BootTyped == ASSUME Typed, Load \/ Hydrate PROVE Typed'
<1> DEFINE n == Bound
<1>1. n \in Nat
  BY Parts
<1>2. CASE Load
  <2>1. loaded' \in Queues(n)
    BY <1>2, Parts, NoEntryFits DEF Load
  <2>2. UsedTyped' /\ used'.edits = used.edits
    BY <1>2, Limits DEF Load, Mishap, Typed, UsedTyped
  <2>3. DataTyped(Bound)'
    BY <1>2, <2>1, <2>2, SameEdits, Parts DEF Load
  <2>4. OtherTyped'
    BY <1>2 DEF Load, Typed, OtherTyped, Ghost
  <2> QED BY <1>2, <2>2, <2>3, <2>4 DEF Load, Typed, WorkerTyped, ServerTyped
<1>3. CASE Hydrate
  <2>1. Restored \in Queues(n) /\ Empty \in Queues(n)
    BY <1>1, RestoredFits, NoEntryFits
  <2>2. jobs' \in Queues(n) /\ writes' \in Seq(Snapshots(n))
    <3>1. CASE Commit(Restored, "nobody", AnyJob, 0)
      BY <1>1, <2>1, <3>1, CommitTyped, AnyJobIsOne, Parts, Limits DEF Writers, Versions
    <3>2. CASE jobs' = Restored /\ UNCHANGED writes
      BY <2>1, <3>2, Parts
    <3> QED BY <1>3, <3>1, <3>2 DEF Hydrate
  <2>3. DataTyped(Bound)'
    BY <1>3, <2>1, <2>2, SameEdits, Parts DEF Hydrate
  <2>4. OtherTyped'
    BY <1>3 DEF Hydrate, Typed, OtherTyped
  <2> QED BY <1>3, <2>3, <2>4 DEF Hydrate, Typed, WorkerTyped, ServerTyped, UsedTyped
<1> QED BY <1>2, <1>3

LEMMA UserTyped ==
    ASSUME Typed, NEW j \in Jobs,
           EnqueueNew(j) \/ OpenReview(j) \/ Submit(j) \/ Place(j) \/ Retry(j) \/ Discard(j) \/ TimerFires(j)
    PROVE  Typed'
<1> DEFINE n == Bound
<1>n. n = Bound
  BY DEF n
<1> HIDE DEF n
<1>1. n \in Nat /\ 1 \in 1..n /\ n \in Versions /\ 0 \in Versions /\ 1 \in Versions
  BY <1>n, Parts, Limits DEF Versions
<1>0. jobs \in Queues(n) /\ jobs[j] \in Fitting(n) /\ jobs[j] \in Entry /\ form[j] \in Editors(n)
      /\ form \in [Jobs -> Editors(n)] /\ DataTyped(n)
  BY <1>n, Parts
<1>w. Writers = {"nobody", "worker", "form", "discard"}
  BY DEF Writers
<1>2. CASE EnqueueNew(j)
  <2> DEFINE q == Queued(1, 1, FALSE)
  <2>1. q \in Fitting(n) /\ NoEntry \in Fitting(n) /\ q.media = 1 /\ q.status = "queued"
    <3>1. n >= 1
      BY <1>n, Parts
    <3>2. q \in Fitting(n) /\ q.media = 1 /\ q.status = "queued"
      BY <1>1, <3>1, FirstQueued
    <3> QED BY <1>1, <3>2, NoEntryFits
  <2> HIDE DEF q
  <2>2. [jobs EXCEPT ![j] = q] \in Queues(n)
    BY <1>0, <1>1, <2>1, UpdateTyped
  <2>3. Commit([jobs EXCEPT ![j] = q], "form", j, 0)
    BY <1>2 DEF EnqueueNew, q
  <2>4. jobs' \in Queues(n) /\ writes' \in Seq(Snapshots(n))
    BY <1>0, <1>1, <1>w, <2>2, <2>3, CommitTyped
  <2>5. [at |-> "storing", entry |-> q, source |-> NoEntry] \in Editors(n)
    BY <2>1 DEF Editors, Form, Fitting
  <2>6. form' \in [Jobs -> Editors(n)]
    BY <1>0, <1>2, <2>5 DEF EnqueueNew, q
  <2>7. DataTyped(Bound)'
    BY <1>n, <1>2, <2>4, <2>6, SameEdits, Parts DEF EnqueueNew
  <2>8. OtherTyped'
    <3>1. files' \subseteq Jobs \X Versions
      BY <1>1, <1>2 DEF EnqueueNew, Typed, OtherTyped
    <3>2. ghost' = [ghost EXCEPT !.born = ghost.born \cup {j}, !.reset = ghost.reset \/ phase # "up"]
      BY <1>2 DEF EnqueueNew
    <3>3. ghost \in Ghost /\ (ghost.reset \/ phase # "up") \in BOOLEAN
      BY DEF Typed, OtherTyped
    <3>4. ghost' \in Ghost
      BY <3>2, <3>3 DEF Ghost
    <3> QED BY <1>2, <3>1, <3>4 DEF EnqueueNew, Typed, OtherTyped
  <2> QED BY <1>2, <2>7, <2>8 DEF EnqueueNew, Typed, WorkerTyped, ServerTyped, UsedTyped
<1>3. CASE OpenReview(j)
  <2> DEFINE f == [Closed EXCEPT !.at = "open", !.entry = jobs[j]]
  <2>1. Closed \in Form /\ Closed.source = NoEntry
    BY <1>1, ClosedFits DEF Closed, Editors
  <2>2. jobs[j].media >= 1
    BY <1>0, <1>3 DEF OpenReview, Offered, Fitting, Here
  <2>3. f \in Editors(n)
    <3>1. f \in Form /\ f.at = "open" /\ f.entry = jobs[j] /\ f.source = NoEntry
      BY <1>0, <2>1 DEF Form
    <3> HIDE DEF f
    <3> QED BY <1>0, <1>1, <2>2, <3>1, NoEntryFits DEF Editors
  <2>4. form' \in [Jobs -> Editors(n)]
    BY <1>0, <1>3, <2>3 DEF OpenReview
  <2>5. DataTyped(Bound)'
    BY <1>n, <1>3, <2>4, SameEdits, Parts DEF OpenReview
  <2> QED BY <1>3, <2>5 DEF OpenReview, Typed, OtherTyped, WorkerTyped, ServerTyped, UsedTyped
<1>4. CASE Submit(j)
  <2> DEFINE m == n + 1
  <2>1. PICK sameImages \in BOOLEAN :
          LET v == jobs[j].version + 1
              was == form[j].entry
              next == IF sameImages THEN Queued(v, was.media, was.prepared) ELSE Queued(v, v, FALSE) IN
          /\ form[j].at = "open" /\ Here(jobs[j]) /\ Edits
          /\ files' = IF sameImages THEN files ELSE files \cup {<<j, v>>}
          /\ form' = [form EXCEPT ![j] = [at |-> "media", entry |-> next, source |-> jobs[j]]]
    BY <1>4 DEF Submit
  <2> DEFINE v == jobs[j].version + 1
             was == form[j].entry
             next == IF sameImages THEN Queued(v, was.media, was.prepared) ELSE Queued(v, v, FALSE)
  <2>2. used'.edits = used.edits + 1 /\ UsedTyped' /\ Bound' = m /\ m \in Nat /\ m <= MaxEdits + 1
    BY <1>1, <1>n, <2>1, Limits DEF Edits, Typed, UsedTyped, Bound
  <2>3. v \in 1..m /\ v \in Versions
    <3>1. jobs[j].version \in 0..n
      BY <1>0, <1>1, Limits DEF Fitting, Entry, Versions
    <3> HIDE DEF n
    <3> QED BY <1>1, <2>2, <3>1, Limits DEF Versions
  <2>4. was.media \in 1..m /\ was.prepared \in BOOLEAN
    <3>1. was \in Fitting(n) /\ was.media >= 1
      BY <1>0, <2>1 DEF Editors
    <3>2. was \in Entry /\ was.media <= n
      BY <3>1 DEF Fitting
    <3> HIDE DEF was
    <3> QED BY <1>1, <3>1, <3>2 DEF Entry, Versions
  <2>5. next \in Fitting(m) /\ next.status = "queued" /\ next.media >= 1
    <3> HIDE DEF v, was
    <3>1. /\ Queued(v, was.media, was.prepared) \in Fitting(m)
          /\ Queued(v, was.media, was.prepared).status = "queued"
          /\ Queued(v, was.media, was.prepared).media >= 1
      BY <2>2, <2>3, <2>4, QueuedFits
    <3>2. /\ Queued(v, v, FALSE) \in Fitting(m) /\ Queued(v, v, FALSE).status = "queued"
          /\ Queued(v, v, FALSE).media = v
      BY <2>2, <2>3, UnpreparedFits
    <3>3. v >= 1
      BY <2>2, <2>3
    <3> QED BY <3>1, <3>2, <3>3
  <2> HIDE DEF next
  <2>6. DataTyped(m)
    BY <1>0, <1>1, <2>2, DataGrows
  <2>7. [at |-> "media", entry |-> next, source |-> jobs[j]] \in Editors(m)
    BY <1>0, <2>5, <2>6 DEF Editors, Form, Fitting, DataTyped, QueuesTyped, Queues
  <2>8. form' \in [Jobs -> Editors(m)]
    BY <2>1, <2>6, <2>7 DEF DataTyped, next
  <2>9. DataTyped(Bound)'
    BY <1>4, <2>2, <2>6, <2>8 DEF Submit, DataTyped, QueuesTyped
  <2>10. OtherTyped'
    BY <1>4, <2>1, <2>3 DEF Submit, Typed, OtherTyped, Ghost, Crossing
  <2> QED BY <1>4, <2>2, <2>9, <2>10 DEF Submit, Typed, WorkerTyped, ServerTyped
<1>5. CASE Place(j)
  <2>1. form[j].entry \in Fitting(n)
    BY <1>0 DEF Editors
  <2>2. jobs' \in Queues(n) /\ writes' \in Seq(Snapshots(n))
    BY <1>0, <1>1, <1>w, <1>5, <2>1, UpdateTyped, CommitTyped DEF Place
  <2>3. form' \in [Jobs -> Editors(n)]
    <3>1. form[j].at = "media" /\ form' = [form EXCEPT ![j] = [form[j] EXCEPT !.at = "storing"]]
      BY <1>5 DEF Place
    <3>2. [form[j] EXCEPT !.at = "storing"] \in Editors(n)
      BY <1>0, <3>1 DEF Editors, Form
    <3> QED BY <1>0, <3>1, <3>2
  <2>4. DataTyped(Bound)'
    BY <1>n, <1>5, <2>2, <2>3, SameEdits, Parts DEF Place
  <2>5. OtherTyped'
    BY <1>5 DEF Place, Typed, OtherTyped, Ghost, Crossing
  <2> QED BY <1>5, <2>4, <2>5 DEF Place, Typed, WorkerTyped, ServerTyped, UsedTyped
<1>6. CASE Retry(j)
  <2> DEFINE m == n + 1
             e == [jobs[j] EXCEPT !.status = "queued", !.attempts = 0, !.retryable = FALSE]
  <2>1. Revises(jobs[j], e)
    BY <1>0, <1>6 DEF Retry, Offered, Revises, Here, Entry
  <2>2. used'.edits = used.edits + 1 /\ UsedTyped' /\ Bound' = m /\ m \in Nat
    BY <1>1, <1>n, <1>6, Limits DEF Retry, Edits, Typed, UsedTyped, Bound
  <2>3. DataTyped(m)
    BY <1>0, <1>1, <2>2, DataGrows
  <2>4. e \in Fitting(m) /\ jobs \in Queues(m)
    BY <2>1, <2>2, <2>3, RevisesFits DEF DataTyped, QueuesTyped, Queues
  <2>5. Commit([jobs EXCEPT ![j] = e], "nobody", j, 0)
    BY <1>6 DEF Retry
  <2> HIDE DEF e
  <2>6. jobs' \in Queues(m) /\ writes' \in Seq(Snapshots(m))
    BY <1>1, <1>w, <2>2, <2>3, <2>4, <2>5, UpdateTyped, CommitTyped
  <2>7. DataTyped(Bound)'
    BY <1>6, <2>2, <2>3, <2>6 DEF Retry, DataTyped, QueuesTyped
  <2> QED BY <1>6, <2>2, <2>7 DEF Retry, Typed, OtherTyped, WorkerTyped, ServerTyped
<1>7. CASE Discard(j) \/ TimerFires(j)
  <2>1. [jobs EXCEPT ![j] = NoEntry] \in Queues(n)
    BY <1>0, <1>1, NoEntryFits, UpdateTyped
  <2>2. jobs[j].media \in Versions
    BY <1>0 DEF Entry
  <2>3. \E by \in Writers, m \in Versions : Commit([jobs EXCEPT ![j] = NoEntry], by, j, m)
    BY <1>1, <1>w, <1>7, <2>2 DEF Discard, TimerFires
  <2>4. jobs' \in Queues(n) /\ writes' \in Seq(Snapshots(n))
    BY <1>0, <1>1, <2>1, <2>3, CommitTyped
  <2>5. DataTyped(Bound)'
    BY <1>n, <1>7, <2>4, SameEdits, Parts DEF Discard, TimerFires
  <2>6. OtherTyped'
    BY <1>7 DEF Discard, TimerFires, Typed, OtherTyped, Ghost
  <2> QED BY <1>7, <2>5, <2>6 DEF Discard, TimerFires, Typed, WorkerTyped, ServerTyped, UsedTyped
<1> QED BY <1>2, <1>3, <1>4, <1>5, <1>6, <1>7

(* The answers of the storage.                                             *)
LEMMA StoreTyped == ASSUME Typed, StoreStep PROVE Typed'
<1> DEFINE n == Bound
<1>n. n = Bound
  BY DEF n
<1> HIDE DEF n
<1>1. n \in Nat /\ DataTyped(n) /\ UsedTyped
  BY <1>n, Parts DEF Typed
<1>2. CASE StoreForWorker
  <2>1. PICK ok \in BOOLEAN : /\ Stores(ok)
                             /\ IF worker.at = "recording" THEN Rest ELSE Goto(IF ok THEN Resumed ELSE "broken")
    BY <1>2 DEF StoreForWorker
  <2>2. (IF ok THEN Resumed ELSE "broken") \in {"idle", "upload"} \cup Waits \cup Blocks
    BY DEF Resumed, Blocks
  <2>3. WorkerTyped'
    BY <2>1, <2>2, RestTyped, GotoTyped
  <2>4. /\ stored' \in Queues(n) /\ writes' \in Seq(Snapshots(n))
        /\ UsedTyped' /\ used'.edits = used.edits
    BY <1>1, <2>1, StoresTyped
  <2>5. DataTyped(Bound)'
    BY <1>n, <1>2, <2>4, SameEdits, Parts DEF StoreForWorker
  <2> QED BY <1>2, <2>3, <2>4, <2>5 DEF StoreForWorker, Typed, OtherTyped, ServerTyped
<1>3. CASE StoreForForm
  <2> DEFINE j == Head(writes).job
             f == form[j]
  <2>1. PICK ok \in BOOLEAN :
          /\ Stores(ok)
          /\ files' = files \ Of(j, IF ok THEN Replaced(f) ELSE New(f))
          /\ jobs' = IF ok THEN jobs ELSE Update(j, f.source)
          /\ ghost' = IF ok THEN [ghost EXCEPT !.accepted = @ \cup {j}]
                      ELSE [ghost EXCEPT !.rejected = @ \cup {j}]
    BY <1>3 DEF StoreForForm
  <2>4. /\ stored' \in Queues(n) /\ writes' \in Seq(Snapshots(n))
        /\ UsedTyped' /\ used'.edits = used.edits
        /\ Head(writes) \in Snapshots(n)
    BY <1>1, <2>1, StoresTyped
  <2>5. j \in Jobs
    BY <2>4 DEF Snapshots
  <2> HIDE DEF j
  <2>6. f.source \in Fitting(n)
    BY <1>n, <2>5, Parts DEF Editors
  <2>7. jobs' \in Queues(n)
    BY <1>1, <2>1, <2>5, <2>6, UpdateTyped DEF DataTyped, QueuesTyped
  <2>8. form' \in [Jobs -> Editors(n)]
    BY <1>1, <1>3, <2>5, ClosedFits DEF StoreForForm, DataTyped, j
  <2>9. DataTyped(Bound)'
    BY <1>n, <1>3, <2>4, <2>7, <2>8, SameEdits, Parts DEF StoreForForm
  <2>10. OtherTyped'
    <3>1. files' \subseteq Jobs \X Versions
      BY <2>1 DEF Typed, OtherTyped
    <3>2. ghost' \in Ghost
      BY <2>1, <2>5 DEF Typed, OtherTyped, Ghost
    <3> QED BY <1>3, <3>1, <3>2 DEF StoreForForm, Typed, OtherTyped
  <2> QED BY <1>3, <2>4, <2>9, <2>10 DEF StoreForForm, Typed, WorkerTyped, ServerTyped
<1>4. CASE StoreForOthers
  <2>1. PICK ok \in BOOLEAN : Stores(ok)
    BY <1>4 DEF StoreForOthers
  <2>4. /\ stored' \in Queues(n) /\ writes' \in Seq(Snapshots(n))
        /\ UsedTyped' /\ used'.edits = used.edits
    BY <1>1, <2>1, StoresTyped
  <2>5. DataTyped(Bound)'
    BY <1>n, <1>4, <2>4, SameEdits, Parts DEF StoreForOthers
  <2>6. files' \subseteq files
    BY <1>4 DEF StoreForOthers
  <2> QED BY <1>4, <2>4, <2>5, <2>6 DEF StoreForOthers, Typed, OtherTyped, WorkerTyped, ServerTyped
<1> QED BY <1>2, <1>3, <1>4 DEF StoreStep

(* What the worker commits is a revision of its job's entry, or nothing;   *)
(* where it goes next is an await of the write.                            *)
WorkerCommits(j) ==
    \/ Commit(jobs, "worker", j, 0)
    \/ /\ Here(jobs[j])
       /\ \E f : Revises(jobs[j], f) /\ Commit([jobs EXCEPT ![j] = f], "worker", j, 0)

LEMMA WorkerCommitsTyped ==
    ASSUME Typed, NEW j \in Jobs, WorkerCommits(j), NEW n, n = Bound
    PROVE  jobs' \in Queues(n) /\ writes' \in Seq(Snapshots(n))
<1>1. n \in Nat /\ DataTyped(n) /\ jobs \in Queues(n) /\ 0 \in Versions /\ "worker" \in Writers
      /\ jobs[j] \in Fitting(n)
  BY Parts, Limits DEF Versions, Writers
<1>2. CASE Commit(jobs, "worker", j, 0)
  BY <1>1, <1>2, CommitTyped
<1>3. ASSUME NEW f, Revises(jobs[j], f), Commit([jobs EXCEPT ![j] = f], "worker", j, 0)
      PROVE  jobs' \in Queues(n) /\ writes' \in Seq(Snapshots(n))
  <2>1. [jobs EXCEPT ![j] = f] \in Queues(n)
    BY <1>1, <1>3, RevisesFits, UpdateTyped
  <2> QED BY <1>1, <1>3, <2>1, CommitTyped
<1> QED BY <1>2, <1>3 DEF WorkerCommits

LEMMA StatusRevises ==
    ASSUME NEW e \in Entry, Here(e), NEW s \in {"queued", "uploading", "saving", "failed", "success"}
    PROVE  Revises(e, [e EXCEPT !.status = s]) /\ [e EXCEPT !.status = s].status = s
           /\ [e EXCEPT !.status = s].prepared = e.prepared
BY DEF Entry, Revises, Here

LEMMA StartCommits ==
    ASSUME Typed, NEW j \in Jobs, Start(j)
    PROVE  WorkerCommits(j) /\ jobs' = [jobs EXCEPT ![j] = [jobs[j] EXCEPT !.status = "uploading"]]
<1>1. Here(jobs[j]) /\ jobs[j] \in Entry
  BY Parts DEF Start, Here
<1>2. Commit([jobs EXCEPT ![j] = [jobs[j] EXCEPT !.status = "uploading"]], "worker", j, 0)
  BY DEF Start
<1> QED BY <1>1, <1>2, StatusRevises DEF WorkerCommits, Commit

LEMMA UploadedCommits ==
    ASSUME Typed, Uploaded
    PROVE  /\ WorkerCommits(worker.job)
           /\ LET j == worker.job IN
              jobs' = IF Here(jobs[j]) /\ jobs[j].media = worker.media
                      THEN [jobs EXCEPT ![j] = [jobs[j] EXCEPT !.prepared = TRUE]] ELSE jobs
<1> DEFINE j == worker.job
           f == [jobs[j] EXCEPT !.prepared = TRUE]
<1>1. jobs[j] \in Entry
  BY Parts
<1>2. Commit(IF Here(jobs[j]) /\ jobs[j].media = worker.media
              THEN [jobs EXCEPT ![j] = f] ELSE jobs, "worker", j, 0)
  BY DEF Uploaded
<1>3. Here(jobs[j]) => Revises(jobs[j], f)
  BY <1>1 DEF Revises, Entry, Here
<1> QED BY <1>2, <1>3 DEF WorkerCommits, Commit

LEMMA ReadyCommits ==
    ASSUME Typed, Ready
    PROVE  LET j == worker.job IN
           \/ /\ Here(jobs[j]) /\ jobs[j].prepared /\ WorkerCommits(j)
              /\ jobs' = [jobs EXCEPT ![j] = [jobs[j] EXCEPT !.status = "saving"]]
              /\ worker' = [worker EXCEPT !.at = "entering", !.media = jobs[j].media]
           \/ Fail("final")
<1> DEFINE j == worker.job
<1>1. CASE Here(jobs[j]) /\ jobs[j].prepared
  <2>1. jobs[j] \in Entry
    BY Parts
  <2>2. /\ Commit([jobs EXCEPT ![j] = [jobs[j] EXCEPT !.status = "saving"]], "worker", j, 0)
        /\ worker' = [worker EXCEPT !.at = "entering", !.media = jobs[j].media]
    BY <1>1 DEF Ready
  <2> QED BY <1>1, <2>1, <2>2, StatusRevises DEF WorkerCommits, Commit
<1>2. CASE ~(Here(jobs[j]) /\ jobs[j].prepared)
  BY <1>2 DEF Ready
<1> QED BY <1>1, <1>2

LEMMA AnsweredCommits ==
    ASSUME Typed, Answered
    PROVE  /\ WorkerCommits(worker.job)
           /\ jobs' = Update(worker.job, [jobs[worker.job] EXCEPT !.status = "success"])
<1> DEFINE j == worker.job
           f == [jobs[j] EXCEPT !.status = "success"]
<1>1. jobs[j] \in Entry
  BY Parts
<1>2. Commit(Update(j, f), "worker", j, 0)
  BY DEF Answered
<1>3. Here(jobs[j]) => Revises(jobs[j], f)
  BY <1>1, StatusRevises
<1>4. CASE Here(jobs[j])
  BY <1>2, <1>3, <1>4 DEF WorkerCommits, Commit, Update
<1>5. CASE ~Here(jobs[j])
  BY <1>2, <1>5 DEF WorkerCommits, Commit, Update
<1> QED BY <1>4, <1>5

LEMMA WorkTyped == ASSUME Typed, WorkerBlock \/ WorkerStep PROVE Typed'
<1> DEFINE n == Bound
<1>n. n = Bound
  BY DEF n
<1> HIDE DEF n
<1>1. n \in Nat /\ DataTyped(n) /\ worker \in Worker /\ worker.job \in Jobs /\ 0 \in Versions
  BY <1>n, Parts, Limits DEF Versions
<1>a. ASSUME WorkerTyped', OtherTyped', ServerTyped', jobs' \in Queues(n), writes' \in Seq(Snapshots(n)),
             UNCHANGED <<stored, loaded, form, used>>
      PROVE  Typed'
  <2>1. DataTyped(Bound)'
    BY <1>n, <1>a, SameEdits, Parts
  <2> QED BY <1>a, <2>1 DEF Typed, UsedTyped
<1>b. ASSUME UNCHANGED <<files, phase, timers, user, ghost>> PROVE OtherTyped'
  BY <1>b DEF Typed, OtherTyped
<1>c. ASSUME UNCHANGED <<requests, posted>> PROVE ServerTyped'
  BY <1>c DEF Typed, ServerTyped
<1>2. ASSUME NEW j \in Jobs, Start(j) PROVE Typed'
  <2>1. WorkerTyped'
    <3>1. worker' = [Idle EXCEPT !.at = "started", !.job = j]
      BY <1>2 DEF Start
    <3> QED BY <3>1, IdleTyped DEF WorkerTyped, Worker, Waits
  <2> QED BY <1>a, <1>b, <1>c, <1>n, <1>2, <2>1, StartCommits, WorkerCommitsTyped DEF Start
<1>3. CASE Uploaded
  <2>1. WorkerTyped'
    BY <1>3, LeaveTyped DEF Uploaded, Waits
  <2> QED BY <1>a, <1>b, <1>c, <1>n, <1>1, <1>3, <2>1, UploadedCommits, WorkerCommitsTyped DEF Uploaded
<1>4. CASE UploadFails \/ Broken
  <2>1. \E error : Fail(error)
    BY <1>4 DEF UploadFails, Broken
  <2> QED BY <1>a, <1>b, <1>c, <1>n, <1>4, <2>1, FailTyped DEF UploadFails, Broken
<1>5. CASE Answered
  <2>1. WorkerTyped'
    BY <1>5, LeaveTyped DEF Answered, Waits
  <2> QED BY <1>a, <1>b, <1>c, <1>n, <1>1, <1>5, <2>1, AnsweredCommits, WorkerCommitsTyped DEF Answered
<1>6. CASE SaveFails
  <2>1. \E error : Fail(error)
    BY <1>6 DEF SaveFails
  <2>2. ServerTyped'
    BY <1>6 DEF SaveFails, Typed, ServerTyped
  <2> QED BY <1>a, <1>b, <1>n, <1>6, <2>1, <2>2, FailTyped DEF SaveFails
<1>7. CASE UploadBegins
  <2>1. WorkerTyped'
    <3>1. CASE Pending
      <4>1. worker' = [worker EXCEPT !.media = jobs[worker.job].media] /\ worker.at = "upload"
        BY <1>7, <3>1 DEF UploadBegins
      <4>2. jobs[worker.job].media \in Versions
        BY <1>1, Parts DEF Entry
      <4> QED BY <1>1, <4>1, <4>2 DEF WorkerTyped, Worker
    <3>2. CASE ~Pending
      <4>1. Goto("ready")
        BY <1>7, <3>2 DEF UploadBegins, Goto
      <4> QED BY <4>1, GotoTyped DEF Blocks
    <3> QED BY <3>1, <3>2
  <2> QED BY <1>a, <1>b, <1>c, <1>n, <1>7, <2>1, Parts DEF UploadBegins
<1>8. CASE Ready
  <2> DEFINE j == worker.job
  <2>1. CASE Fail("final")
    BY <1>a, <1>b, <1>c, <1>n, <1>8, <2>1, FailTyped DEF Ready
  <2>2. CASE WorkerCommits(j) /\ worker' = [worker EXCEPT !.at = "entering", !.media = jobs[j].media]
    <3>1. jobs[j].media \in Versions
      BY <1>1, Parts DEF Entry
    <3>2. WorkerTyped'
      BY <1>1, <2>2, <3>1 DEF WorkerTyped, Worker, Waits
    <3> QED BY <1>a, <1>b, <1>c, <1>n, <1>1, <1>8, <2>2, <3>2, WorkerCommitsTyped DEF Ready
  <2> QED BY <1>8, <2>1, <2>2, ReadyCommits
<1>9. CASE Send
  <2> DEFINE j == worker.job
             r == [user |-> user, job |-> j, post |-> [version |-> jobs[j].version, media |-> worker.media]]
  <2>1. CASE ~Here(jobs[j])
    BY <1>a, <1>b, <1>c, <1>n, <1>9, <2>1, Parts, RestTyped DEF Send
  <2>2. CASE Here(jobs[j]) /\ user = NoOne
    BY <1>a, <1>b, <1>c, <1>n, <1>9, <2>2, FailTyped DEF Send
  <2>3. CASE Here(jobs[j]) /\ user # NoOne
    <3>1. /\ requests' = requests \cup {r}
          /\ ghost' = [ghost EXCEPT !.swapped = IF user = Owner[j] THEN @ ELSE @ \cup {j}]
          /\ worker' = [worker EXCEPT !.at = "saving", !.media = 0, !.by = user]
          /\ UNCHANGED <<jobs, writes>>
      BY <1>9, <2>3 DEF Send
    <3>2. user \in Users
      BY <2>3 DEF Typed, OtherTyped
    <3>3. jobs[j].version \in Versions /\ worker.media \in Versions
      BY <1>1, Parts DEF Entry
    <3>4. r \in Request
      BY <1>1, <3>2, <3>3 DEF Request, Post
    <3>5. ServerTyped'
      BY <1>9, <3>1, <3>4 DEF Send, Typed, ServerTyped
    <3>6. WorkerTyped'
      BY <1>1, <3>1, <3>2 DEF WorkerTyped, Worker
    <3>7. ghost' \in Ghost
      BY <1>1, <3>1 DEF Typed, OtherTyped, Ghost
    <3>8. OtherTyped'
      BY <1>9, <3>7 DEF Send, Typed, OtherTyped
    <3> QED BY <1>a, <1>n, <1>9, <3>1, <3>5, <3>6, <3>8, Parts DEF Send
  <2> QED BY <2>1, <2>2, <2>3
<1>10. CASE Close
  <2>1. OtherTyped'
    BY <1>1, <1>10 DEF Close, Typed, OtherTyped
  <2> QED BY <1>a, <1>c, <1>n, <1>10, <2>1, Parts, RestTyped DEF Close
<1> QED BY <1>2, <1>3, <1>4, <1>5, <1>6, <1>7, <1>8, <1>9, <1>10 DEF WorkerBlock, WorkerStep

LEMMA WorldTyped ==
    ASSUME Typed, SignIn \/ Kill \/ \E r \in requests : Serve(r)
    PROVE  Typed'
<1> DEFINE n == Bound
<1>n. n = Bound
  BY DEF n
<1> HIDE DEF n
<1>1. CASE SignIn
  <2>1. UsedTyped' /\ used'.edits = used.edits
    BY <1>1, Limits DEF SignIn, Mishap, Typed, UsedTyped
  <2>2. DataTyped(Bound)'
    BY <1>n, <1>1, <2>1, SameEdits, Parts DEF SignIn
  <2> QED BY <1>1, <2>1, <2>2 DEF SignIn, Typed, OtherTyped, WorkerTyped, ServerTyped
<1>2. CASE Kill
  <2>1. UsedTyped' /\ used'.edits = used.edits
    BY <1>2, Limits DEF Kill, Mishap, Typed, UsedTyped
  <2>2. n \in Nat /\ <<>> \in Seq(Snapshots(n))
    BY <1>n, Parts, EmptySeq
  <2>3. Empty \in Queues(n) /\ [j \in Jobs |-> Closed] \in [Jobs -> Editors(n)]
    BY <2>2, NoEntryFits, ClosedFits
  <2>4. DataTyped(Bound)'
    BY <1>n, <1>2, <2>1, <2>2, <2>3, SameEdits, Parts DEF Kill
  <2> QED BY <1>2, <2>1, <2>4, IdleTyped DEF Kill, Typed, OtherTyped, WorkerTyped, ServerTyped
<1>3. ASSUME NEW r \in requests, Serve(r) PROVE Typed'
  <2>1. r.user \in Users /\ r.job \in Jobs /\ r.post \in Post
    BY DEF Typed, ServerTyped, Request
  <2>2. ServerTyped'
    BY <1>3, <2>1 DEF Serve, Typed, ServerTyped
  <2>3. DataTyped(Bound)'
    BY <1>n, <1>3, SameEdits, Parts DEF Serve
  <2> QED BY <1>3, <2>2, <2>3 DEF Serve, Typed, OtherTyped, WorkerTyped, UsedTyped
<1> QED BY <1>1, <1>2, <1>3

LEMMA NextTyped == ASSUME Typed, [Next]_vars PROVE Typed'
<1>1. CASE UNCHANGED vars
  BY <1>1 DEF vars, Typed, DataTyped, QueuesTyped, WorkerTyped, OtherTyped, ServerTyped, UsedTyped, Bound
<1>2. CASE Next
  BY <1>2, BootTyped, UserTyped, StoreTyped, WorkTyped, WorldTyped DEF Next
<1> QED BY <1>1, <1>2

(* Every reachable state is well typed: a queue holds well-formed jobs,    *)
(* whatever is restored, put back or written late.                         *)
LEMMA AlwaysTyped == Spec => []Typed
BY InitTyped, NextTyped, PTL DEF Spec
THEOREM PublishTypeCorrect == Spec => []TypeOK
BY AlwaysTyped, TypedIsTypeOK, PTL
-----------------------------------------------------------------------------
(* What the storage holds of a job, or will or may hold: its copies.       *)
(* Since(by, j): those from the first write on that by awaits for j, and   *)
(* the entry in memory, which is in no write before it is in the last.     *)
Marks(i, by, j) == writes[i].by = by /\ writes[i].job = j
Marked(by, j) == \E i \in DOMAIN writes : Marks(i, by, j)
Single(by, j) == \A i, k \in DOMAIN writes : Marks(i, by, j) /\ Marks(k, by, j) => i = k
Past(j) == {writes[i].jobs[j] : i \in DOMAIN writes}
Copies(j) == {stored[j], jobs[j], loaded[j]} \cup Past(j)
Since(by, j) ==
    {jobs[j]} \cup
    {writes[k].jobs[j] : k \in {k \in DOMAIN writes : \E i \in DOMAIN writes : i <= k /\ Marks(i, by, j)}}

(* How a step moves the chain of writes and the storage.                   *)
Appends(by, j) == \E n \in Nat : \E w \in Snapshots(n) :
    /\ w.jobs = jobs' /\ w.by = by /\ w.job = j
    /\ writes' = Append(writes, w) /\ stored' = stored
Grows == \E by \in Writers, j \in Jobs : Appends(by, j)
Shrinks == writes # <<>> /\ writes' = Tail(writes) /\ stored' \in {stored, Head(writes).jobs}
Stays == writes' = writes /\ stored' = stored
Wiped == writes' = <<>> /\ stored' = stored
Chain == (Grows \/ (StoreStep /\ Shrinks) \/ Stays \/ (Kill /\ Wiped)) /\ loaded' \in {loaded, stored, Empty}

LEMMA Indices ==
    ASSUME Typed
    PROVE  /\ Len(writes) \in Nat /\ DOMAIN writes = 1..Len(writes)
           /\ \A i \in DOMAIN writes : writes[i].job \in Jobs /\ writes[i].by \in Writers
<1>1. writes \in Seq(Snapshots(Bound))
  BY Parts
<1>2. Len(writes) \in Nat /\ DOMAIN writes = 1..Len(writes)
  BY <1>1, LenProperties
<1>3. ASSUME NEW i \in DOMAIN writes PROVE writes[i] \in Snapshots(Bound)
  BY <1>1, <1>2, <1>3, ElementOfSeq
<1> QED BY <1>2, <1>3 DEF Snapshots, Writers

LEMMA AppendIndices ==
    ASSUME Typed, NEW by, NEW j, Appends(by, j)
    PROVE  LET n == Len(writes) IN
           /\ n \in Nat /\ DOMAIN writes = 1..n /\ DOMAIN writes' = 1..(n + 1)
           /\ \A i \in 1..n : writes'[i] = writes[i]
           /\ writes'[n + 1].by = by /\ writes'[n + 1].job = j /\ writes'[n + 1].jobs = jobs'
           /\ stored' = stored
<1>0. PICK b \in Nat : \E w \in Snapshots(b) :
        /\ w.jobs = jobs' /\ w.by = by /\ w.job = j
        /\ writes' = Append(writes, w) /\ stored' = stored
  BY DEF Appends
<1>1. PICK w \in Snapshots(b) :
        /\ w.jobs = jobs' /\ w.by = by /\ w.job = j
        /\ writes' = Append(writes, w) /\ stored' = stored
  BY <1>0
<1> DEFINE S == Snapshots(Bound) \cup Snapshots(b)
<1>2. writes \in Seq(S) /\ w \in S
  <2>1. writes \in Seq(Snapshots(Bound))
    BY Parts
  <2> QED BY <2>1, SeqMonotonic
<1> HIDE DEF S
<1>3. /\ Len(writes) \in Nat /\ DOMAIN writes = 1..Len(writes)
      /\ DOMAIN writes' = 1..Len(writes')
  BY <1>1, <1>2, LenProperties, AppendProperties
<1>4. /\ Len(writes') = Len(writes) + 1
      /\ \A i \in 1..Len(writes) : writes'[i] = writes[i]
      /\ writes'[Len(writes) + 1] = w
  BY <1>1, <1>2, AppendProperties
<1> QED BY <1>1, <1>3, <1>4

LEMMA TailIndices ==
    ASSUME Typed, writes # <<>>, writes' = Tail(writes)
    PROVE  LET n == Len(writes) IN
           /\ n \in Nat /\ n >= 1 /\ DOMAIN writes = 1..n /\ DOMAIN writes' = 1..(n - 1)
           /\ \A i \in 1..(n - 1) : writes'[i] = writes[i + 1]
           /\ Head(writes) = writes[1]
<1>1. writes \in Seq(Snapshots(Bound))
  BY Parts
<1>2. /\ Len(writes) \in Nat /\ DOMAIN writes = 1..Len(writes)
      /\ DOMAIN writes' = 1..Len(writes')
  BY <1>1, LenProperties, HeadTailProperties
<1>3. /\ Len(writes') = Len(writes) - 1
      /\ \A i \in 1..Len(writes') : writes'[i] = writes[i + 1]
  BY <1>1, HeadTailProperties
<1>4. Len(writes) >= 1
  BY <1>1, EmptySeq
<1>5. Head(writes) = writes[1]
  BY SMT
<1> QED BY <1>2, <1>3, <1>4, <1>5

LEMMA GrowsMarks ==
    ASSUME Typed, NEW by, NEW j, Appends(by, j), NEW a, NEW i
    PROVE  /\ Marked(a, i)' <=> Marked(a, i) \/ (a = by /\ i = j)
           /\ Single(a, i) /\ (a = by /\ i = j => ~Marked(a, i)) => Single(a, i)'
<1>1. PICK n \in Nat :
      /\ n \in Nat /\ DOMAIN writes = 1..n /\ DOMAIN writes' = 1..(n + 1)
      /\ \A k \in 1..n : writes'[k] = writes[k]
      /\ writes'[n + 1].by = by /\ writes'[n + 1].job = j
  BY AppendIndices
<1>2. \A k \in 1..n : Marks(k, a, i)' <=> Marks(k, a, i)
  BY <1>1 DEF Marks
<1>3. Marks(n + 1, a, i)' <=> a = by /\ i = j
  BY <1>1 DEF Marks
<1>4. \A k \in 1..(n + 1) : k \in 1..n \/ k = n + 1
  BY <1>1
<1>5. Marked(a, i)' <=> Marked(a, i) \/ (a = by /\ i = j)
  <2>1. 1..n \subseteq 1..(n + 1) /\ n + 1 \in 1..(n + 1)
    BY <1>1
  <2> QED BY <1>1, <1>2, <1>3, <1>4, <2>1 DEF Marked
<1>6. Single(a, i) /\ (a = by /\ i = j => ~Marked(a, i)) => Single(a, i)'
  BY <1>1, <1>2, <1>3, <1>4 DEF Marked, Single
<1> QED BY <1>5, <1>6

LEMMA ShrinksMarks ==
    ASSUME Typed, writes # <<>>, writes' = Tail(writes), NEW a, NEW i
    PROVE  /\ Marked(a, i)' => Marked(a, i)
           /\ ~(Head(writes).by = a /\ Head(writes).job = i) => (Marked(a, i)' <=> Marked(a, i))
           /\ Single(a, i) => Single(a, i)'
           /\ Head(writes).by = a /\ Head(writes).job = i => Marked(a, i)
           /\ Single(a, i) /\ Head(writes).by = a /\ Head(writes).job = i => ~Marked(a, i)'
<1>1. PICK n \in Nat :
      /\ n \in Nat /\ n >= 1 /\ DOMAIN writes = 1..n /\ DOMAIN writes' = 1..(n - 1)
      /\ \A k \in 1..(n - 1) : writes'[k] = writes[k + 1]
      /\ Head(writes) = writes[1]
  BY TailIndices
<1>2. \A k \in 1..(n - 1) : (Marks(k, a, i)' <=> Marks(k + 1, a, i)) /\ k + 1 \in 1..n /\ k + 1 # 1
  BY <1>1 DEF Marks
<1>3. Marks(1, a, i) <=> Head(writes).by = a /\ Head(writes).job = i
  BY <1>1 DEF Marks
<1>4. \A k \in 1..n : k = 1 \/ (k - 1 \in 1..(n - 1) /\ k - 1 + 1 = k)
  BY <1>1
<1>5. 1 \in 1..n
  BY <1>1
<1>6. Marked(a, i)' => Marked(a, i)
  BY <1>1, <1>2 DEF Marked
<1>7. ~Marks(1, a, i) /\ Marked(a, i) => Marked(a, i)'
  <2> SUFFICES ASSUME ~Marks(1, a, i), NEW k \in 1..n, Marks(k, a, i) PROVE Marked(a, i)'
    BY <1>1 DEF Marked
  <2>1. k - 1 \in 1..(n - 1) /\ k - 1 + 1 = k
    BY <1>4
  <2>2. Marks(k - 1, a, i)'
    <3> DEFINE l == k - 1
    <3>1. l \in 1..(n - 1) /\ l + 1 = k
      BY <2>1
    <3> HIDE DEF l
    <3>2. writes'[l] = writes[k]
      BY <1>1, <3>1
    <3>3. Marks(l, a, i)'
      BY <3>2 DEF Marks
    <3> QED BY <3>3 DEF l
  <2> QED BY <1>1, <2>1, <2>2 DEF Marked
<1>8. Single(a, i) => Single(a, i)'
  <2> SUFFICES ASSUME Single(a, i), NEW k \in 1..(n - 1), NEW m \in 1..(n - 1), Marks(k, a, i)', Marks(m, a, i)'
               PROVE  k = m
    BY <1>1 DEF Single
  <2>1. k + 1 = m + 1
    BY <1>1, <1>2 DEF Single
  <2> QED BY <1>1, <2>1
<1>9. Marks(1, a, i) => Marked(a, i)
  BY <1>1, <1>5 DEF Marked
<1>10. Single(a, i) /\ Marks(1, a, i) => ~Marked(a, i)'
  <2> SUFFICES ASSUME Single(a, i), Marks(1, a, i), NEW k \in 1..(n - 1), Marks(k, a, i)' PROVE FALSE
    BY <1>1 DEF Marked
  <2> QED BY <1>1, <1>2, <1>5 DEF Single
<1> QED BY <1>3, <1>6, <1>7, <1>8, <1>9, <1>10

(* The copies of a job after a step, and those since a mark.               *)
LEMMA PastMove ==
    ASSUME Typed, Chain, NEW j
    PROVE  /\ Past(j)' \subseteq Past(j) \cup {jobs'[j]}
           /\ stored'[j] \in {stored[j]} \cup Past(j)
           /\ loaded'[j] \in {loaded[j], stored[j], Empty[j]}
<1>1. ASSUME Grows
      PROVE  Past(j)' \subseteq Past(j) \cup {jobs'[j]} /\ stored'[j] \in {stored[j]} \cup Past(j)
  <2>1. PICK by \in Writers, i \in Jobs : Appends(by, i)
    BY <1>1 DEF Grows
  <2>2. PICK n \in Nat :
        /\ n \in Nat /\ DOMAIN writes = 1..n /\ DOMAIN writes' = 1..(n + 1)
        /\ \A k \in 1..n : writes'[k] = writes[k]
        /\ writes'[n + 1].jobs = jobs' /\ stored' = stored
    BY <2>1, AppendIndices
  <2>3. \A k \in 1..(n + 1) : k \in 1..n \/ k = n + 1
    BY <2>2
  <2> QED BY <2>2, <2>3 DEF Past
<1>2. ASSUME Shrinks
      PROVE  Past(j)' \subseteq Past(j) \cup {jobs'[j]} /\ stored'[j] \in {stored[j]} \cup Past(j)
  <2>1. PICK n \in Nat :
        /\ n \in Nat /\ n >= 1 /\ DOMAIN writes = 1..n /\ DOMAIN writes' = 1..(n - 1)
        /\ \A k \in 1..(n - 1) : writes'[k] = writes[k + 1]
        /\ Head(writes) = writes[1]
    BY <1>2, TailIndices DEF Shrinks
  <2>2. 1 \in 1..n /\ \A k \in 1..(n - 1) : k + 1 \in 1..n
    BY <2>1
  <2> QED BY <1>2, <2>1, <2>2 DEF Past, Shrinks
<1>3. ASSUME Stays \/ Wiped
      PROVE  Past(j)' \subseteq Past(j) \cup {jobs'[j]} /\ stored'[j] \in {stored[j]} \cup Past(j)
  BY <1>3 DEF Stays, Wiped, Past
<1> QED BY <1>1, <1>2, <1>3 DEF Chain

LEMMA CopiesMove ==
    ASSUME Typed, Chain, NEW j \in Jobs
    PROVE  Copies(j)' \subseteq Copies(j) \cup {jobs'[j], NoEntry}
BY PastMove DEF Copies, Empty

LEMMA SinceMove ==
    ASSUME Typed, Chain, NEW by, NEW j
    PROVE  /\ Since(by, j)' \subseteq Since(by, j) \cup {jobs'[j]}
           /\ ~Marked(by, j) => Since(by, j)' = {jobs'[j]}
<1>0. PICK n \in Nat : n = Len(writes) /\ DOMAIN writes = 1..n
  BY Indices
<1>1. CASE Grows
  <2>1. PICK a \in Writers, i \in Jobs : Appends(a, i)
    BY <1>1 DEF Grows
  <2>2. /\ DOMAIN writes' = 1..(n + 1)
        /\ \A k \in 1..n : writes'[k] = writes[k]
        /\ writes'[n + 1].jobs = jobs'
    BY <1>0, <2>1, AppendIndices
  <2>3. ASSUME NEW k \in 1..(n + 1), NEW m \in 1..(n + 1), m <= k, Marks(m, by, j)', k # n + 1
        PROVE  /\ k \in 1..n /\ m \in 1..n /\ Marks(m, by, j) /\ writes'[k].jobs[j] = writes[k].jobs[j]
    <3>1. k \in 1..n /\ m \in 1..n
      BY <1>0, <2>3
    <3> QED BY <2>2, <2>3, <3>1 DEF Marks
  <2>4. ASSUME NEW k \in 1..(n + 1), NEW m \in 1..(n + 1), m <= k, Marks(m, by, j)'
        PROVE  writes'[k].jobs[j] \in Since(by, j) \cup {jobs'[j]} /\ (~Marked(by, j) => k = n + 1)
    <3>1. CASE k = n + 1
      BY <2>2, <3>1
    <3>2. CASE k # n + 1
      BY <1>0, <2>3, <2>4, <3>2 DEF Since, Marked
    <3> QED BY <3>1, <3>2
  <2> QED BY <2>2, <2>4 DEF Since
<1>2. CASE Shrinks
  <2>1. /\ n >= 1 /\ DOMAIN writes' = 1..(n - 1)
        /\ \A k \in 1..(n - 1) : writes'[k] = writes[k + 1]
    BY <1>0, <1>2, TailIndices DEF Shrinks
  <2>2. ASSUME NEW k \in 1..(n - 1), NEW m \in 1..(n - 1), m <= k, Marks(m, by, j)'
        PROVE  writes'[k].jobs[j] \in Since(by, j) /\ Marked(by, j)
    <3>1. k + 1 \in 1..n /\ m + 1 \in 1..n /\ m + 1 <= k + 1
      BY <1>0, <2>1, <2>2
    <3>2. Marks(m + 1, by, j) /\ writes'[k].jobs[j] = writes[k + 1].jobs[j]
      BY <2>1, <2>2 DEF Marks
    <3> QED BY <1>0, <3>1, <3>2 DEF Since, Marked
  <2> QED BY <2>1, <2>2 DEF Since
<1>3. CASE Stays \/ Wiped
  BY <1>3 DEF Stays, Wiped, Since, Marked, Marks
<1> QED BY <1>1, <1>2, <1>3 DEF Chain

LEMMA Cut ==
    ASSUME Typed, NEW by, NEW j, Shrinks, stored' = Head(writes).jobs,
           Head(writes).by = by, Head(writes).job = j
    PROVE  stored'[j] \in Since(by, j) /\ Past(j)' \subseteq Since(by, j)
<1>1. PICK n \in Nat :
      /\ n \in Nat /\ n >= 1 /\ DOMAIN writes = 1..n /\ DOMAIN writes' = 1..(n - 1)
      /\ \A k \in 1..(n - 1) : writes'[k] = writes[k + 1]
      /\ Head(writes) = writes[1]
  BY TailIndices DEF Shrinks
<1>2. Marks(1, by, j) /\ 1 \in 1..n
  BY <1>1 DEF Marks
<1>3. \A k \in 1..n : writes[k].jobs[j] \in Since(by, j)
  <2> SUFFICES ASSUME NEW k \in 1..n PROVE writes[k].jobs[j] \in Since(by, j)
    OBVIOUS
  <2>1. 1 <= k
    BY <1>1
  <2> QED BY <1>1, <1>2, <2>1 DEF Since
<1>4. \A k \in 1..(n - 1) : k + 1 \in 1..n
  BY <1>1
<1> QED BY <1>1, <1>2, <1>3, <1>4 DEF Past

LEMMA SincePart == ASSUME NEW by, NEW j PROVE jobs[j] \in Since(by, j) /\ Since(by, j) \subseteq Copies(j)
BY DEF Since, Copies, Past

(* What each action does to the chain of writes.                           *)
LEMMA CommitAppends ==
    ASSUME Typed', NEW next, NEW by \in Writers, NEW j \in Jobs, NEW m \in Versions,
           Commit(next, by, j, m), stored' = stored
    PROVE  Appends(by, j) /\ jobs' = next
<1>1. jobs' = next /\ writes' = Append(writes, [jobs |-> next, by |-> by, job |-> j, media |-> m])
  BY DEF Commit
<1>2. Bound' \in Nat /\ jobs' \in Queues(Bound')
  BY BoundIsNat DEF Typed, DataTyped, QueuesTyped, UsedTyped, Bound
<1> DEFINE w == [jobs |-> jobs', by |-> by, job |-> j, media |-> m]
<1>3. w \in Snapshots(Bound')
  BY <1>2 DEF Snapshots, Writers
<1>4. w.jobs = jobs' /\ w.by = by /\ w.job = j /\ writes' = Append(writes, w)
  BY <1>1
<1> HIDE DEF w
<1> QED BY <1>1, <1>2, <1>3, <1>4 DEF Appends

LEMMA Names == /\ "nobody" \in Writers /\ "worker" \in Writers /\ "form" \in Writers /\ "discard" \in Writers
               /\ 0 \in Versions
BY Limits DEF Writers, Versions

LEMMA BootChain ==
    ASSUME Typed, Typed'
    PROVE  /\ Load => Stays /\ jobs' = jobs /\ loaded' \in {stored, Empty}
           /\ Hydrate => (Stays \/ Appends("nobody", AnyJob)) /\ loaded' = Empty /\ jobs' = Restored
<1>1. Load => Stays /\ jobs' = jobs /\ loaded' \in {stored, Empty}
  BY DEF Load, Stays
<1>2. ASSUME Hydrate PROVE (Stays \/ Appends("nobody", AnyJob)) /\ loaded' = Empty /\ jobs' = Restored
  <2>1. CASE Commit(Restored, "nobody", AnyJob, 0)
    <3>1. stored' = stored /\ loaded' = Empty
      BY <1>2 DEF Hydrate
    <3> QED BY <2>1, <3>1, CommitAppends, Names, AnyJobIsOne
  <2>2. CASE jobs' = Restored /\ UNCHANGED writes
    BY <1>2, <2>2 DEF Hydrate, Stays
  <2> QED BY <1>2, <2>1, <2>2 DEF Hydrate
<1> QED BY <1>1, <1>2

LEMMA UserChain ==
    ASSUME Typed, Typed', NEW j \in Jobs
    PROVE  /\ EnqueueNew(j) => Appends("form", j) /\ jobs' = [jobs EXCEPT ![j] = Queued(1, 1, FALSE)]
           /\ OpenReview(j) \/ Submit(j) => Stays /\ jobs' = jobs
           /\ Place(j) => Appends("form", j) /\ jobs' = Update(j, form[j].entry)
           /\ Retry(j) => /\ Appends("nobody", j) /\ Revises(jobs[j], jobs'[j])
                          /\ jobs' = [jobs EXCEPT ![j] = jobs'[j]] /\ jobs'[j].status = "queued"
           /\ Discard(j) => Appends("discard", j) /\ jobs' = [jobs EXCEPT ![j] = NoEntry]
           /\ TimerFires(j) => Appends("nobody", j) /\ jobs' = [jobs EXCEPT ![j] = NoEntry]
<1>0. jobs[j] \in Entry /\ jobs[j].media \in Versions /\ jobs \in Queues(Bound)
  BY Parts DEF Entry
<1>1. EnqueueNew(j) => Appends("form", j) /\ jobs' = [jobs EXCEPT ![j] = Queued(1, 1, FALSE)]
  BY CommitAppends, Names DEF EnqueueNew
<1>2. OpenReview(j) \/ Submit(j) => Stays /\ jobs' = jobs
  BY DEF OpenReview, Submit, Stays
<1>3. Place(j) => Appends("form", j) /\ jobs' = Update(j, form[j].entry)
  BY CommitAppends, Names DEF Place
<1>4. ASSUME Retry(j)
      PROVE  /\ Appends("nobody", j) /\ Revises(jobs[j], jobs'[j])
             /\ jobs' = [jobs EXCEPT ![j] = jobs'[j]] /\ jobs'[j].status = "queued"
  <2> DEFINE e == [jobs[j] EXCEPT !.status = "queued", !.attempts = 0, !.retryable = FALSE]
  <2>1. Revises(jobs[j], e) /\ e.status = "queued"
    BY <1>0, <1>4 DEF Retry, Offered, Revises, Here, Entry
  <2>2. Commit([jobs EXCEPT ![j] = e], "nobody", j, 0)
    BY <1>4 DEF Retry
  <2> HIDE DEF e
  <2>3. Appends("nobody", j) /\ jobs' = [jobs EXCEPT ![j] = e]
    BY <1>4, <2>2, CommitAppends, Names DEF Retry
  <2>4. jobs'[j] = e
    BY <1>0, <2>3 DEF Queues
  <2> QED BY <2>1, <2>3, <2>4
<1>5. Discard(j) => Appends("discard", j) /\ jobs' = [jobs EXCEPT ![j] = NoEntry]
  BY <1>0, CommitAppends, Names DEF Discard
<1>6. TimerFires(j) => Appends("nobody", j) /\ jobs' = [jobs EXCEPT ![j] = NoEntry]
  BY CommitAppends, Names DEF TimerFires
<1> QED BY <1>1, <1>2, <1>3, <1>4, <1>5, <1>6

LEMMA StoreChain == ASSUME StoreStep PROVE Shrinks /\ loaded' = loaded
BY DEF StoreStep, StoreForWorker, StoreForForm, StoreForOthers, Stores, Shrinks

(* A step of the worker: between two awaits of a write it either commits   *)
(* nothing, or commits its job and awaits that.                            *)
Silent == Stays /\ jobs' = jobs /\ worker.at \notin Waits /\ worker'.at \notin Waits
Commits(j) ==
    /\ Appends("worker", j) /\ WorkerCommits(j)
    /\ worker'.job = j /\ worker'.at \in Waits /\ worker.at \notin Waits
    /\ worker.job = j \/ Start(j)
    /\ jobs'[j].status = "success" => (Answered /\ worker.job = j) \/ jobs[j].status = "success"

LEMMA FailCommits ==
    ASSUME Typed, Typed', NEW error, Fail(error), stored' = stored, worker.at \notin Waits
    PROVE  Silent \/ Commits(worker.job)
<1> DEFINE j == worker.job
<1>0. j \in Jobs /\ jobs \in [Jobs -> Fitting(Bound)]
  BY Parts DEF Queues
<1>1. CASE Rest /\ UNCHANGED <<jobs, writes>>
  <2>1. worker'.at = "idle"
    BY <1>1, RestTyped
  <2> QED BY <1>1, <2>1 DEF Silent, Stays, Waits
<1>2. ASSUME NEW f, Revises(jobs[j], f), f.status \in {"queued", "failed"},
             Commit([jobs EXCEPT ![j] = f], "worker", j, 0), Leave("recording")
      PROVE  Commits(j)
  <2>1. worker'.at = "recording" /\ worker'.job = j /\ "recording" \in Waits
    BY <1>2, LeaveTyped DEF Waits
  <2>2. Appends("worker", j) /\ jobs' = [jobs EXCEPT ![j] = f]
    BY <1>0, <1>2, CommitAppends, Names
  <2>3. WorkerCommits(j)
    BY <1>2 DEF WorkerCommits, Revises
  <2>4. jobs'[j] = f
    BY <1>0, <2>2
  <2> QED BY <1>2, <2>1, <2>2, <2>3, <2>4 DEF Commits
<1> QED BY <1>1, <1>2, FailShape

LEMMA WorkMoves ==
    ASSUME Typed, Typed', WorkerBlock \/ WorkerStep
    PROVE  (Silent \/ \E j \in Jobs : Commits(j)) /\ loaded' = loaded
<1>0. worker.job \in Jobs /\ jobs \in [Jobs -> Fitting(Bound)] /\ \A j \in Jobs : jobs[j] \in Entry
  BY Parts DEF Queues
<1>a. ASSUME NEW j \in Jobs, WorkerCommits(j), stored' = stored PROVE Appends("worker", j)
  BY <1>a, CommitAppends, Names DEF WorkerCommits
<1>2. ASSUME NEW j \in Jobs, Start(j) PROVE Commits(j) /\ loaded' = loaded
  <2>1. WorkerCommits(j) /\ jobs'[j].status = "uploading"
    <3>1. WorkerCommits(j) /\ jobs' = [jobs EXCEPT ![j] = [jobs[j] EXCEPT !.status = "uploading"]]
      BY <1>2, StartCommits
    <3>2. jobs'[j] = [jobs[j] EXCEPT !.status = "uploading"]
      BY <1>0, <3>1
    <3> QED BY <1>0, <3>1, <3>2 DEF Entry
  <2>2. worker' = [Idle EXCEPT !.at = "started", !.job = j] /\ worker = Idle /\ UNCHANGED <<stored, loaded>>
    BY <1>2 DEF Start
  <2>3. worker'.at = "started" /\ worker'.job = j
    BY <2>2, IdleTyped DEF Worker
  <2>4. worker.at = "idle"
    BY <2>2, IdleTyped
  <2> QED BY <1>a, <1>2, <2>1, <2>2, <2>3, <2>4 DEF Commits, Waits
<1>3. CASE Uploaded
  <2> DEFINE j == worker.job
  <2>1. /\ WorkerCommits(j)
        /\ jobs' = IF Here(jobs[j]) /\ jobs[j].media = worker.media
                   THEN [jobs EXCEPT ![j] = [jobs[j] EXCEPT !.prepared = TRUE]] ELSE jobs
    BY <1>3, UploadedCommits
  <2>2. jobs'[j].status = jobs[j].status
    <3>1. jobs'[j] \in {jobs[j], [jobs[j] EXCEPT !.prepared = TRUE]}
      BY <1>0, <2>1
    <3> QED BY <1>0, <3>1 DEF Entry
  <2>3. worker.at = "upload" /\ worker'.at = "prepared" /\ worker'.job = j /\ UNCHANGED <<stored, loaded>>
    BY <1>3, LeaveTyped DEF Uploaded, Waits
  <2> QED BY <1>0, <1>a, <2>1, <2>2, <2>3 DEF Commits, Waits
<1>4. CASE UploadFails \/ Broken \/ SaveFails
  <2>1. PICK error : Fail(error)
    BY <1>4 DEF UploadFails, Broken, SaveFails
  <2>2. worker.at \notin Waits /\ UNCHANGED <<stored, loaded>>
    BY <1>4 DEF UploadFails, Broken, SaveFails, Waits
  <2> QED BY <1>0, <2>1, <2>2, FailCommits
<1>5. CASE Answered
  <2> DEFINE j == worker.job
  <2>1. WorkerCommits(j)
    BY <1>5, AnsweredCommits
  <2>3. worker.at = "saving" /\ worker'.at = "closing" /\ worker'.job = j /\ UNCHANGED <<stored, loaded>>
    BY <1>5, LeaveTyped DEF Answered, Waits
  <2> QED BY <1>0, <1>5, <1>a, <2>1, <2>3 DEF Commits, Waits
<1>7. CASE UploadBegins
  <2>1. Stays /\ jobs' = jobs /\ worker.at = "upload" /\ loaded' = loaded /\ worker'.at \in {"upload", "ready"}
    <3>1. worker \in Worker
      BY Parts
    <3> QED BY <1>7, <3>1 DEF UploadBegins, Stays, Worker
  <2> QED BY <2>1 DEF Silent, Waits
<1>8. CASE Ready
  <2> DEFINE j == worker.job
  <2>0. worker.at = "ready" /\ UNCHANGED <<stored, loaded>>
    BY <1>8 DEF Ready
  <2>1. CASE Fail("final")
    BY <1>0, <2>0, <2>1, FailCommits DEF Waits
  <2>2. CASE /\ Here(jobs[j]) /\ jobs[j].prepared /\ WorkerCommits(j)
             /\ jobs' = [jobs EXCEPT ![j] = [jobs[j] EXCEPT !.status = "saving"]]
             /\ worker' = [worker EXCEPT !.at = "entering", !.media = jobs[j].media]
    <3>1. jobs'[j].status = "saving"
      <4>1. jobs'[j] = [jobs[j] EXCEPT !.status = "saving"]
        BY <1>0, <2>2
      <4> QED BY <1>0, <4>1 DEF Entry
    <3>2. worker'.at = "entering" /\ worker'.job = j
      BY <2>2, Parts DEF Worker
    <3> QED BY <1>0, <1>a, <2>0, <2>2, <3>1, <3>2 DEF Commits, Waits
  <2> QED BY <1>8, <2>1, <2>2, ReadyCommits
<1>9. CASE Send
  <2> DEFINE j == worker.job
  <2>0. worker.at = "send" /\ UNCHANGED <<stored, loaded>>
    BY <1>9 DEF Send
  <2>1. CASE ~Here(jobs[j])
    <3>1. worker'.at = "idle" /\ UNCHANGED <<jobs, writes>>
      BY <1>9, <2>1, RestTyped DEF Send
    <3> QED BY <2>0, <3>1 DEF Silent, Stays, Waits
  <2>2. CASE Here(jobs[j]) /\ user = NoOne
    <3>1. Fail("final")
      BY <1>9, <2>2 DEF Send
    <3> QED BY <1>0, <2>0, <3>1, FailCommits DEF Waits
  <2>3. CASE Here(jobs[j]) /\ user # NoOne
    <3>1. worker' = [worker EXCEPT !.at = "saving", !.media = 0, !.by = user] /\ UNCHANGED <<jobs, writes>>
      BY <1>9, <2>3 DEF Send
    <3>2. worker'.at = "saving"
      BY <3>1, Parts DEF Worker
    <3> QED BY <2>0, <3>1, <3>2 DEF Silent, Stays, Waits
  <2> QED BY <2>1, <2>2, <2>3
<1>10. CASE Close
  <2>1. worker.at = "close" /\ worker'.at = "idle" /\ UNCHANGED <<jobs, stored, writes, loaded>>
    BY <1>10, RestTyped DEF Close
  <2> QED BY <2>1 DEF Silent, Stays, Waits
<1> QED BY <1>2, <1>3, <1>4, <1>5, <1>7, <1>8, <1>9, <1>10 DEF WorkerBlock, WorkerStep

LEMMA WorldChain ==
    /\ (SignIn \/ \E r \in requests : Serve(r)) => Stays /\ jobs' = jobs /\ loaded' = loaded
    /\ Kill => Wiped /\ jobs' = Empty /\ loaded' = Empty
BY DEF SignIn, Serve, Kill, Stays, Wiped
-----------------------------------------------------------------------------
LEMMA NextChain == ASSUME Typed, [Next]_vars PROVE Chain /\ Typed'
<1>0. Typed'
  BY NextTyped
<1>1. AnyJob \in Jobs
  BY AnyJobIsOne
<1>2. CASE Load \/ Hydrate
  BY <1>0, <1>1, <1>2, BootChain, Names DEF Chain, Grows
<1>3. ASSUME NEW j \in Jobs, \/ EnqueueNew(j) \/ OpenReview(j) \/ Submit(j) \/ Place(j)
                             \/ Retry(j) \/ Discard(j) \/ TimerFires(j)
      PROVE  Chain
  <2>1. loaded' = loaded
    BY <1>3 DEF EnqueueNew, OpenReview, Submit, Place, Retry, Discard, TimerFires
  <2> QED BY <1>0, <1>3, <2>1, UserChain, Names DEF Chain, Grows
<1>4. CASE StoreStep
  BY <1>0, <1>4, StoreChain DEF Chain
<1>5. CASE WorkerBlock \/ WorkerStep
  BY <1>0, <1>5, WorkMoves, Names DEF Chain, Grows, Silent, Commits
<1>6. CASE SignIn \/ Kill \/ \E r \in requests : Serve(r)
  BY <1>0, <1>6, WorldChain DEF Chain
<1>7. CASE UNCHANGED vars
  BY <1>0, <1>7 DEF vars, Chain, Stays
<1>8. CASE Next
  BY <1>0, <1>2, <1>3, <1>4, <1>5, <1>6, <1>8 DEF Next
<1> QED BY <1>0, <1>7, <1>8

(* What becomes of the entry of a job in a step.                           *)
Revised(j) ==
    /\ Revises(jobs[j], jobs'[j])
    /\ WorkerBlock \/ WorkerStep \/ Retry(j)
    /\ jobs'[j].status = "success" => (Answered /\ worker.job = j) \/ jobs[j].status = "success"
Dropped(j) == jobs'[j] = NoEntry /\ (Discard(j) \/ TimerFires(j) \/ Kill)
Revived(j) == Hydrate /\ jobs'[j] = Restored[j]
Created(j) == EnqueueNew(j) /\ jobs'[j] = Queued(1, 1, FALSE)
Placed(j) == Place(j) /\ Here(jobs[j]) /\ jobs'[j] = form[j].entry
PutBack(j) ==
    /\ StoreForForm /\ Head(writes).by = "form" /\ Head(writes).job = j /\ Here(jobs[j])
    /\ jobs'[j] = form[j].source /\ j \in ghost'.rejected /\ stored' = stored /\ form'[j] = Closed
Fate(j) ==
    \/ jobs'[j] = jobs[j] \/ Revised(j) \/ Dropped(j) \/ Revived(j) \/ Created(j) \/ Placed(j)
    \/ PutBack(j)

LEMMA StoreFate == ASSUME Typed, StoreForForm, NEW j \in Jobs PROVE jobs'[j] = jobs[j] \/ PutBack(j)
<1> DEFINE i == Head(writes).job
<1>1. PICK ok \in BOOLEAN :
        /\ Stores(ok)
        /\ jobs' = IF ok THEN jobs ELSE Update(i, form[i].source)
        /\ form' = [form EXCEPT ![i] = Closed]
        /\ ghost' = IF ok THEN [ghost EXCEPT !.accepted = @ \cup {i}]
                    ELSE [ghost EXCEPT !.rejected = @ \cup {i}]
        /\ Head(writes).by = "form"
  BY DEF StoreForForm
<1>2. jobs \in [Jobs -> Fitting(Bound)] /\ form \in [Jobs -> Editors(Bound)]
  BY Parts DEF Queues
<1>3. CASE ok \/ ~Here(jobs[i]) \/ i # j
  BY <1>1, <1>2, <1>3 DEF Update
<1>4. CASE ~ok /\ Here(jobs[i]) /\ i = j
  <2>1. jobs' = [jobs EXCEPT ![j] = form[j].source] /\ stored' = stored
    BY <1>1, <1>4 DEF Update, Stores
  <2>2. j \in ghost'.rejected
    BY <1>1, <1>4 DEF Typed, OtherTyped, Ghost
  <2>3. form'[j] = Closed
    BY <1>1, <1>2, <1>4
  <2> QED BY <1>1, <1>2, <1>4, <2>1, <2>2, <2>3 DEF PutBack
<1> QED BY <1>3, <1>4

LEMMA NextFate == ASSUME Typed, [Next]_vars, NEW j \in Jobs PROVE Fate(j)
<1>0. Typed' /\ jobs \in [Jobs -> Fitting(Bound)]
  BY NextTyped, Parts DEF Queues
<1>1. CASE Load \/ Hydrate
  BY <1>0, <1>1, BootChain DEF Fate, Revived
<1>2. ASSUME NEW i \in Jobs, EnqueueNew(i) PROVE Fate(j)
  <2>1. jobs' = [jobs EXCEPT ![i] = Queued(1, 1, FALSE)]
    BY <1>0, <1>2, UserChain
  <2> QED BY <1>0, <1>2, <2>1 DEF Fate, Created
<1>3. ASSUME NEW i \in Jobs, OpenReview(i) \/ Submit(i) PROVE Fate(j)
  BY <1>0, <1>3, UserChain DEF Fate
<1>4. ASSUME NEW i \in Jobs, Place(i) PROVE Fate(j)
  <2>1. jobs' = Update(i, form[i].entry)
    BY <1>0, <1>4, UserChain
  <2> QED BY <1>0, <1>4, <2>1 DEF Fate, Placed, Update
<1>5. ASSUME NEW i \in Jobs, Retry(i) PROVE Fate(j)
  <2>1. /\ Revises(jobs[i], jobs'[i]) /\ jobs' = [jobs EXCEPT ![i] = jobs'[i]]
        /\ jobs'[i].status = "queued"
    BY <1>0, <1>5, UserChain
  <2>2. CASE i = j
    BY <1>5, <2>1, <2>2 DEF Fate, Revised
  <2>3. CASE i # j
    BY <1>0, <2>1, <2>3 DEF Fate
  <2> QED BY <2>2, <2>3
<1>6. ASSUME NEW i \in Jobs, Discard(i) \/ TimerFires(i) PROVE Fate(j)
  <2>1. jobs' = [jobs EXCEPT ![i] = NoEntry]
    BY <1>0, <1>6, UserChain
  <2> QED BY <1>0, <1>6, <2>1 DEF Fate, Dropped
<1>7. CASE StoreStep
  <2>1. CASE StoreForForm
    BY <2>1, StoreFate DEF Fate
  <2>2. CASE StoreForWorker \/ StoreForOthers
    BY <2>2 DEF StoreForWorker, StoreForOthers, Fate
  <2> QED BY <1>7, <2>1, <2>2 DEF StoreStep
<1>8. CASE WorkerBlock \/ WorkerStep
  <2>1. CASE Silent
    BY <2>1 DEF Silent, Fate
  <2>2. ASSUME NEW i \in Jobs, Commits(i) PROVE Fate(j)
    <3>1. CASE jobs' = jobs
      BY <3>1 DEF Fate
    <3>2. ASSUME NEW f, Revises(jobs[i], f), jobs' = [jobs EXCEPT ![i] = f] PROVE Fate(j)
      <4>1. CASE i = j
        <5>1. jobs'[j] = f
          BY <1>0, <3>2, <4>1
        <5> QED BY <1>8, <2>2, <3>2, <4>1, <5>1 DEF Commits, Fate, Revised
      <4>2. CASE i # j
        BY <1>0, <3>2, <4>2 DEF Fate
      <4> QED BY <4>1, <4>2
    <3> QED BY <2>2, <3>1, <3>2 DEF Commits, WorkerCommits, Commit
  <2> QED BY <1>0, <1>8, <2>1, <2>2, WorkMoves
<1>9. CASE SignIn \/ Kill \/ \E r \in requests : Serve(r)
  <2>1. Empty[j] = NoEntry
    BY DEF Empty
  <2> QED BY <1>9, <2>1, WorldChain DEF Fate, Dropped
<1>10. CASE UNCHANGED vars
  BY <1>10 DEF vars, Fate
<1>11. CASE Next
  BY <1>1, <1>2, <1>3, <1>4, <1>5, <1>6, <1>7, <1>8, <1>9, <1>11 DEF Next
<1> QED BY <1>10, <1>11

(* An entry comes to be there by an enqueue or a restoration only.         *)
LEMMA HereBefore ==
    ASSUME NEW j, Fate(j), Here(jobs'[j]), ~EnqueueNew(j), ~Hydrate
    PROVE  Here(jobs[j])
<1>1. ~Here(NoEntry)
  BY DEF NoEntry, Here
<1>2. ~Dropped(j) /\ ~Revived(j) /\ ~Created(j)
  BY <1>1 DEF Dropped, Revived, Created
<1>3. CASE jobs'[j] = jobs[j]
  BY <1>3
<1>4. CASE Revised(j) \/ Placed(j) \/ PutBack(j)
  BY <1>4 DEF Revised, Revises, Placed, PutBack
<1> QED BY <1>2, <1>3, <1>4 DEF Fate
-----------------------------------------------------------------------------
(* Who adds a mark, and that nothing else does.                            *)
Adds(by, j) ==
    \/ by = "form" /\ (EnqueueNew(j) \/ Place(j))
    \/ by = "discard" /\ Discard(j)
    \/ by = "worker" /\ Commits(j) /\ (WorkerBlock \/ WorkerStep)
Unmarked(by, j) == (Marked(by, j)' => Marked(by, j)) /\ (Single(by, j) => Single(by, j)')
Added(by, j) ==
    /\ Adds(by, j) /\ Marked(by, j)'
    /\ Single(by, j) /\ ~Marked(by, j) => Single(by, j)'

LEMMA NextMarks ==
    ASSUME Typed, [Next]_vars, NEW by \in Writers \ {"nobody"}, NEW j \in Jobs
    PROVE  Unmarked(by, j) \/ Added(by, j)
<1>0. Typed'
  BY NextTyped
<1>1. CASE Stays \/ Wiped
  BY <1>1 DEF Stays, Wiped, Unmarked, Marked, Single, Marks
<1>2. CASE Shrinks
  BY <1>2, ShrinksMarks DEF Shrinks, Unmarked
<1>3. ASSUME NEW a, NEW i, Appends(a, i), a = by /\ i = j => Adds(by, j)
      PROVE  Unmarked(by, j) \/ Added(by, j)
  BY <1>3, GrowsMarks DEF Unmarked, Added
<1>4. CASE Load \/ Hydrate
  BY <1>0, <1>1, <1>3, <1>4, BootChain
<1>5. ASSUME NEW i \in Jobs, \/ EnqueueNew(i) \/ OpenReview(i) \/ Submit(i) \/ Place(i)
                             \/ Retry(i) \/ Discard(i) \/ TimerFires(i)
      PROVE  Unmarked(by, j) \/ Added(by, j)
  <2>1. CASE EnqueueNew(i) \/ Place(i)
    BY <1>0, <1>3, <2>1, UserChain DEF Adds
  <2>2. CASE OpenReview(i) \/ Submit(i)
    BY <1>0, <1>1, <2>2, UserChain
  <2>3. CASE Discard(i)
    BY <1>0, <1>3, <2>3, UserChain DEF Adds
  <2>4. CASE Retry(i) \/ TimerFires(i)
    BY <1>0, <1>3, <2>4, UserChain
  <2> QED BY <1>5, <2>1, <2>2, <2>3, <2>4
<1>6. CASE StoreStep
  BY <1>2, <1>6, StoreChain
<1>7. CASE WorkerBlock \/ WorkerStep
  <2>1. CASE Silent
    BY <1>1, <2>1 DEF Silent
  <2>2. ASSUME NEW i \in Jobs, Commits(i) PROVE Unmarked(by, j) \/ Added(by, j)
    BY <1>3, <1>7, <2>2 DEF Commits, Adds
  <2> QED BY <1>0, <1>7, <2>1, <2>2, WorkMoves
<1>8. CASE SignIn \/ Kill \/ \E r \in requests : Serve(r)
  BY <1>1, <1>8, WorldChain
<1>9. CASE UNCHANGED vars
  BY <1>1, <1>9 DEF vars, Stays
<1>10. CASE Next
  BY <1>4, <1>5, <1>6, <1>7, <1>8, <1>10 DEF Next
<1> QED BY <1>9, <1>10
-----------------------------------------------------------------------------
(* One write of the worker is awaited, by it; one write of each editor.    *)
Waited == \A j \in Jobs :
    /\ Marked("worker", j) => worker.at \in Waits /\ worker.job = j
    /\ Single("worker", j)
Filed == \A j \in Jobs :
    /\ form[j].at = "storing" <=> Marked("form", j)
    /\ Single("form", j)

LEMMA InitMarks == ASSUME Init, NEW by, NEW j PROVE ~Marked(by, j) /\ Single(by, j)
BY DEF Init, Marked, Single

(* Who moves the worker: itself, what it waits for, and the system.        *)
LEMMA WorkerMoves ==
    ASSUME Typed, [Next]_vars, ~(WorkerBlock \/ WorkerStep), ~StoreForWorker, ~Kill
    PROVE  worker' = worker
<1>1. ASSUME NEW j \in Jobs, \/ EnqueueNew(j) \/ OpenReview(j) \/ Submit(j) \/ Place(j)
                             \/ Retry(j) \/ Discard(j) \/ TimerFires(j)
      PROVE  worker' = worker
  BY <1>1 DEF EnqueueNew, OpenReview, Submit, Place, Retry, Discard, TimerFires
<1>2. CASE Load \/ Hydrate \/ StoreForForm \/ StoreForOthers \/ SignIn \/ \E r \in requests : Serve(r)
  BY <1>2 DEF Load, Hydrate, StoreForForm, StoreForOthers, SignIn, Serve
<1>3. CASE UNCHANGED vars
  BY <1>3 DEF vars
<1>4. CASE Next
  BY <1>1, <1>2, <1>4 DEF Next, StoreStep
<1> QED BY <1>3, <1>4

LEMMA HeadTyped ==
    ASSUME Typed, writes # <<>>
    PROVE  Head(writes).job \in Jobs /\ Head(writes).by \in Writers /\ Head(writes).jobs \in Queues(Bound)
<1>1. writes \in Seq(Snapshots(Bound))
  BY Parts
<1>2. Head(writes) \in Snapshots(Bound)
  BY <1>1, HeadTailProperties
<1> QED BY <1>2 DEF Snapshots, Writers

LEMMA NextWaited == ASSUME Typed, Waited, [Next]_vars PROVE Waited'
<1> SUFFICES ASSUME NEW j \in Jobs
             PROVE  /\ Marked("worker", j)' => worker'.at \in Waits /\ worker'.job = j
                    /\ Single("worker", j)'
  BY DEF Waited
<1>0. Typed' /\ "worker" \in Writers \ {"nobody"}
  BY NextTyped, Names
<1>1. Unmarked("worker", j) \/ Added("worker", j)
  BY <1>0, NextMarks
<1>2. CASE Added("worker", j)
  <2>1. Commits(j)
    BY <1>2 DEF Added, Adds
  <2>2. ~Marked("worker", j)
    BY <2>1 DEF Commits, Waited
  <2> QED BY <1>2, <2>1, <2>2 DEF Added, Commits, Waited
<1>3. CASE Unmarked("worker", j)
  <2>1. Single("worker", j)'
    BY <1>3 DEF Waited, Unmarked
  <2>2. CASE worker' = worker
    BY <1>3, <2>1, <2>2 DEF Waited, Unmarked
  <2>3. CASE Kill
    <3>1. ~Marked("worker", j)'
      BY <2>3 DEF Kill, Marked
    <3> QED BY <2>1, <3>1
  <2>4. CASE StoreForWorker
    <3>1. writes # <<>> /\ writes' = Tail(writes) /\ Head(writes).by = "worker"
      BY <2>4 DEF StoreForWorker, Stores
    <3>2. ~Marked("worker", j)'
      <4>1. Head(writes).job \in Jobs
        BY <3>1, HeadTyped
      <4>2. Marked("worker", Head(writes).job)
        BY <3>1, ShrinksMarks
      <4>3. CASE Head(writes).job = j
        BY <3>1, <4>3, ShrinksMarks DEF Waited
      <4>4. CASE Head(writes).job # j
        BY <1>3, <4>1, <4>2, <4>4 DEF Waited, Unmarked
      <4> QED BY <4>3, <4>4
    <3> QED BY <2>1, <3>2
  <2>5. CASE WorkerBlock \/ WorkerStep
    <3>1. CASE Silent
      BY <1>3, <2>1, <3>1 DEF Silent, Waited, Unmarked
    <3>2. ASSUME NEW i \in Jobs, Commits(i) PROVE ~Marked("worker", j)' \/ i = j
      BY <1>3, <3>2 DEF Commits, Waited, Unmarked
    <3>3. ASSUME NEW i \in Jobs, Commits(i), i = j PROVE worker'.at \in Waits /\ worker'.job = j
      BY <3>3 DEF Commits
    <3> QED BY <1>0, <2>1, <2>5, <3>1, <3>2, <3>3, WorkMoves
  <2> QED BY <2>2, <2>3, <2>4, <2>5, WorkerMoves
<1> QED BY <1>1, <1>2, <1>3

(* Who moves the editors.                                                  *)
LEMMA FormMoves ==
    ASSUME Typed, [Next]_vars, NEW j \in Jobs
    PROVE  \/ form'[j] = form[j]
           \/ EnqueueNew(j) /\ form'[j] = [at |-> "storing", entry |-> Queued(1, 1, FALSE), source |-> NoEntry]
           \/ OpenReview(j) /\ form[j] = Closed /\ form'[j].at = "open" /\ form'[j].entry = jobs[j]
           \/ Submit(j) /\ form[j].at = "open" /\ form'[j].at = "media" /\ form'[j].source = jobs[j]
           \/ Place(j) /\ form[j].at = "media" /\ form'[j] = [form[j] EXCEPT !.at = "storing"]
           \/ StoreForForm /\ Head(writes).job = j /\ form'[j] = Closed
           \/ Kill /\ form'[j] = Closed
<1>0. form \in [Jobs -> Editors(Bound)]
  BY Parts
<1>1. ASSUME NEW i \in Jobs, EnqueueNew(i)
      PROVE  \/ form'[j] = form[j]
             \/ EnqueueNew(j) /\ form'[j] = [at |-> "storing", entry |-> Queued(1, 1, FALSE), source |-> NoEntry]
  BY <1>0, <1>1 DEF EnqueueNew
<1>2. ASSUME NEW i \in Jobs, OpenReview(i)
      PROVE  \/ form'[j] = form[j]
             \/ OpenReview(j) /\ form[j] = Closed /\ form'[j].at = "open" /\ form'[j].entry = jobs[j]
  <2>1. form' = [form EXCEPT ![i] = [Closed EXCEPT !.at = "open", !.entry = jobs[i]]] /\ form[i] = Closed
    BY <1>2 DEF OpenReview
  <2>2. CASE i = j
    <3>1. form'[j] = [Closed EXCEPT !.at = "open", !.entry = jobs[i]]
      BY <1>0, <2>1, <2>2
    <3>2. Closed \in Form
      BY ClosedFits, Parts DEF Editors
    <3>3. form'[j].at = "open" /\ form'[j].entry = jobs[j]
      BY <2>2, <3>1, <3>2 DEF Form
    <3> QED BY <1>2, <2>1, <2>2, <3>3
  <2>3. CASE i # j
    BY <1>0, <2>1, <2>3
  <2> QED BY <2>2, <2>3
<1>3. ASSUME NEW i \in Jobs, Submit(i)
      PROVE  \/ form'[j] = form[j]
             \/ Submit(j) /\ form[j].at = "open" /\ form'[j].at = "media" /\ form'[j].source = jobs[j]
  <2>1. PICK e : form' = [form EXCEPT ![i] = [at |-> "media", entry |-> e, source |-> jobs[i]]]
    BY <1>3 DEF Submit
  <2> QED BY <1>0, <1>3, <2>1 DEF Submit
<1>4. ASSUME NEW i \in Jobs, Place(i)
      PROVE  \/ form'[j] = form[j]
             \/ Place(j) /\ form[j].at = "media" /\ form'[j] = [form[j] EXCEPT !.at = "storing"]
  BY <1>0, <1>4 DEF Place
<1>5. CASE StoreForForm
  <2>1. form' = [form EXCEPT ![Head(writes).job] = Closed]
    BY <1>5 DEF StoreForForm
  <2> QED BY <1>0, <1>5, <2>1
<1>6. CASE Kill
  BY <1>6 DEF Kill
<1>7. ASSUME NEW i \in Jobs, Retry(i) \/ Discard(i) \/ TimerFires(i) PROVE form' = form
  BY <1>7 DEF Retry, Discard, TimerFires
<1>8. CASE Load \/ Hydrate \/ StoreForWorker \/ StoreForOthers \/ SignIn \/ \E r \in requests : Serve(r)
  BY <1>8 DEF Load, Hydrate, StoreForWorker, StoreForOthers, SignIn, Serve
<1>9. CASE WorkerBlock \/ WorkerStep
  BY <1>9 DEF WorkerBlock, WorkerStep, UploadBegins, Ready, Send, Close, Broken, Uploaded, UploadFails,
              Answered, SaveFails, Start
<1>10. CASE UNCHANGED vars
  BY <1>10 DEF vars
<1>11. CASE Next
  BY <1>1, <1>2, <1>3, <1>4, <1>5, <1>6, <1>7, <1>8, <1>9, <1>11 DEF Next, StoreStep
<1> QED BY <1>10, <1>11

LEMMA KeepsMark ==
    ASSUME Typed, [Next]_vars, NEW by, NEW j, Marked(by, j), ~Kill,
           StoreStep => ~(Head(writes).by = by /\ Head(writes).job = j)
    PROVE  Marked(by, j)'
<1>1. CASE Stays
  BY <1>1 DEF Stays, Marked, Marks
<1>2. CASE Grows
  BY <1>2, GrowsMarks DEF Grows
<1>3. CASE StoreStep /\ Shrinks
  BY <1>3, ShrinksMarks DEF Shrinks
<1> QED BY <1>1, <1>2, <1>3, NextChain DEF Chain

(* What the properties remember is never forgotten.                        *)
Remembers ==
    /\ ghost.born \subseteq ghost'.born /\ ghost.accepted \subseteq ghost'.accepted
    /\ ghost.rejected \subseteq ghost'.rejected /\ ghost.discarded \subseteq ghost'.discarded
    /\ ghost.crossed \subseteq ghost'.crossed /\ ghost.swapped \subseteq ghost'.swapped
    /\ ghost.reset => ghost'.reset

LEMMA NextRemembers ==
    ASSUME Typed, [Next]_vars
    PROVE  /\ Remembers
           /\ \A j \in Jobs : j \in ghost'.born /\ j \notin ghost.born => EnqueueNew(j)
           /\ \A j \in Jobs : j \in ghost'.accepted /\ j \notin ghost.accepted =>
                StoreForForm /\ Head(writes).job = j /\ stored' = Head(writes).jobs
           /\ ghost'.reset /\ ~ghost.reset => Load \/ \E j \in Jobs : EnqueueNew(j)
<1> DEFINE Goal ==
           /\ Remembers
           /\ \A j \in Jobs : j \in ghost'.born /\ j \notin ghost.born => EnqueueNew(j)
           /\ \A j \in Jobs : j \in ghost'.accepted /\ j \notin ghost.accepted =>
                StoreForForm /\ Head(writes).job = j /\ stored' = Head(writes).jobs
           /\ ghost'.reset /\ ~ghost.reset => Load \/ \E j \in Jobs : EnqueueNew(j)
<1> SUFFICES Goal
  OBVIOUS
<1>0. ghost \in Ghost
  BY DEF Typed, OtherTyped
<1>1. ASSUME ghost' = ghost PROVE Goal
  BY <1>1 DEF Remembers
<1>2. ASSUME NEW j \in Jobs, EnqueueNew(j) PROVE Goal
  <2>1. ghost' = [ghost EXCEPT !.born = @ \cup {j}, !.reset = @ \/ phase # "up"]
    BY <1>2 DEF EnqueueNew
  <2>2. /\ ghost'.born = ghost.born \cup {j} /\ ghost'.accepted = ghost.accepted
        /\ ghost'.rejected = ghost.rejected /\ ghost'.discarded = ghost.discarded
        /\ ghost'.crossed = ghost.crossed /\ ghost'.swapped = ghost.swapped
    BY <1>0, <2>1 DEF Ghost
  <2>3. ghost.reset => ghost'.reset
    BY <1>0, <2>1 DEF Ghost
  <2> QED BY <1>2, <2>2, <2>3 DEF Remembers
<1>3. ASSUME NEW j \in Jobs, Crossing(j) PROVE Goal
  <2>2. /\ ghost'.born = ghost.born /\ ghost'.accepted = ghost.accepted
        /\ ghost'.rejected = ghost.rejected /\ ghost'.discarded = ghost.discarded
        /\ ghost.crossed \subseteq ghost'.crossed /\ ghost'.swapped = ghost.swapped
        /\ ghost'.reset = ghost.reset
    BY <1>0, <1>3 DEF Crossing, Ghost
  <2> QED BY <2>2 DEF Remembers
<1>4. ASSUME NEW j \in Jobs, Discard(j) PROVE Goal
  <2>1. ghost' = [ghost EXCEPT !.discarded = @ \cup {j}]
    BY <1>4 DEF Discard
  <2>2. /\ ghost'.born = ghost.born /\ ghost'.accepted = ghost.accepted
        /\ ghost'.rejected = ghost.rejected /\ ghost'.discarded = ghost.discarded \cup {j}
        /\ ghost'.crossed = ghost.crossed /\ ghost'.swapped = ghost.swapped
        /\ ghost'.reset = ghost.reset
    BY <1>0, <2>1 DEF Ghost
  <2> QED BY <2>2 DEF Remembers
<1>5. CASE StoreForForm
  <2>1. PICK ok \in BOOLEAN :
          /\ Stores(ok)
          /\ ghost' = IF ok THEN [ghost EXCEPT !.accepted = @ \cup {Head(writes).job}]
                      ELSE [ghost EXCEPT !.rejected = @ \cup {Head(writes).job}]
    BY <1>5 DEF StoreForForm
  <2>3. CASE ok
    <3>1. /\ ghost'.born = ghost.born /\ ghost'.accepted = ghost.accepted \cup {Head(writes).job}
          /\ ghost'.rejected = ghost.rejected /\ ghost'.discarded = ghost.discarded
          /\ ghost'.crossed = ghost.crossed /\ ghost'.swapped = ghost.swapped
          /\ ghost'.reset = ghost.reset
      BY <1>0, <2>1, <2>3 DEF Ghost
    <3>2. stored' = Head(writes).jobs
      BY <2>1, <2>3 DEF Stores
    <3> QED BY <1>5, <3>1, <3>2 DEF Remembers
  <2>4. CASE ~ok
    <3>1. /\ ghost'.born = ghost.born /\ ghost'.accepted = ghost.accepted
          /\ ghost.rejected \subseteq ghost'.rejected /\ ghost'.discarded = ghost.discarded
          /\ ghost'.crossed = ghost.crossed /\ ghost'.swapped = ghost.swapped
          /\ ghost'.reset = ghost.reset
      BY <1>0, <2>1, <2>4 DEF Ghost
    <3> QED BY <3>1 DEF Remembers
  <2> QED BY <2>3, <2>4
<1>6. CASE Load
  <2>1. ghost' = ghost \/ ghost' = [ghost EXCEPT !.reset = TRUE]
    BY <1>6 DEF Load
  <2>2. /\ ghost'.born = ghost.born /\ ghost'.accepted = ghost.accepted
        /\ ghost'.rejected = ghost.rejected /\ ghost'.discarded = ghost.discarded
        /\ ghost'.crossed = ghost.crossed /\ ghost'.swapped = ghost.swapped
        /\ ghost.reset => ghost'.reset
    BY <1>0, <2>1 DEF Ghost
  <2> QED BY <1>6, <2>2 DEF Remembers
<1>7. CASE Send
  <2>1. ghost' = ghost \/ ghost' = [ghost EXCEPT !.swapped = IF user = Owner[worker.job] THEN @ ELSE @ \cup {worker.job}]
    BY <1>7 DEF Send
  <2>2. /\ ghost'.born = ghost.born /\ ghost'.accepted = ghost.accepted
        /\ ghost'.rejected = ghost.rejected /\ ghost'.discarded = ghost.discarded
        /\ ghost'.crossed = ghost.crossed /\ ghost.swapped \subseteq ghost'.swapped
        /\ ghost.reset = ghost'.reset
    BY <1>0, <2>1 DEF Ghost
  <2> QED BY <2>2 DEF Remembers
<1> HIDE DEF Goal
<1>8. CASE Hydrate \/ StoreForWorker \/ StoreForOthers \/ SignIn \/ Kill \/ (\E r \in requests : Serve(r))
  <2>1. ghost' = ghost
    BY <1>8 DEF Hydrate, StoreForWorker, StoreForOthers, SignIn, Kill, Serve
  <2> QED BY <1>1, <2>1
<1>9. CASE UploadBegins \/ Ready \/ Close \/ Broken \/ WorkerStep
  <2>1. ghost' = ghost
    BY <1>9 DEF UploadBegins, Ready, Close, Broken, WorkerStep, Uploaded, UploadFails, Answered, SaveFails, Start
  <2> QED BY <1>1, <2>1
<1>10. ASSUME NEW j \in Jobs, OpenReview(j) \/ Retry(j) \/ TimerFires(j) PROVE Goal
  <2>1. ghost' = ghost
    BY <1>10 DEF OpenReview, Retry, TimerFires
  <2> QED BY <1>1, <2>1
<1>11. ASSUME NEW j \in Jobs, Submit(j) \/ Place(j) PROVE Goal
  BY <1>3, <1>11 DEF Submit, Place
<1>12. CASE UNCHANGED vars
  BY <1>1, <1>12 DEF vars
<1>13. CASE Next
  BY <1>2, <1>4, <1>5, <1>6, <1>7, <1>8, <1>9, <1>10, <1>11, <1>13 DEF Next, WorkerBlock, StoreStep
<1> QED BY <1>12, <1>13
-----------------------------------------------------------------------------
(* The server's side of a job.                                             *)
Sent(j) ==
    {r.post : r \in {r \in requests : r.job = j}}
    \cup ({posted[<<u, j>>] : u \in Users} \ {NoPost})
Published(j) == \E u \in Users : posted[<<u, j>>] # NoPost
Posts(j) ==
    /\ Send /\ j = worker.job /\ Here(jobs[j]) /\ user \in Users
    /\ requests' = requests \cup {[user |-> user, job |-> j,
                     post |-> [version |-> jobs[j].version, media |-> worker.media]]}
    /\ j \in ghost'.swapped \/ user = Owner[j]

LEMMA PostedStays ==
    ASSUME Typed, [Next]_vars, NEW u \in Users, NEW j \in Jobs
    PROVE  /\ posted[<<u, j>>] # NoPost => posted'[<<u, j>>] = posted[<<u, j>>]
           /\ posted'[<<u, j>>] # posted[<<u, j>>] =>
                \E r \in requests : r.user = u /\ r.job = j /\ posted'[<<u, j>>] = r.post
<1>0. posted \in [Users \X Jobs -> Post]
  BY DEF Typed, ServerTyped
<1>1. CASE posted' = posted
  BY <1>1
<1>2. ASSUME NEW r \in requests, Serve(r)
      PROVE  /\ posted[<<u, j>>] # NoPost => posted'[<<u, j>>] = posted[<<u, j>>]
             /\ posted'[<<u, j>>] # posted[<<u, j>>] =>
                  r.user = u /\ r.job = j /\ posted'[<<u, j>>] = r.post
  <2>1. CASE posted[<<r.user, r.job>>] = NoPost
    <3>1. posted' = [posted EXCEPT ![<<r.user, r.job>>] = r.post]
      BY <1>2, <2>1 DEF Serve
    <3> QED BY <1>0, <2>1, <3>1
  <2>2. CASE posted[<<r.user, r.job>>] # NoPost
    BY <1>2, <2>2 DEF Serve
  <2> QED BY <2>1, <2>2
<1>3. CASE ~\E r \in requests : Serve(r)
  <2>1. ASSUME NEW i \in Jobs, \/ EnqueueNew(i) \/ OpenReview(i) \/ Submit(i) \/ Place(i)
                               \/ Retry(i) \/ Discard(i) \/ TimerFires(i)
        PROVE  posted' = posted
    BY <2>1 DEF EnqueueNew, OpenReview, Submit, Place, Retry, Discard, TimerFires
  <2>2. ASSUME Load \/ Hydrate \/ StoreStep \/ SignIn \/ Kill PROVE posted' = posted
    BY <2>2 DEF Load, Hydrate, StoreStep, StoreForWorker, StoreForForm, StoreForOthers, SignIn, Kill
  <2>3. ASSUME WorkerBlock \/ WorkerStep PROVE posted' = posted
    BY <2>3 DEF WorkerBlock, WorkerStep, UploadBegins, Ready, Send, Close, Broken, Uploaded, UploadFails,
                Answered, SaveFails, Start
  <2>4. CASE UNCHANGED vars
    BY <2>4 DEF vars
  <2>5. Next => posted' = posted
    BY <1>3, <2>1, <2>2, <2>3 DEF Next
  <2> QED BY <1>1, <2>4, <2>5
<1> QED BY <1>2, <1>3

LEMMA RequestsMove ==
    ASSUME Typed, [Next]_vars
    PROVE  requests' \subseteq requests \/ \E j \in Jobs : Posts(j)
<1>1. ASSUME NEW i \in Jobs, \/ EnqueueNew(i) \/ OpenReview(i) \/ Submit(i) \/ Place(i)
                             \/ Retry(i) \/ Discard(i) \/ TimerFires(i)
      PROVE  requests' = requests
  BY <1>1 DEF EnqueueNew, OpenReview, Submit, Place, Retry, Discard, TimerFires
<1>2. CASE Load \/ Hydrate \/ StoreStep \/ SignIn \/ Kill
  BY <1>2 DEF Load, Hydrate, StoreStep, StoreForWorker, StoreForForm, StoreForOthers, SignIn, Kill
<1>3. CASE UploadBegins \/ Ready \/ Close \/ Broken \/ Uploaded \/ UploadFails \/ Answered \/ \E i \in Jobs : Start(i)
  BY <1>3 DEF UploadBegins, Ready, Close, Broken, Uploaded, UploadFails, Answered, Start
<1>4. CASE SaveFails
  BY <1>4 DEF SaveFails
<1>5. CASE Send
  <2> DEFINE j == worker.job
  <2>1. CASE Here(jobs[j]) /\ user # NoOne
    <3>1. j \in Jobs /\ user \in Users /\ ghost \in Ghost
      BY <2>1, Parts DEF Typed, OtherTyped
    <3>2. /\ requests' = requests \cup {[user |-> user, job |-> j,
                     post |-> [version |-> jobs[j].version, media |-> worker.media]]}
          /\ ghost' = [ghost EXCEPT !.swapped = IF user = Owner[j] THEN @ ELSE @ \cup {j}]
      BY <1>5, <2>1 DEF Send
    <3>3. j \in ghost'.swapped \/ user = Owner[j]
      BY <3>1, <3>2 DEF Ghost
    <3> QED BY <1>5, <2>1, <3>1, <3>2, <3>3 DEF Posts
  <2>2. CASE ~(Here(jobs[j]) /\ user # NoOne)
    BY <1>5, <2>2 DEF Send
  <2> QED BY <2>1, <2>2
<1>6. ASSUME NEW r \in requests, Serve(r) PROVE requests' \subseteq requests
  BY <1>6 DEF Serve
<1>7. CASE UNCHANGED vars
  BY <1>7 DEF vars
<1>8. CASE Next
  BY <1>1, <1>2, <1>3, <1>4, <1>5, <1>6, <1>8 DEF Next, WorkerBlock, WorkerStep
<1> QED BY <1>7, <1>8

LEMMA SentMembers ==
    ASSUME NEW j \in Jobs
    PROVE  /\ \A r \in requests : r.job = j => r.post \in Sent(j)
           /\ \A u \in Users : posted[<<u, j>>] # NoPost => posted[<<u, j>>] \in Sent(j)
           /\ \A p \in Sent(j) : \/ \E r \in requests : r.job = j /\ p = r.post
                                \/ \E u \in Users : posted[<<u, j>>] # NoPost /\ p = posted[<<u, j>>]
BY DEF Sent

LEMMA SentMoves ==
    ASSUME Typed, [Next]_vars, NEW j \in Jobs
    PROVE  /\ ~Posts(j) => Sent(j)' \subseteq Sent(j)
           /\ Posts(j) => Sent(j)' \subseteq Sent(j) \cup {[version |-> jobs[j].version, media |-> worker.media]}
           /\ Published(j) => Published(j)'
           /\ Published(j) => Sent(j) # {}
<1>1. ASSUME NEW u \in Users, posted'[<<u, j>>] # NoPost PROVE posted'[<<u, j>>] \in Sent(j)
  <2>1. CASE posted'[<<u, j>>] = posted[<<u, j>>]
    BY <1>1, <2>1, SentMembers
  <2>2. CASE posted'[<<u, j>>] # posted[<<u, j>>]
    <3>1. PICK r \in requests : r.user = u /\ r.job = j /\ posted'[<<u, j>>] = r.post
      BY <2>2, PostedStays
    <3> QED BY <3>1, SentMembers
  <2> QED BY <2>1, <2>2
<1>2. ASSUME NEW r \in requests', r.job = j
      PROVE  r.post \in Sent(j) \/ (Posts(j) /\ r.post = [version |-> jobs[j].version, media |-> worker.media])
  <2>1. r \in requests => r.post \in Sent(j)
    BY <1>2, SentMembers
  <2>2. CASE r \notin requests
    <3>1. PICK i \in Jobs : Posts(i)
      BY <2>2, RequestsMove
    <3>2. r = [user |-> user, job |-> i, post |-> [version |-> jobs[i].version, media |-> worker.media]]
      BY <2>2, <3>1 DEF Posts
    <3> QED BY <1>2, <3>1, <3>2
  <2> QED BY <2>1, <2>2
<1>3. Published(j) => Published(j)'
  BY PostedStays DEF Published
<1>4. Published(j) => Sent(j) # {}
  BY SentMembers DEF Published
<1>5. ASSUME NEW p \in Sent(j)'
      PROVE  p \in Sent(j) \/ (Posts(j) /\ p = [version |-> jobs[j].version, media |-> worker.media])
  <2>1. \/ \E r \in requests' : r.job = j /\ p = r.post
        \/ \E u \in Users : posted'[<<u, j>>] # NoPost /\ p = posted'[<<u, j>>]
    BY <1>5 DEF Sent
  <2> QED BY <1>1, <1>2, <2>1
<1> QED BY <1>3, <1>4, <1>5
-----------------------------------------------------------------------------
(* A job that nobody has enqueued has left no trace.                       *)
Known == \A j \in Jobs \ ghost.born :
    /\ \A e \in Copies(j) : ~Here(e)
    /\ form[j].at = "closed" /\ Sent(j) = {} /\ j \notin ghost.accepted
    /\ worker.job = j => worker.at = "idle"
    /\ ~Marked("discard", j)

(* Until the queue is restored only new jobs are enqueued and stored; if   *)
(* none was, nothing is in memory, and what was read is what is stored.    *)
Booting ==
    /\ phase # "read" => loaded = Empty
    /\ phase # "up" =>
        /\ worker = Idle /\ timers = {}
        /\ \A j \in Jobs : /\ ~Marked("discard", j) /\ jobs[j].status \in {"none", "queued"}
                           /\ form[j].at \in {"closed", "storing"} /\ form[j].source = NoEntry
    /\ phase # "up" /\ ~ghost.reset => jobs = Empty /\ writes = <<>> /\ \A j \in Jobs : form[j] = Closed
    /\ phase = "read" /\ ~ghost.reset => loaded = stored

(* What was published was published by the owner, or another account is to *)
(* blame, and a job is shown and removed as published only if it was.      *)
Credited ==
    /\ \A r \in requests : r.user = Owner[r.job] \/ r.job \in ghost.swapped
    /\ \A u \in Users, j \in Jobs : posted[<<u, j>>] # NoPost => u = Owner[j] \/ j \in ghost.swapped
    /\ worker.at \in {"closing", "close"} => Published(worker.job)
    /\ \A j \in timers : Published(j)

Basic == Waited /\ Filed /\ Known /\ Booting /\ Credited

LEMMA NothingHere == ~Here(NoEntry) /\ NoEntry.status = "none" /\ ~Kept(NoEntry)
BY DEF NoEntry, Here, Kept

LEMMA ClosedIs == Closed.at = "closed" /\ Closed.source = NoEntry /\ Closed.entry = NoEntry
BY DEF Closed

LEMMA InitBasic == Init => Basic
<1> SUFFICES ASSUME Init PROVE Basic
  OBVIOUS
<1>1. Waited
  BY InitMarks DEF Waited
<1>2. Filed
  BY InitMarks, ClosedIs DEF Filed, Init
<1>3. Known
  <2> SUFFICES ASSUME NEW j \in Jobs
               PROVE  /\ \A e \in Copies(j) : ~Here(e)
                      /\ form[j].at = "closed" /\ Sent(j) = {} /\ j \notin ghost.accepted
                      /\ worker.job = j => worker.at = "idle"
                      /\ ~Marked("discard", j)
    BY DEF Known
  <2>1. Copies(j) = {NoEntry}
    BY DEF Init, Copies, Past, Empty
  <2>2. Sent(j) = {}
    BY DEF Init, Sent
  <2> QED BY <2>1, <2>2, NothingHere, InitMarks, IdleTyped, ClosedIs DEF Init
<1>4. Booting
  BY InitMarks, NothingHere, ClosedIs DEF Init, Booting, Empty
<1>5. Credited
  BY IdleTyped DEF Init, Credited
<1> QED BY <1>1, <1>2, <1>3, <1>4, <1>5 DEF Basic

LEMMA NextFiled == ASSUME Typed, Basic, [Next]_vars PROVE Filed'
<1> SUFFICES ASSUME NEW j \in Jobs
             PROVE  (form'[j].at = "storing" <=> Marked("form", j)') /\ Single("form", j)'
  BY DEF Filed
<1>0. /\ Typed' /\ "form" \in Writers \ {"nobody"}
      /\ form[j].at = "storing" <=> Marked("form", j)
      /\ Single("form", j)
  BY NextTyped, Names DEF Basic, Filed
<1>1. CASE EnqueueNew(j) \/ Place(j)
  <2>1. form[j].at # "storing" /\ form'[j].at = "storing"
    <3>1. CASE EnqueueNew(j)
      <4>1. j \notin ghost.born
        BY <3>1 DEF EnqueueNew
      <4>2. form[j].at = "closed"
        BY <4>1 DEF Basic, Known
      <4>3. form' = [form EXCEPT ![j] = [at |-> "storing", entry |-> Queued(1, 1, FALSE), source |-> NoEntry]]
        BY <3>1 DEF EnqueueNew
      <4>4. form'[j].at = "storing"
        BY <4>3, Parts
      <4> QED BY <4>2, <4>4
    <3>2. CASE Place(j)
      <4>1. form[j].at = "media" /\ form' = [form EXCEPT ![j] = [form[j] EXCEPT !.at = "storing"]]
        BY <3>2 DEF Place
      <4>2. form'[j] = [form[j] EXCEPT !.at = "storing"] /\ form[j] \in Form
        BY <4>1, Parts DEF Editors
      <4>3. form'[j].at = "storing"
        BY <4>2 DEF Form
      <4> QED BY <4>1, <4>3
    <3> QED BY <1>1, <3>1, <3>2
  <2>2. Appends("form", j)
    BY <1>0, <1>1, UserChain
  <2> QED BY <1>0, <2>1, <2>2, GrowsMarks
<1>2. CASE ~(EnqueueNew(j) \/ Place(j))
  <2>1. Unmarked("form", j)
    BY <1>0, <1>2, NextMarks DEF Added, Adds
  <2>2. CASE Kill
    <3>1. ~Marked("form", j)' /\ form'[j] = Closed
      BY <2>2 DEF Kill, Marked
    <3> QED BY <1>0, <2>1, <3>1, ClosedIs DEF Unmarked
  <2>3. CASE StoreForForm /\ Head(writes).job = j
    <3>1. writes # <<>> /\ writes' = Tail(writes) /\ Head(writes).by = "form"
          /\ form' = [form EXCEPT ![j] = Closed]
      BY <2>3 DEF StoreForForm, Stores
    <3>2. form'[j] = Closed
      BY <3>1, Parts
    <3> QED BY <1>0, <2>1, <2>3, <3>1, <3>2, ClosedIs, ShrinksMarks DEF Unmarked
  <2>4. CASE ~Kill /\ ~(StoreForForm /\ Head(writes).job = j)
    <3>1. form'[j].at = "storing" <=> form[j].at = "storing"
      <4>1. \/ form'[j] = form[j]
            \/ form[j] = Closed /\ form'[j].at = "open"
            \/ form[j].at = "open" /\ form'[j].at = "media"
        BY <1>2, <2>4, FormMoves
      <4> QED BY <4>1, ClosedIs
    <3>2. StoreStep => ~(Head(writes).by = "form" /\ Head(writes).job = j)
      BY <2>4 DEF StoreStep, StoreForWorker, StoreForOthers
    <3>3. Marked("form", j) => Marked("form", j)'
      BY <2>4, <3>2, KeepsMark
    <3> QED BY <1>0, <2>1, <3>1, <3>3 DEF Unmarked
  <2> QED BY <2>2, <2>3, <2>4
<1> QED BY <1>1, <1>2

(* The job the worker is at.                                               *)
LEMMA WorkerJob ==
    ASSUME Typed, Waited, [Next]_vars
    PROVE  \/ worker' = worker \/ worker'.at = "idle"
           \/ worker'.job = worker.job /\ worker.at # "idle"
           \/ \E j \in Jobs : Start(j) /\ worker'.job = j
<1>0. worker \in Worker /\ Typed'
  BY Parts, NextTyped
<1>1. CASE StoreForWorker
  <2>1. PICK ok \in BOOLEAN :
          /\ Stores(ok) /\ Head(writes).by = "worker"
          /\ IF worker.at = "recording" THEN Rest ELSE Goto(IF ok THEN Resumed ELSE "broken")
    BY <1>1 DEF StoreForWorker
  <2>2. worker.at # "idle"
    <3>1. writes # <<>> /\ writes' = Tail(writes)
      BY <2>1 DEF Stores
    <3>2. Marked("worker", Head(writes).job) /\ Head(writes).job \in Jobs
      BY <2>1, <3>1, ShrinksMarks, HeadTyped
    <3> QED BY <3>2 DEF Waited, Waits
  <2>3. CASE Rest
    BY <2>3, RestTyped
  <2>4. CASE Goto(IF ok THEN Resumed ELSE "broken")
    <3>1. (IF ok THEN Resumed ELSE "broken") \in {"idle", "upload"} \cup Waits \cup Blocks
      BY DEF Resumed, Blocks
    <3> QED BY <2>2, <2>4, <3>1, GotoTyped
  <2> QED BY <2>1, <2>3, <2>4
<1>2. CASE Kill
  BY <1>2, IdleTyped DEF Kill
<1>3. CASE WorkerBlock \/ WorkerStep
  <2>1. ASSUME NEW j \in Jobs, Commits(j)
        PROVE  \/ worker'.job = worker.job /\ worker.at # "idle"
               \/ Start(j) /\ worker'.job = j
    <3>1. CASE Start(j)
      BY <2>1, <3>1 DEF Commits
    <3>2. CASE ~Start(j)
      <4>1. worker.job = j /\ worker'.job = j
        BY <2>1, <3>2 DEF Commits
      <4>2. CASE worker.at = "idle"
        <5>1. PICK i \in Jobs : Start(i)
          BY <1>3, <4>2 DEF WorkerBlock, WorkerStep, UploadBegins, Ready, Send, Close, Broken, Uploaded,
                            UploadFails, Answered, SaveFails
        <5>2. worker' = [Idle EXCEPT !.at = "started", !.job = i]
          BY <5>1 DEF Start
        <5>3. worker'.job = i
          BY <5>2, IdleTyped DEF Worker
        <5> QED BY <3>2, <4>1, <5>1, <5>3
      <4> QED BY <4>1, <4>2
    <3> QED BY <3>1, <3>2
  <2>2. CASE Silent
    <3>1. CASE UploadBegins
      BY <1>0, <3>1 DEF UploadBegins, Worker
    <3>2. CASE Send
      <4>1. CASE Rest
        BY <4>1, RestTyped
      <4>2. CASE worker' = [worker EXCEPT !.at = "saving", !.media = 0, !.by = user]
        BY <1>0, <3>2, <4>2 DEF Send, Worker
      <4>3. CASE Fail("final")
        BY <2>2, <4>3, FailCommits, <1>0, <3>2, RestTyped, LeaveTyped DEF Fail, Silent, Waits
      <4> QED BY <3>2, <4>1, <4>2, <4>3 DEF Send
    <3>3. CASE Close
      BY <3>3, RestTyped DEF Close
    <3>4. ASSUME NEW error, Fail(error) PROVE worker'.at = "idle"
      BY <2>2, <3>4, RestTyped, LeaveTyped DEF Fail, Silent, Waits
    <3>5. CASE Ready \/ Broken \/ UploadFails \/ SaveFails \/ Uploaded \/ Answered \/ \E j \in Jobs : Start(j)
      <4>1. CASE Ready
        <5>1. CASE Fail("final")
          BY <3>4, <5>1
        <5>2. CASE worker' = [worker EXCEPT !.at = "entering", !.media = jobs[worker.job].media]
          BY <1>0, <2>2, <5>2 DEF Worker, Silent, Waits
        <5> QED BY <4>1, <5>1, <5>2 DEF Ready
      <4>2. CASE Broken \/ UploadFails \/ SaveFails
        BY <3>4, <4>2 DEF Broken, UploadFails, SaveFails
      <4>3. CASE Uploaded \/ Answered
        BY <2>2, <4>3, LeaveTyped DEF Uploaded, Answered, Silent, Waits
      <4>4. ASSUME NEW j \in Jobs, Start(j) PROVE FALSE
        BY <2>2, <4>4, IdleTyped DEF Start, Silent, Waits, Worker
      <4> QED BY <3>5, <4>1, <4>2, <4>3, <4>4
    <3> QED BY <1>3, <3>1, <3>2, <3>3, <3>5 DEF WorkerBlock, WorkerStep
  <2> QED BY <1>0, <1>3, <2>1, <2>2, WorkMoves
<1>4. CASE ~(WorkerBlock \/ WorkerStep) /\ ~StoreForWorker /\ ~Kill
  BY <1>4, WorkerMoves
<1> QED BY <1>1, <1>2, <1>3, <1>4

LEMMA NextKnown == ASSUME Typed, Basic, [Next]_vars PROVE Known'
<1> SUFFICES ASSUME NEW j \in Jobs, j \notin ghost'.born
             PROVE  /\ \A e \in Copies(j)' : ~Here(e)
                    /\ form'[j].at = "closed" /\ Sent(j)' = {} /\ j \notin ghost'.accepted
                    /\ worker'.job = j => worker'.at = "idle"
                    /\ ~Marked("discard", j)'
  BY DEF Known, Here
<1>0. Typed' /\ Chain /\ Fate(j) /\ Remembers
  BY NextTyped, NextChain, NextFate, NextRemembers
<1>1. /\ j \notin ghost.born /\ ~EnqueueNew(j)
  <2>1. j \notin ghost.born
    BY <1>0 DEF Remembers
  <2>2. EnqueueNew(j) => j \in ghost'.born
    BY DEF EnqueueNew, Typed, OtherTyped, Ghost
  <2> QED BY <2>1, <2>2
<1>2. /\ \A e \in Copies(j) : ~Here(e)
      /\ form[j].at = "closed" /\ Sent(j) = {} /\ j \notin ghost.accepted
      /\ worker.job = j => worker.at = "idle"
      /\ ~Marked("discard", j)
  BY <1>1 DEF Basic, Known
<1>3. /\ ~Here(jobs[j]) /\ ~Here(loaded[j])
  BY <1>2 DEF Copies
<1>4. jobs[j].status = "none" /\ loaded[j].status = "none"
  BY <1>3 DEF Here
<1>5. ~Here(jobs'[j])
  <2>1. CASE Hydrate
    <3>1. jobs'[j] = Restored[j]
      BY <1>0, <2>1, BootChain DEF Typed
    <3>2. Restored[j] = NoEntry
      BY <1>4 DEF Restored, Restorable
    <3> QED BY <3>1, <3>2, NothingHere
  <2>2. CASE ~Hydrate
    BY <1>0, <1>1, <1>3, <2>2, HereBefore
  <2> QED BY <2>1, <2>2
<1>6. \A e \in Copies(j)' : ~Here(e)
  BY <1>0, <1>2, <1>5, CopiesMove, NothingHere
<1>7. ~OpenReview(j) /\ ~Submit(j) /\ ~Place(j) /\ ~Discard(j) /\ ~Start(j) /\ ~Posts(j)
  BY <1>2, <1>3, <1>4 DEF OpenReview, Submit, Place, Discard, Offered, Start, Posts
<1>8. form'[j].at = "closed"
  BY <1>1, <1>2, <1>7, FormMoves, ClosedIs
<1>9. Sent(j)' = {}
  BY <1>2, <1>7, SentMoves
<1>10. j \notin ghost'.accepted
  <2>1. SUFFICES ASSUME StoreForForm, Head(writes).job = j PROVE FALSE
    BY <1>2, NextRemembers
  <2>2. writes # <<>> /\ writes' = Tail(writes) /\ Head(writes).by = "form"
    BY <2>1 DEF StoreForForm, Stores
  <2>3. Marked("form", j)
    BY <2>1, <2>2, ShrinksMarks
  <2> QED BY <1>2, <2>3 DEF Basic, Filed
<1>11. worker'.job = j => worker'.at = "idle"
  <2>1. Waited
    BY DEF Basic
  <2>2. ASSUME NEW i \in Jobs, Start(i), worker'.job = i, worker'.job = j PROVE FALSE
    BY <1>7, <2>2
  <2> QED BY <1>2, <2>1, <2>2, WorkerJob
<1>12. ~Marked("discard", j)'
  <2>1. Unmarked("discard", j) \/ Added("discard", j)
    BY NextMarks, Names
  <2> QED BY <1>2, <1>7, <2>1 DEF Unmarked, Added, Adds
<1> QED BY <1>6, <1>8, <1>9, <1>10, <1>11, <1>12

(* What may happen before the queue is restored.                           *)
LEMMA BootMoves ==
    ASSUME Typed, Basic, phase # "up", [Next]_vars
    PROVE  \/ Load \/ Hydrate \/ Kill \/ StoreForForm \/ StoreForOthers \/ SignIn
           \/ (\E r \in requests : Serve(r)) \/ (\E j \in Jobs : EnqueueNew(j)) \/ UNCHANGED vars
<1>1. /\ worker.at = "idle" /\ timers = {}
      /\ \A j \in Jobs : /\ jobs[j].status \in {"none", "queued"}
                         /\ form[j].at \in {"closed", "storing"}
  BY IdleTyped DEF Basic, Booting
<1>2. ~WorkerBlock
  BY <1>1 DEF WorkerBlock, UploadBegins, Ready, Send, Close, Broken
<1>3. ~WorkerStep
  BY <1>1 DEF WorkerStep, Uploaded, UploadFails, Answered, SaveFails, Start
<1>4. ~StoreForWorker
  <2> SUFFICES ASSUME StoreForWorker PROVE FALSE
    OBVIOUS
  <2>1. writes # <<>> /\ writes' = Tail(writes) /\ Head(writes).by = "worker"
    BY DEF StoreForWorker, Stores
  <2>2. Marked("worker", Head(writes).job) /\ Head(writes).job \in Jobs
    BY <2>1, ShrinksMarks, HeadTyped
  <2>3. worker.at \in Waits
    BY <2>2 DEF Basic, Waited
  <2> QED BY <1>1, <2>3 DEF Waits
<1>5. ASSUME NEW j \in Jobs
      PROVE  ~OpenReview(j) /\ ~Submit(j) /\ ~Place(j) /\ ~Retry(j) /\ ~Discard(j) /\ ~TimerFires(j)
  BY <1>1 DEF OpenReview, Submit, Place, Retry, Discard, TimerFires, Offered
<1> QED BY <1>2, <1>3, <1>4, <1>5 DEF Next, StoreStep

LEMMA PhaseMoves ==
    ASSUME [Next]_vars
    PROVE  Load \/ Hydrate \/ Kill \/ (phase' = phase /\ loaded' = loaded)
<1>1. CASE WorkerBlock \/ WorkerStep
  BY <1>1 DEF WorkerBlock, WorkerStep, UploadBegins, Ready, Send, Close, Broken, Uploaded, UploadFails,
              Answered, SaveFails, Start
<1>2. CASE StoreStep
  BY <1>2 DEF StoreStep, StoreForWorker, StoreForForm, StoreForOthers
<1>3. ASSUME NEW j \in Jobs,
             EnqueueNew(j) \/ OpenReview(j) \/ Submit(j) \/ Place(j) \/ Retry(j) \/ Discard(j) \/ TimerFires(j)
      PROVE  phase' = phase /\ loaded' = loaded
  BY <1>3 DEF EnqueueNew, OpenReview, Submit, Place, Retry, Discard, TimerFires
<1>4. CASE SignIn \/ \E r \in requests : Serve(r)
  BY <1>4 DEF SignIn, Serve
<1>5. CASE UNCHANGED vars
  BY <1>5 DEF vars
<1> QED BY <1>1, <1>2, <1>3, <1>4, <1>5 DEF Next

LEMMA NextBooting == ASSUME Typed, Basic, [Next]_vars PROVE Booting'
<1>0. /\ Typed' /\ Booting /\ Remembers
  BY NextTyped, NextRemembers DEF Basic
<1>1. CASE Kill
  <2>1. /\ worker' = Idle /\ timers' = {} /\ jobs' = Empty /\ writes' = <<>> /\ loaded' = Empty
        /\ phase' = "loading" /\ \A j \in Jobs : form'[j] = Closed
    BY <1>1 DEF Kill
  <2>2. ASSUME NEW j \in Jobs
        PROVE  /\ ~Marked("discard", j)' /\ jobs'[j].status = "none"
               /\ form'[j].at = "closed" /\ form'[j].source = NoEntry
    BY <2>1, NothingHere, ClosedIs DEF Empty, Marked
  <2> QED BY <2>1, <2>2 DEF Booting
<1>2. CASE Hydrate
  BY <1>2 DEF Hydrate, Booting
<1>3. CASE Load
  <2>1. /\ phase = "loading" /\ phase' = "read" /\ (~ghost'.reset => ~ghost.reset /\ loaded' = stored)
        /\ UNCHANGED <<jobs, stored, files, writes, worker, form, timers, user, requests, posted>>
    BY <1>0, <1>3 DEF Load, Typed, OtherTyped, Ghost
  <2>2. \A j \in Jobs : Marked("discard", j)' <=> Marked("discard", j)
    BY <2>1 DEF Marked, Marks
  <2>3. phase # "up" /\ phase' = "read" /\ phase' # "up" /\ phase # "read"
    BY <2>1
  <2>4. /\ worker = Idle /\ timers = {}
        /\ \A j \in Jobs : /\ ~Marked("discard", j) /\ jobs[j].status \in {"none", "queued"}
                           /\ form[j].at \in {"closed", "storing"} /\ form[j].source = NoEntry
        /\ ~ghost.reset => jobs = Empty /\ writes = <<>> /\ \A j \in Jobs : form[j] = Closed
    BY <1>0, <2>3 DEF Booting
  <2>5. /\ worker' = Idle /\ timers' = {} /\ (~ghost'.reset => loaded' = stored')
        /\ \A j \in Jobs : /\ ~Marked("discard", j)' /\ jobs'[j].status \in {"none", "queued"}
                           /\ form'[j].at \in {"closed", "storing"} /\ form'[j].source = NoEntry
        /\ ~ghost'.reset => jobs' = Empty /\ writes' = <<>> /\ \A j \in Jobs : form'[j] = Closed
    BY <2>1, <2>2, <2>4
  <2> QED BY <2>3, <2>5 DEF Booting
<1>4. CASE ~Kill /\ ~Hydrate /\ ~Load
  <2>1. phase' = phase /\ loaded' = loaded
    BY <1>4, PhaseMoves
  <2>2. CASE phase = "up"
    BY <1>0, <2>1, <2>2 DEF Booting
  <2>3. CASE phase # "up"
    <3>0. /\ worker = Idle /\ timers = {}
          /\ \A j \in Jobs : /\ ~Marked("discard", j) /\ jobs[j].status \in {"none", "queued"}
                             /\ form[j].at \in {"closed", "storing"} /\ form[j].source = NoEntry
          /\ ~ghost.reset => jobs = Empty /\ writes = <<>> /\ \A j \in Jobs : form[j] = Closed
          /\ phase = "read" /\ ~ghost.reset => loaded = stored
          /\ phase # "read" => loaded = Empty
      BY <1>0, <2>3 DEF Booting
    <3>1. CASE SignIn \/ (\E r \in requests : Serve(r)) \/ UNCHANGED vars
      <4>1. UNCHANGED <<jobs, stored, writes, worker, form, timers, ghost, phase, loaded>>
        BY <3>1 DEF SignIn, Serve, vars
      <4>2. \A j \in Jobs : Marked("discard", j)' <=> Marked("discard", j)
        BY <4>1 DEF Marked, Marks
      <4> QED BY <1>0, <4>1, <4>2 DEF Booting
    <3>2. ASSUME NEW j \in Jobs, EnqueueNew(j) PROVE Booting'
      <4>1. /\ worker' = worker /\ timers' = timers /\ ghost'.reset
            /\ jobs' = [jobs EXCEPT ![j] = Queued(1, 1, FALSE)]
            /\ form' = [form EXCEPT ![j] = [at |-> "storing", entry |-> Queued(1, 1, FALSE), source |-> NoEntry]]
        BY <2>3, <3>2 DEF EnqueueNew, Commit, Typed, OtherTyped, Ghost
      <4>2. Appends("form", j) /\ 1 \in Nat
        BY <1>0, <3>2, UserChain
      <4>3. Queued(1, 1, FALSE).status = "queued"
        BY FirstQueued
      <4>4. ASSUME NEW i \in Jobs
            PROVE  /\ ~Marked("discard", i)' /\ jobs'[i].status \in {"none", "queued"}
                   /\ form'[i].at \in {"closed", "storing"} /\ form'[i].source = NoEntry
        <5>1. ~Marked("discard", i)'
          BY <3>0, <4>2, GrowsMarks
        <5>2. jobs'[i].status \in {"none", "queued"}
          BY <3>0, <4>1, <4>3, Parts DEF Queues
        <5>3. form'[i].at \in {"closed", "storing"} /\ form'[i].source = NoEntry
          BY <3>0, <4>1, Parts
        <5> QED BY <5>1, <5>2, <5>3
      <4> QED BY <2>1, <2>3, <3>0, <4>1, <4>4 DEF Booting
    <3>3. CASE StoreForForm \/ StoreForOthers
      <4>1. writes # <<>> /\ writes' = Tail(writes)
        BY <3>3 DEF StoreForForm, StoreForOthers, Stores
      <4>2. ghost.reset
        BY <3>0, <4>1
      <4>3. worker' = worker /\ timers' = timers /\ ghost'.reset
        BY <1>0, <3>3, <4>2 DEF StoreForForm, StoreForOthers, Remembers
      <4>4. ASSUME NEW i \in Jobs
            PROVE  /\ ~Marked("discard", i)' /\ jobs'[i].status \in {"none", "queued"}
                   /\ form'[i].at \in {"closed", "storing"} /\ form'[i].source = NoEntry
        <5>1. ~Marked("discard", i)'
          BY <3>0, <4>1, ShrinksMarks
        <5>2. jobs'[i].status \in {"none", "queued"}
          <6>1. CASE StoreForForm
            BY <3>0, <6>1, StoreFate, NothingHere DEF PutBack
          <6>2. CASE StoreForOthers
            BY <3>0, <6>2 DEF StoreForOthers
          <6> QED BY <3>3, <6>1, <6>2
        <5>3. form'[i].at \in {"closed", "storing"} /\ form'[i].source = NoEntry
          <6>1. form'[i] = form[i] \/ form'[i] = Closed
            BY <3>3, Parts DEF StoreForForm, StoreForOthers
          <6> QED BY <3>0, <6>1, ClosedIs
        <5> QED BY <5>1, <5>2, <5>3
      <4> QED BY <2>1, <3>0, <4>3, <4>4 DEF Booting
    <3> QED BY <1>4, <2>3, <3>1, <3>2, <3>3, BootMoves
  <2> QED BY <2>2, <2>3
<1> QED BY <1>1, <1>2, <1>3, <1>4

LEMMA NextCredited == ASSUME Typed, Basic, [Next]_vars PROVE Credited'
<1>0. Credited /\ Remembers /\ Typed' /\ Waited
  BY NextRemembers, NextTyped DEF Basic
<1>1. ASSUME NEW r \in requests' PROVE r.user = Owner[r.job] \/ r.job \in ghost'.swapped
  <2>1. CASE r \in requests
    BY <1>0, <2>1 DEF Credited, Remembers
  <2>2. CASE r \notin requests
    <3>1. PICK j \in Jobs : Posts(j)
      BY <1>1, <2>2, RequestsMove
    <3>2. r = [user |-> user, job |-> j, post |-> [version |-> jobs[j].version, media |-> worker.media]]
      BY <1>1, <2>2, <3>1 DEF Posts
    <3>3. r.user = user /\ r.job = j
      BY <3>2
    <3> QED BY <3>1, <3>3 DEF Posts
  <2> QED BY <2>1, <2>2
<1>2. ASSUME NEW u \in Users, NEW j \in Jobs, posted'[<<u, j>>] # NoPost
      PROVE  u = Owner[j] \/ j \in ghost'.swapped
  <2>1. CASE posted[<<u, j>>] # NoPost
    BY <1>0, <2>1 DEF Credited, Remembers
  <2>2. CASE posted[<<u, j>>] = NoPost
    <3>1. PICK r \in requests : r.user = u /\ r.job = j
      BY <1>2, <2>2, PostedStays
    <3> QED BY <1>0, <3>1 DEF Credited, Remembers
  <2> QED BY <2>1, <2>2
<1>3. ASSUME NEW j \in Jobs, Published(j) PROVE Published(j)'
  BY <1>3, SentMoves
<1>4. worker'.at \in {"closing", "close"} => Published(worker.job)'
  <2> SUFFICES ASSUME worker'.at \in {"closing", "close"} PROVE Published(worker.job)'
    OBVIOUS
  <2>1. worker \in Worker /\ worker.job \in Jobs
    BY Parts
  <2>2. CASE worker' = worker
    BY <1>0, <1>3, <2>1, <2>2 DEF Credited, Published
  <2>3. CASE StoreForWorker
    <3>1. PICK ok \in BOOLEAN :
            IF worker.at = "recording" THEN Rest ELSE Goto(IF ok THEN Resumed ELSE "broken")
      BY <2>3 DEF StoreForWorker
    <3>2. (IF ok THEN Resumed ELSE "broken") \in {"idle", "upload"} \cup Waits \cup Blocks
      BY DEF Resumed, Blocks
    <3>3. Goto(IF ok THEN Resumed ELSE "broken")
      BY <3>1, RestTyped
    <3>4. worker'.at = (IF ok THEN Resumed ELSE "broken") /\ worker'.job = worker.job
      BY <3>2, <3>3, GotoTyped
    <3>5. Resumed \in {"closing", "close"}
      BY <3>4
    <3>6. worker.at = "closing"
      BY <3>5 DEF Resumed
    <3> QED BY <1>0, <1>3, <2>1, <3>4, <3>6 DEF Credited, Published
  <2>4. CASE Kill
    BY <2>4, IdleTyped DEF Kill
  <2>5. CASE WorkerBlock \/ WorkerStep
    <3>1. ASSUME NEW e, Fail(e) PROVE FALSE
      BY <3>1, RestTyped, LeaveTyped DEF Fail, Waits
    <3>2. CASE Answered
      <4>1. Served(worker.job) /\ Leave("closing") /\ worker.at = "saving"
        BY <3>2 DEF Answered
      <4>2. worker'.job = worker.job
        BY <4>1, LeaveTyped DEF Waits
      <4>3. worker.by \in Users
        BY <4>1 DEF Typed, WorkerTyped
      <4>4. Published(worker.job)
        BY <4>1, <4>3 DEF Served, Published
      <4> QED BY <1>3, <2>1, <4>2, <4>4 DEF Published
    <3>3. CASE UploadBegins
      BY <2>1, <3>3 DEF UploadBegins, Worker
    <3>4. CASE Ready
      BY <2>1, <3>1, <3>4 DEF Ready, Worker
    <3>5. CASE Send
      BY <2>1, <3>1, <3>5, RestTyped DEF Send, Worker
    <3>6. CASE Close \/ Broken
      BY <3>1, <3>6, RestTyped DEF Close, Broken
    <3>7. CASE Uploaded
      BY <3>7, LeaveTyped DEF Uploaded, Waits
    <3>8. CASE UploadFails \/ SaveFails
      BY <3>1, <3>8 DEF UploadFails, SaveFails
    <3>9. ASSUME NEW j \in Jobs, Start(j) PROVE FALSE
      BY <3>9, IdleTyped DEF Start, Worker
    <3> QED BY <2>5, <3>2, <3>3, <3>4, <3>5, <3>6, <3>7, <3>8, <3>9 DEF WorkerBlock, WorkerStep
  <2> QED BY <2>2, <2>3, <2>4, <2>5, WorkerMoves
<1>5. ASSUME NEW j \in timers' PROVE Published(j)'
  <2>1. timers' \subseteq timers \/ (worker.at = "close" /\ timers' \subseteq timers \cup {worker.job})
    <3>1. CASE WorkerBlock \/ WorkerStep
      BY <3>1 DEF WorkerBlock, WorkerStep, UploadBegins, Ready, Send, Close, Broken, Uploaded, UploadFails,
                  Answered, SaveFails, Start
    <3>2. CASE StoreStep \/ Load \/ Hydrate \/ Kill
      BY <3>2 DEF StoreStep, StoreForWorker, StoreForForm, StoreForOthers, Load, Hydrate, Kill
    <3>3. ASSUME NEW i \in Jobs,
                 EnqueueNew(i) \/ OpenReview(i) \/ Submit(i) \/ Place(i) \/ Retry(i) \/ Discard(i) \/ TimerFires(i)
          PROVE  timers' \subseteq timers
      BY <3>3 DEF EnqueueNew, OpenReview, Submit, Place, Retry, Discard, TimerFires
    <3>4. CASE SignIn \/ \E r \in requests : Serve(r)
      BY <3>4 DEF SignIn, Serve
    <3>5. CASE UNCHANGED vars
      BY <3>5 DEF vars
    <3> QED BY <3>1, <3>2, <3>3, <3>4, <3>5 DEF Next
  <2>2. timers \subseteq Jobs /\ worker.job \in Jobs
    BY Parts DEF Typed, OtherTyped
  <2>3. Published(j) /\ j \in Jobs
    BY <1>0, <2>1, <2>2 DEF Credited
  <2> QED BY <1>3, <2>3
<1> QED BY <1>1, <1>2, <1>4, <1>5 DEF Credited, Published

LEMMA NextBasic == ASSUME Typed, Basic, [Next]_vars PROVE Basic'
<1>1. Waited'
  BY NextWaited DEF Basic
<1> QED BY <1>1, NextFiled, NextKnown, NextBooting, NextCredited DEF Basic
-----------------------------------------------------------------------------
(* The content of a job no edit of which has crossed a publication.  What  *)
(* the server has received of it is what every copy of it holds, with its  *)
(* images uploaded.                                                        *)
Content(e) == [version |-> e.version, media |-> e.media]
Source(j) == form[j].at \in {"media", "storing"} => form[j].source.status \in {"none", "failed"}
Faithful(j) ==
    /\ \A p \in Sent(j), e \in Copies(j) : Here(e) => Content(e) = p /\ e.prepared
    /\ \A e \in Copies(j) : e.status = "success" => Published(j)

(* While an edit waits to be stored nothing of the job has left, and the   *)
(* worker cannot send it before the edit is stored.                        *)
Before(j) == \A i, k \in DOMAIN writes : Marks(i, "form", j) /\ Marks(k, "worker", j) => i < k
Storing(j) == form[j].at = "storing" =>
    /\ Sent(j) = {}
    /\ worker.job = j => worker.at \in {"idle", "started", "recording"}
    /\ worker.job = j /\ worker.at = "started" => Before(j)

(* A job about to be sent: the images that were taken are its images, and  *)
(* once its write is stored every copy has its content.                    *)
Alike(e, f) == Here(e) => Content(e) = Content(f) /\ e.prepared
Entering(j) ==
    worker.job = j /\ Here(jobs[j]) =>
      /\ worker.at \in {"entering", "send"} => jobs[j].media = worker.media /\ jobs[j].prepared
      /\ worker.at = "entering" => \A e \in Since("worker", j) : Alike(e, jobs[j])
      /\ worker.at = "send" => \A e \in Copies(j) : Alike(e, jobs[j])

Coherent == \A j \in Jobs \ ghost.crossed : Source(j) /\ Faithful(j) /\ Storing(j) /\ Entering(j)
Consistent == Typed /\ Basic /\ Coherent

LEMMA InitCoherent == Init => Coherent
<1> SUFFICES ASSUME Init, NEW j \in Jobs PROVE Source(j) /\ Faithful(j) /\ Storing(j) /\ Entering(j)
  BY DEF Coherent
<1>1. form[j] = Closed /\ worker.at = "idle" /\ Sent(j) = {} /\ Copies(j) = {NoEntry}
  <2>1. writes = <<>> /\ stored[j] = NoEntry /\ jobs[j] = NoEntry /\ loaded[j] = NoEntry
    BY DEF Init, Empty
  <2>2. Past(j) = {}
    BY <2>1 DEF Past
  <2>3. Copies(j) = {NoEntry}
    BY <2>1, <2>2 DEF Copies
  <2>4. Sent(j) = {}
    BY DEF Init, Sent
  <2> QED BY <2>3, <2>4, IdleTyped DEF Init
<1>2. Source(j) /\ Storing(j) /\ Entering(j)
  BY <1>1, ClosedIs DEF Source, Storing, Entering
<1>3. Faithful(j)
  <2>1. ~Here(NoEntry) /\ NoEntry.status # "success"
    BY NothingHere
  <2> QED BY <1>1, <2>1 DEF Faithful
<1> QED BY <1>2, <1>3

LEMMA RestIsUnsent == ASSUME NEW j \in Jobs, AtRest(j) PROVE Sent(j) = {} /\ Here(jobs[j])
BY DEF AtRest, Sent, Here

LEMMA EditAtRest ==
    ASSUME Typed, NEW j \in Jobs, Submit(j) \/ Place(j), j \notin ghost'.crossed
    PROVE  AtRest(j)
<1>1. Crossing(j)
  BY DEF Submit, Place
<1> QED BY <1>1 DEF Crossing, Typed, OtherTyped, Ghost

LEMMA ContentOf ==
    ASSUME Typed, NEW j \in Jobs, Hydrate
    PROVE  /\ ~Here(Restored[j]) \/ Alike(Restored[j], loaded[j]) \/ ~loaded[j].prepared
           /\ Here(Restored[j]) => /\ Here(loaded[j]) /\ Content(Restored[j]) = Content(loaded[j])
                                   /\ Restored[j].prepared = loaded[j].prepared
                                   /\ Restored[j].status \notin {"none", "success"}
<1>1. loaded[j] \in Entry
  BY Parts
<1>2. CASE ~Restorable(loaded[j])
  BY <1>2, NothingHere DEF Restored
<1>3. CASE Restorable(loaded[j])
  <2>1. Restored[j] = Requeued(loaded[j]) /\ loaded[j].status \notin {"none", "success"}
    BY <1>3 DEF Restored, Restorable
  <2> QED BY <1>1, <2>1 DEF Requeued, Entry, Here, Content, Alike
<1> QED BY <1>2, <1>3

LEMMA NextSource ==
    ASSUME Consistent, [Next]_vars, NEW j \in Jobs, j \notin ghost'.crossed, j \notin ghost.crossed
    PROVE  Source(j)'
<1> SUFFICES ASSUME form'[j].at \in {"media", "storing"} PROVE form'[j].source.status \in {"none", "failed"}
  BY DEF Source
<1>0. Typed /\ Source(j) /\ form[j] \in Form
  BY Parts DEF Consistent, Coherent, Editors
<1>1. CASE form'[j] = form[j]
  BY <1>0, <1>1 DEF Source
<1>2. CASE form'[j] = [at |-> "storing", entry |-> Queued(1, 1, FALSE), source |-> NoEntry]
  BY <1>2, NothingHere
<1>3. CASE Submit(j) /\ form'[j].source = jobs[j]
  BY <1>0, <1>3, EditAtRest DEF AtRest
<1>4. CASE form[j].at = "media" /\ form'[j] = [form[j] EXCEPT !.at = "storing"]
  BY <1>0, <1>4 DEF Source, Form
<1> QED BY <1>0, <1>1, <1>2, <1>3, <1>4, FormMoves, ClosedIs

(* An edit is put back as it was found: failed, never as published.        *)
LEMMA PutBackAs ==
    ASSUME Consistent, NEW j \in Jobs, PutBack(j), j \notin ghost.crossed
    PROVE  /\ form[j].at = "storing" /\ Sent(j) = {} /\ jobs'[j].status \in {"none", "failed"}
           /\ Marked("form", j)
<1>0. Typed /\ Filed /\ Storing(j) /\ Source(j)
  BY DEF Consistent, Basic, Coherent
<1>1. writes # <<>> /\ writes' = Tail(writes)
  BY DEF PutBack, StoreForForm, Stores
<1>2. Marked("form", j)
  BY <1>0, <1>1, ShrinksMarks DEF PutBack
<1> QED BY <1>0, <1>2 DEF Filed, Storing, Source, PutBack

LEMMA NextFaithful ==
    ASSUME Consistent, [Next]_vars, NEW j \in Jobs, j \notin ghost'.crossed, j \notin ghost.crossed
    PROVE  Faithful(j)'
<1>0. /\ Typed /\ Typed' /\ Chain /\ Fate(j) /\ Basic /\ Faithful(j) /\ Storing(j) /\ Entering(j)
      /\ \A p \in Sent(j), e \in Copies(j) : Here(e) => Content(e) = p /\ e.prepared
      /\ \A e \in Copies(j) : e.status = "success" => Published(j)
      /\ jobs[j] \in Copies(j) /\ loaded[j] \in Copies(j)
  BY NextTyped, NextChain, NextFate DEF Consistent, Coherent, Faithful, Copies
<1>1. CASE Posts(j)
  <2>1. worker.at = "send" /\ worker.job = j /\ Here(jobs[j]) /\ user # NoOne
    BY <1>1, QueueAssumptions DEF Posts, Send
  <2>2. jobs' = jobs /\ stored' = stored /\ writes' = writes /\ loaded' = loaded /\ posted' = posted
    BY <1>1, <2>1 DEF Posts, Send
  <2>3. Copies(j)' = Copies(j) /\ (Published(j)' <=> Published(j))
    BY <2>2 DEF Copies, Past, Published
  <2>4. /\ jobs[j].media = worker.media /\ \A e \in Copies(j) : Alike(e, jobs[j])
    BY <1>0, <2>1 DEF Entering
  <2>5. Sent(j)' \subseteq Sent(j) \cup {[version |-> jobs[j].version, media |-> worker.media]}
    BY <1>0, <1>1, SentMoves
  <2>6. ASSUME NEW p \in Sent(j)', NEW e \in Copies(j)', Here(e)
        PROVE  Content(e) = p /\ e.prepared
    <3>1. e \in Copies(j)
      BY <2>3
    <3>2. CASE p \in Sent(j)
      BY <1>0, <2>6, <3>1, <3>2
    <3>3. CASE p = [version |-> jobs[j].version, media |-> worker.media]
      BY <2>4, <2>6, <3>1, <3>3 DEF Alike, Content
    <3> QED BY <2>5, <3>2, <3>3
  <2> QED BY <1>0, <2>3, <2>6 DEF Faithful
<1>2. CASE ~Posts(j)
  <2>1. Sent(j)' \subseteq Sent(j) /\ (Published(j) => Published(j)')
    BY <1>0, <1>2, SentMoves
  <2>2. Copies(j)' \subseteq Copies(j) \cup {jobs'[j], NoEntry}
    BY <1>0, CopiesMove
  <2>3. /\ \A p \in Sent(j) : Here(jobs'[j]) => Content(jobs'[j]) = p /\ jobs'[j].prepared
        /\ jobs'[j].status = "success" => Published(j)
    <3>1. CASE jobs'[j] = jobs[j]
      BY <1>0, <3>1
    <3>2. CASE Revised(j)
      <4>1. Here(jobs[j]) /\ Content(jobs'[j]) = Content(jobs[j]) /\ (jobs[j].prepared => jobs'[j].prepared)
        BY <3>2 DEF Revised, Revises, Content
      <4>2. CASE Answered /\ worker.job = j
        <5>1. posted[<<worker.by, j>>] # NoPost /\ worker.by \in Users
          BY <1>0, <4>2 DEF Answered, Served, Typed, WorkerTyped
        <5>2. Published(j)
          BY <5>1 DEF Published
        <5> QED BY <1>0, <4>1, <5>2
      <4>3. CASE jobs'[j].status = "success" => jobs[j].status = "success"
        BY <1>0, <4>1, <4>3
      <4> QED BY <3>2, <4>2, <4>3 DEF Revised
    <3>3. CASE Dropped(j)
      BY <3>3, NothingHere DEF Dropped
    <3>4. CASE Revived(j)
      BY <1>0, <3>4, ContentOf DEF Revived, Here
    <3>5. CASE Created(j)
      <4>1. j \notin ghost.born /\ jobs'[j].status = "queued"
        BY <3>5, FirstQueued DEF Created, EnqueueNew
      <4>2. Sent(j) = {}
        BY <1>0, <4>1 DEF Basic, Known
      <4> QED BY <4>1, <4>2
    <3>6. CASE Placed(j)
      <4>1. AtRest(j) /\ form[j].at = "media"
        BY <1>0, <3>6, EditAtRest DEF Placed, Place
      <4>2. jobs'[j].status = "queued"
        BY <1>0, <3>6, <4>1, Parts DEF Placed, Editors
      <4> QED BY <4>1, <4>2, RestIsUnsent
    <3>7. CASE PutBack(j)
      BY <3>7, PutBackAs
    <3> QED BY <1>0, <3>1, <3>2, <3>3, <3>4, <3>5, <3>6, <3>7 DEF Fate
  <2>4. ASSUME NEW p \in Sent(j)', NEW e \in Copies(j)', Here(e) PROVE Content(e) = p /\ e.prepared
    BY <1>0, <2>1, <2>2, <2>3, <2>4, NothingHere
  <2>5. ASSUME NEW e \in Copies(j)', e.status = "success" PROVE Published(j)'
    BY <1>0, <2>1, <2>2, <2>3, <2>5, NothingHere
  <2> QED BY <2>4, <2>5 DEF Faithful
<1> QED BY <1>1, <1>2

(* Writes keep their order.                                                *)
LEMMA OrderMoves ==
    ASSUME Typed, Chain, NEW j \in Jobs, Before(j), ~Appends("form", j)
    PROVE  Before(j)'
<1> SUFFICES ASSUME NEW i \in DOMAIN writes', NEW k \in DOMAIN writes',
                    Marks(i, "form", j)', Marks(k, "worker", j)'
             PROVE  i < k
  BY DEF Before
<1>0. \A a, b \in DOMAIN writes : Marks(a, "form", j) /\ Marks(b, "worker", j) => a < b
  BY DEF Before
<1>1. CASE Grows
  <2>1. PICK by \in Writers, h \in Jobs : Appends(by, h)
    BY <1>1 DEF Grows
  <2>2. PICK n \in Nat :
           /\ n = Len(writes) /\ DOMAIN writes = 1..n /\ DOMAIN writes' = 1..(n + 1)
           /\ \A a \in 1..n : writes'[a] = writes[a]
           /\ writes'[n + 1].by = by /\ writes'[n + 1].job = h
    BY <2>1, AppendIndices
  <2>3. CASE i = n + 1
    BY <1>0, <2>1, <2>2, <2>3 DEF Marks
  <2>4. CASE i # n + 1
    <3>1. i \in 1..n /\ Marks(i, "form", j)
      BY <2>2, <2>4 DEF Marks
    <3>2. CASE k = n + 1
      BY <2>2, <3>1, <3>2
    <3>3. CASE k # n + 1
      BY <1>0, <2>2, <3>1, <3>3 DEF Marks
    <3> QED BY <3>2, <3>3
  <2> QED BY <2>3, <2>4
<1>2. CASE Shrinks
  <2>1. PICK n \in Nat :
           /\ n = Len(writes) /\ n >= 1 /\ DOMAIN writes = 1..n /\ DOMAIN writes' = 1..(n - 1)
           /\ \A a \in 1..(n - 1) : writes'[a] = writes[a + 1]
    BY <1>2, TailIndices DEF Shrinks
  <2>2. i + 1 \in DOMAIN writes /\ k + 1 \in DOMAIN writes /\ i \in Int /\ k \in Int
    BY <2>1
  <2>3. Marks(i + 1, "form", j) /\ Marks(k + 1, "worker", j)
    BY <2>1 DEF Marks
  <2>4. i + 1 < k + 1
    BY <1>0, <2>2, <2>3
  <2> QED BY <2>2, <2>4
<1>3. CASE Stays
  BY <1>0, <1>3 DEF Stays, Marks
<1>4. CASE Wiped
  BY <1>4 DEF Wiped
<1> QED BY <1>1, <1>2, <1>3, <1>4 DEF Chain

(* The first write is before the others.                                   *)
LEMMA HeadIsFirst ==
    ASSUME Typed, writes # <<>>, NEW j \in Jobs, Before(j), Marked("form", j)
    PROVE  ~(Head(writes).by = "worker" /\ Head(writes).job = j)
<1> SUFFICES ASSUME Head(writes).by = "worker", Head(writes).job = j PROVE FALSE
  OBVIOUS
<1>1. PICK i \in DOMAIN writes : Marks(i, "form", j)
  BY DEF Marked
<1>2. Len(writes) \in Nat /\ DOMAIN writes = 1..Len(writes)
  BY Indices
<1>3. 1 \in DOMAIN writes /\ Head(writes) = writes[1] /\ i >= 1
  <2>1. Head(writes) = writes[1]
    BY HeadTailProperties, Parts
  <2> QED BY <1>1, <1>2, <2>1
<1>4. Marks(1, "worker", j)
  BY <1>3 DEF Marks
<1>5. i < 1
  BY <1>1, <1>3, <1>4 DEF Before
<1> QED BY <1>2, <1>3, <1>5

LEMMA NextStoring ==
    ASSUME Consistent, [Next]_vars, NEW j \in Jobs, j \notin ghost'.crossed, j \notin ghost.crossed
    PROVE  Storing(j)'
<1> SUFFICES ASSUME form'[j].at = "storing"
             PROVE  /\ Sent(j)' = {}
                    /\ worker'.job = j => worker'.at \in {"idle", "started", "recording"}
                    /\ worker'.job = j /\ worker'.at = "started" => Before(j)'
  BY DEF Storing
<1>0. /\ Typed /\ Typed' /\ Chain /\ Basic /\ Waited /\ Storing(j)
      /\ form[j].at = "storing" <=> Marked("form", j)
  BY NextTyped, NextChain DEF Consistent, Basic, Coherent, Filed
<1>1. CASE EnqueueNew(j)
  <2>1. Sent(j) = {} /\ (worker.job = j => worker.at = "idle")
    BY <1>0, <1>1 DEF EnqueueNew, Basic, Known
  <2>2. worker' = worker /\ requests' = requests /\ posted' = posted
    BY <1>1 DEF EnqueueNew
  <2> QED BY <2>1, <2>2 DEF Sent
<1>2. CASE Place(j)
  <2>1. AtRest(j)
    BY <1>0, <1>2, EditAtRest
  <2>2. worker' = worker /\ requests' = requests /\ posted' = posted
    BY <1>2 DEF Place
  <2>3. Sent(j) = {} /\ (worker.job = j => worker.at \in {"idle", "recording"})
    BY <2>1, RestIsUnsent DEF AtRest
  <2> QED BY <2>2, <2>3 DEF Sent
<1>3. CASE ~EnqueueNew(j) /\ ~Place(j)
  <2>1. form[j].at = "storing" /\ Marked("form", j)
    <3>1. form[j].at = "storing"
      BY <1>0, <1>3, FormMoves, ClosedIs
    <3> QED BY <1>0, <3>1
  <2>2. /\ Sent(j) = {}
        /\ worker.job = j => worker.at \in {"idle", "started", "recording"}
        /\ worker.job = j /\ worker.at = "started" => Before(j)
    BY <1>0, <2>1 DEF Storing
  <2>3. Sent(j)' = {}
    <3>1. ~Posts(j)
      BY <2>2 DEF Posts, Send
    <3> QED BY <1>0, <2>2, <3>1, SentMoves
  <2>4. ASSUME Before(j) PROVE Before(j)'
    <3>1. ~Appends("form", j)
      <4> SUFFICES ASSUME Appends("form", j), "form" \in Writers \ {"nobody"} PROVE FALSE
        BY Names
      <4>1. PICK n \in Nat :
               /\ n = Len(writes) /\ DOMAIN writes = 1..n /\ DOMAIN writes' = 1..(n + 1)
               /\ \A a \in 1..n : writes'[a] = writes[a]
               /\ writes'[n + 1].by = "form" /\ writes'[n + 1].job = j
        BY <1>0, AppendIndices
      <4>2. PICK i \in DOMAIN writes : Marks(i, "form", j)
        BY <2>1 DEF Marked
      <4>3. Marks(i, "form", j)' /\ Marks(n + 1, "form", j)' /\ i \in DOMAIN writes' /\ n + 1 \in DOMAIN writes'
        BY <4>1, <4>2 DEF Marks
      <4>4. Single("form", j)
        BY <1>0 DEF Basic, Filed
      <4>5. Unmarked("form", j)
        BY <1>0, <1>3, NextMarks, Names DEF Added, Adds
      <4>6. Single("form", j)'
        BY <4>4, <4>5 DEF Unmarked
      <4>7. i = n + 1
        BY <4>3, <4>6 DEF Single
      <4> QED BY <4>1, <4>2, <4>7
    <3> QED BY <1>0, <2>4, <3>1, OrderMoves
  <2>5. CASE worker' = worker
    BY <2>2, <2>3, <2>4, <2>5
  <2>6. CASE worker'.at = "idle"
    BY <2>3, <2>6
  <2>7. CASE worker'.job = worker.job /\ worker.at # "idle" /\ worker' # worker
    <3> SUFFICES ASSUME worker.job = j PROVE worker'.at \in {"idle"}
      BY <2>3, <2>7
    <3>1. worker.at \in {"started", "recording"} /\ worker.at \in Waits
      BY <2>2, <2>7 DEF Waits
    <3>2. ~(WorkerBlock \/ WorkerStep)
      BY <3>1, IdleTyped DEF WorkerBlock, WorkerStep, UploadBegins, Ready, Send, Close, Broken, Uploaded,
                  UploadFails, Answered, SaveFails, Start, Blocks
    <3>3. CASE Kill
      BY <3>3, IdleTyped DEF Kill
    <3>4. CASE StoreForWorker
      <4>1. writes # <<>> /\ writes' = Tail(writes) /\ Head(writes).by = "worker"
            /\ (worker.at = "recording" => Rest)
        BY <3>4 DEF StoreForWorker, Stores
      <4>2. Marked("worker", Head(writes).job) /\ Head(writes).job \in Jobs
        BY <1>0, <4>1, ShrinksMarks, HeadTyped
      <4>3. Head(writes).job = j
        BY <1>0, <4>2 DEF Waited
      <4>4. worker.at # "started"
        BY <1>0, <2>1, <2>2, <4>1, <4>3, HeadIsFirst
      <4> QED BY <3>1, <4>1, <4>4, RestTyped
    <3> QED BY <1>0, <2>7, <3>2, <3>3, <3>4, WorkerMoves
  <2>8. ASSUME NEW i \in Jobs, Start(i), worker'.job = i
        PROVE  /\ worker'.job = j => worker'.at \in {"idle", "started", "recording"}
               /\ worker'.job = j /\ worker'.at = "started" => Before(j)'
    <3>1. worker'.at = "started" /\ worker.at = "idle"
      <4>1. worker' = [Idle EXCEPT !.at = "started", !.job = i] /\ worker = Idle
        BY <2>8 DEF Start
      <4> QED BY <4>1, IdleTyped DEF Worker
    <3>2. ~Marked("worker", j)
      BY <1>0, <3>1 DEF Waited, Waits
    <3>3. Before(j)
      BY <3>2 DEF Marked, Before
    <3> QED BY <2>4, <3>1, <3>3
  <2> QED BY <1>0, <2>3, <2>5, <2>6, <2>7, <2>8, WorkerJob
<1> QED BY <1>1, <1>2, <1>3

(* How the worker comes to be about to send.                               *)
LEMMA EnteringFrom ==
    ASSUME Consistent, [Next]_vars, worker'.at \in {"entering", "send"}
    PROVE  \/ worker' = worker /\ worker.at = "entering"
           \/ UNCHANGED vars
           \/ /\ Ready /\ worker.at = "ready" /\ worker'.at = "entering" /\ worker'.job = worker.job
              /\ LET j == worker.job IN
                 /\ Here(jobs[j]) /\ jobs[j].prepared /\ worker'.media = jobs[j].media
                 /\ jobs' = [jobs EXCEPT ![j] = [jobs[j] EXCEPT !.status = "saving"]]
           \/ /\ StoreForWorker /\ worker.at = "entering" /\ worker'.at = "send"
              /\ worker'.job = worker.job /\ worker'.media = worker.media
              /\ Shrinks /\ stored' = Head(writes).jobs /\ Head(writes).by = "worker"
              /\ Head(writes).job = worker.job /\ jobs' = jobs
<1>0. Typed /\ Typed' /\ Basic /\ Waited /\ worker \in Worker
  BY NextTyped, Parts DEF Consistent, Basic
<1>1. ~Kill
  BY IdleTyped DEF Kill
<1>2. CASE StoreForWorker
  <2>1. PICK ok \in BOOLEAN :
          /\ Stores(ok) /\ Head(writes).by = "worker"
          /\ IF worker.at = "recording" THEN Rest ELSE Goto(IF ok THEN Resumed ELSE "broken")
          /\ jobs' = jobs
    BY <1>2 DEF StoreForWorker
  <2>2. (IF ok THEN Resumed ELSE "broken") \in {"idle", "upload"} \cup Waits \cup Blocks
    BY DEF Resumed, Blocks
  <2>3. Goto(IF ok THEN Resumed ELSE "broken")
    BY <2>1, RestTyped
  <2>4. /\ worker'.at = (IF ok THEN Resumed ELSE "broken") /\ worker'.job = worker.job
        /\ worker'.media = worker.media
    BY <1>0, <2>2, <2>3, GotoTyped
  <2>5. ok /\ Resumed \in {"entering", "send"}
    BY <2>4
  <2>6. worker.at = "entering" /\ worker'.at = "send"
    BY <2>4, <2>5 DEF Resumed
  <2>7. writes # <<>> /\ writes' = Tail(writes) /\ stored' = Head(writes).jobs
    BY <2>1, <2>5 DEF Stores
  <2>8. Marked("worker", Head(writes).job) /\ Head(writes).job \in Jobs
    BY <1>0, <2>1, <2>7, ShrinksMarks, HeadTyped
  <2>9. Head(writes).job = worker.job
    BY <1>0, <2>8 DEF Waited
  <2> QED BY <1>2, <2>1, <2>4, <2>6, <2>7, <2>9 DEF Shrinks
<1>3. CASE WorkerBlock \/ WorkerStep
  <2>1. ASSUME NEW e, Fail(e) PROVE FALSE
    BY <1>0, <2>1, RestTyped, LeaveTyped DEF Fail, Waits
  <2>2. CASE Ready
    <3>1. LET j == worker.job IN
          /\ Here(jobs[j]) /\ jobs[j].prepared
          /\ jobs' = [jobs EXCEPT ![j] = [jobs[j] EXCEPT !.status = "saving"]]
          /\ worker' = [worker EXCEPT !.at = "entering", !.media = jobs[j].media]
      BY <1>0, <2>1, <2>2, ReadyCommits
    <3>2. worker.at = "ready"
      BY <2>2 DEF Ready
    <3>3. worker'.at = "entering" /\ worker'.job = worker.job /\ worker'.media = jobs[worker.job].media
      BY <1>0, <3>1 DEF Worker
    <3> QED BY <2>2, <3>1, <3>2, <3>3
  <2>3. CASE UploadBegins
    BY <1>0, <2>3 DEF UploadBegins, Worker
  <2>4. CASE Send
    BY <1>0, <2>1, <2>4, RestTyped DEF Send, Worker
  <2>5. CASE Close \/ Broken \/ UploadFails \/ SaveFails
    BY <2>1, <2>5, RestTyped DEF Close, Broken, UploadFails, SaveFails
  <2>6. CASE Uploaded \/ Answered
    BY <1>0, <2>6, LeaveTyped DEF Uploaded, Answered, Waits
  <2>7. ASSUME NEW j \in Jobs, Start(j) PROVE FALSE
    BY <2>7, IdleTyped DEF Start, Worker
  <2> QED BY <1>3, <2>2, <2>3, <2>4, <2>5, <2>6, <2>7 DEF WorkerBlock, WorkerStep
<1>4. CASE ~(WorkerBlock \/ WorkerStep) /\ ~StoreForWorker
  <2>1. worker' = worker
    BY <1>0, <1>1, <1>4, WorkerMoves
  <2>2. CASE worker.at = "send"
    <3>1. InBlock
      BY <2>2 DEF InBlock, Blocks
    <3> QED BY <1>4, <3>1 DEF Next
  <2>3. CASE worker.at = "entering"
    BY <2>1, <2>3
  <2> QED BY <2>1, <2>2, <2>3
<1> QED BY <1>2, <1>3, <1>4

LEMMA AlikeTrans ==
    ASSUME NEW e, NEW f, NEW g, Alike(e, f), Here(f), Content(f) = Content(g) PROVE Alike(e, g)
BY DEF Alike

LEMMA NextEntering ==
    ASSUME Consistent, [Next]_vars, NEW j \in Jobs, j \notin ghost'.crossed, j \notin ghost.crossed
    PROVE  Entering(j)'
<1> SUFFICES ASSUME worker'.job = j, Here(jobs'[j]), worker'.at \in {"entering", "send"}
             PROVE  /\ jobs'[j].media = worker'.media /\ jobs'[j].prepared
                    /\ worker'.at = "entering" => \A e \in Since("worker", j)' : Alike(e, jobs'[j])
                    /\ worker'.at = "send" => \A e \in Copies(j)' : Alike(e, jobs'[j])
  <2> USE DEF Alike, Here
  <2> QED BY DEF Entering
<1>0. /\ Typed /\ Typed' /\ Chain /\ Fate(j) /\ Basic /\ Waited /\ Entering(j) /\ Storing(j)
      /\ worker \in Worker
  BY NextTyped, NextChain, NextFate, Parts DEF Consistent, Basic, Coherent
<1>1. CASE worker' = worker /\ worker.at = "entering"
  <2>1. jobs'[j] = jobs[j] \/ Revised(j)
    <3>1. ~Dropped(j)
      BY NothingHere DEF Dropped
    <3>2. ~Revived(j) /\ ~Created(j)
      BY <1>0, <1>1, IdleTyped DEF Revived, Created, Hydrate, EnqueueNew, Basic, Known, Booting
    <3>3. ~Placed(j)
      BY <1>0, <1>1, EditAtRest DEF Placed, AtRest
    <3>4. ~PutBack(j)
      BY <1>0, <1>1, PutBackAs DEF Storing
    <3> QED BY <1>0, <3>1, <3>2, <3>3, <3>4 DEF Fate
  <2>2. /\ Here(jobs[j]) /\ Content(jobs'[j]) = Content(jobs[j]) /\ jobs'[j].media = jobs[j].media
        /\ jobs[j].prepared => jobs'[j].prepared
    BY <2>1 DEF Revised, Revises, Content
  <2>3. /\ jobs[j].media = worker.media /\ jobs[j].prepared
        /\ \A e \in Since("worker", j) : Alike(e, jobs[j])
    BY <1>0, <1>1, <2>2 DEF Entering
  <2>4. Since("worker", j)' \subseteq Since("worker", j) \cup {jobs'[j]}
    BY <1>0, SinceMove
  <2>5. ASSUME NEW e \in Since("worker", j)' PROVE Alike(e, jobs'[j])
    <3>1. CASE e = jobs'[j]
      BY <2>2, <2>3, <3>1 DEF Alike
    <3>2. CASE e \in Since("worker", j)
      BY <2>2, <2>3, <3>2 DEF Alike
    <3> QED BY <2>4, <3>1, <3>2
  <2> QED BY <1>1, <2>2, <2>3, <2>5
<1>2. CASE UNCHANGED vars
  <2>1. worker' = worker /\ jobs' = jobs /\ writes' = writes /\ stored' = stored /\ loaded' = loaded
    BY <1>2 DEF vars
  <2>2. Copies(j)' = Copies(j) /\ Since("worker", j)' = Since("worker", j)
    BY <2>1 DEF Copies, Past, Since, Marks
  <2> QED BY <1>0, <2>1, <2>2 DEF Entering
<1>3. CASE /\ Ready /\ worker.at = "ready" /\ worker'.at = "entering" /\ worker'.job = worker.job
           /\ Here(jobs[worker.job]) /\ jobs[worker.job].prepared /\ worker'.media = jobs[worker.job].media
           /\ jobs' = [jobs EXCEPT ![worker.job] = [jobs[worker.job] EXCEPT !.status = "saving"]]
  <2>1. jobs'[j] = [jobs[j] EXCEPT !.status = "saving"] /\ jobs[j] \in Entry
    BY <1>0, <1>3, Parts DEF Queues
  <2>2. jobs'[j].media = jobs[j].media /\ jobs'[j].prepared = jobs[j].prepared
    BY <2>1 DEF Entry
  <2>3. ~Marked("worker", j)
    BY <1>0, <1>3 DEF Waited, Waits
  <2>4. Since("worker", j)' = {jobs'[j]}
    BY <1>0, <2>3, SinceMove
  <2> QED BY <1>3, <2>2, <2>4 DEF Alike
<1>4. CASE /\ StoreForWorker /\ worker.at = "entering" /\ worker'.at = "send"
           /\ worker'.job = worker.job /\ worker'.media = worker.media
           /\ Shrinks /\ stored' = Head(writes).jobs /\ Head(writes).by = "worker"
           /\ Head(writes).job = worker.job /\ jobs' = jobs
  <2>1. stored'[j] \in Since("worker", j) /\ Past(j)' \subseteq Since("worker", j)
    BY <1>0, <1>4, Cut
  <2>2. loaded' = Empty
    BY <1>0, <1>4, IdleTyped DEF Basic, Booting, StoreForWorker
  <2>3. jobs'[j] \in Since("worker", j)
    BY <1>4, SincePart
  <2>4. Copies(j)' \subseteq Since("worker", j) \cup {NoEntry}
    BY <2>1, <2>2, <2>3 DEF Copies, Empty
  <2>5. /\ jobs[j].media = worker.media /\ jobs[j].prepared
        /\ \A e \in Since("worker", j) : Alike(e, jobs[j])
    BY <1>0, <1>4 DEF Entering
  <2>6. ASSUME NEW e \in Copies(j)' PROVE Alike(e, jobs[j])
    BY <2>4, <2>5, <2>6, NothingHere DEF Alike
  <2> QED BY <1>4, <2>5, <2>6
<1> QED BY <1>1, <1>2, <1>3, <1>4, EnteringFrom

LEMMA NextCoherent == ASSUME Consistent, [Next]_vars PROVE Coherent'
<1> SUFFICES ASSUME NEW j \in Jobs, j \notin ghost'.crossed
             PROVE  Source(j)' /\ Faithful(j)' /\ Storing(j)' /\ Entering(j)'
  BY DEF Coherent
<1>1. j \notin ghost.crossed
  BY NextRemembers DEF Consistent, Remembers
<1> QED BY <1>1, NextSource, NextFaithful, NextStoring, NextEntering

LEMMA AlwaysConsistent == Spec => []Consistent
<1>1. Init => Consistent
  BY InitTyped, InitBasic, InitCoherent DEF Consistent
<1>2. Consistent /\ [Next]_vars => Consistent'
  BY NextTyped, NextBasic, NextCoherent DEF Consistent
<1> QED BY <1>1, <1>2, PTL DEF Spec

LEMMA CoherentPublishes == Consistent => PublishedAsQueued
<1> SUFFICES ASSUME Consistent, NEW j \in Jobs, j \notin ghost.crossed, j \notin ghost.swapped,
                    jobs[j].status = "success"
             PROVE  posted[<<Owner[j], j>>] = [version |-> jobs[j].version, media |-> jobs[j].media]
  BY DEF PublishedAsQueued
<1>1. jobs[j] \in Copies(j) /\ Here(jobs[j])
  BY DEF Copies, Here
<1>2. PICK u \in Users : posted[<<u, j>>] # NoPost
  BY <1>1 DEF Consistent, Coherent, Faithful, Published
<1>3. u = Owner[j]
  BY <1>2 DEF Consistent, Basic, Credited
<1>4. posted[<<u, j>>] \in Sent(j)
  BY <1>2, SentMembers
<1> QED BY <1>1, <1>3, <1>4 DEF Consistent, Coherent, Faithful, Content

(* A job shown as published was published by its owner with the text and   *)
(* the images it has in the queue, however its upload, the writes of the   *)
(* queue, restarts and retries interleave.                                 *)
THEOREM PublishedContentExact == Spec => []PublishedAsQueued
BY AlwaysConsistent, CoherentPublishes, PTL
-----------------------------------------------------------------------------
(* The images of a job that is to be taken up again: those of each of its  *)
(* copies; those an edit will delete, which no copy written since has; and *)
(* those a review may keep.                                                *)
Supplied(j) == \A e \in Copies(j) : Kept(e) /\ ~e.prepared => <<j, e.media>> \in files
Replacing(j) ==
    form[j].at = "storing" /\ form[j].source.media # form[j].entry.media =>
        \A e \in Since("form", j) : Here(e) => e.media # form[j].source.media
Reviewing(j) ==
    form[j].at \in {"open", "media"} =>
        \/ Published(j) \/ ~Here(jobs[j]) \/ form[j].entry.prepared
        \/ <<j, form[j].entry.media>> \in files
Discarding(j) == Marked("discard", j) => \A e \in Since("discard", j) : ~Here(e)

Provided ==
    /\ \A j \in Jobs : Discarding(j)
    /\ \A j \in Jobs \ (ghost.crossed \cup ghost.rejected) : Supplied(j) /\ Replacing(j) /\ Reviewing(j)
WithMedia == Consistent /\ Provided

LEMMA NextDiscarding == ASSUME WithMedia, [Next]_vars, NEW j \in Jobs PROVE Discarding(j)'
<1> SUFFICES ASSUME Marked("discard", j)', NEW e \in Since("discard", j)', Here(e) PROVE FALSE
  BY DEF Discarding, Here
<1>0. /\ Typed /\ Typed' /\ Chain /\ Fate(j) /\ Basic /\ Discarding(j)
  BY NextTyped, NextChain, NextFate DEF WithMedia, Consistent, Provided
<1>1. CASE Marked("discard", j)
  <2>1. \A d \in Since("discard", j) : ~Here(d)
    BY <1>0, <1>1 DEF Discarding
  <2>2. ~EnqueueNew(j)
    BY <1>0, <1>1 DEF EnqueueNew, Basic, Known
  <2>3. ~Hydrate
    BY <1>0, <1>1 DEF Hydrate, Basic, Booting
  <2>4. ~Here(jobs[j])
    BY <2>1, SincePart
  <2>5. ~Here(jobs'[j])
    BY <1>0, <2>2, <2>3, <2>4, HereBefore
  <2> QED BY <1>0, <2>1, <2>5, SinceMove
<1>2. CASE ~Marked("discard", j)
  <2>1. Discard(j)
    BY <1>0, <1>2, NextMarks, Names DEF Unmarked, Added, Adds
  <2>2. jobs' = [jobs EXCEPT ![j] = NoEntry]
    BY <1>0, <2>1, UserChain
  <2>3. jobs'[j] = NoEntry
    BY <1>0, <2>2, Parts DEF Queues
  <2> QED BY <1>0, <1>2, <2>3, SinceMove, NothingHere
<1> QED BY <1>1, <1>2

(* Who deletes an image of a job that was not published.                   *)
FormDeletes(j, m) ==
    /\ StoreForForm /\ Shrinks /\ stored' = Head(writes).jobs
    /\ Head(writes).by = "form" /\ Head(writes).job = j
    /\ jobs' = jobs /\ m = form[j].source.media /\ m # form[j].entry.media
DiscardDeletes(j) ==
    /\ StoreForOthers /\ Shrinks /\ stored' = Head(writes).jobs
    /\ Head(writes).by = "discard" /\ Head(writes).job = j /\ jobs' = jobs

LEMMA FilesKept ==
    ASSUME Consistent, [Next]_vars, NEW j \in Jobs, j \notin ghost.crossed, j \notin ghost'.rejected,
           ~Published(j), NEW m, <<j, m>> \in files
    PROVE  <<j, m>> \in files' \/ FormDeletes(j, m) \/ DiscardDeletes(j)
<1>0. Typed /\ Basic /\ Faithful(j)
  BY DEF Consistent, Coherent
<1>1. CASE Hydrate
  <2>1. loaded[j].status # "success"
    BY <1>0 DEF Faithful, Copies
  <2>2. files' = files \ {<<h, loaded[h].media>> : h \in {i \in Jobs : loaded[i].status = "success"}}
    BY <1>1 DEF Hydrate
  <2> QED BY <2>1, <2>2
<1>2. CASE Load \/ Kill \/ SignIn \/ StoreForWorker \/ WorkerStep
  BY <1>2 DEF Load, Kill, SignIn, StoreForWorker, WorkerStep, Uploaded, UploadFails, Answered, SaveFails, Start
<1>3. CASE \E r \in requests : Serve(r)
  BY <1>3 DEF Serve
<1>4. ASSUME NEW i \in Jobs,
             EnqueueNew(i) \/ OpenReview(i) \/ Submit(i) \/ Place(i) \/ Retry(i) \/ Discard(i) \/ TimerFires(i)
      PROVE  files \subseteq files'
  BY <1>4 DEF EnqueueNew, OpenReview, Submit, Place, Retry, Discard, TimerFires
<1>5. CASE StoreForForm
  <2>1. PICK ok \in BOOLEAN :
          /\ Stores(ok) /\ Head(writes).by = "form"
          /\ files' = files \ Of(Head(writes).job, IF ok THEN Replaced(form[Head(writes).job])
                                                   ELSE New(form[Head(writes).job]))
          /\ jobs' = IF ok THEN jobs ELSE Update(Head(writes).job, form[Head(writes).job].source)
          /\ ghost' = IF ok THEN [ghost EXCEPT !.accepted = @ \cup {Head(writes).job}]
                      ELSE [ghost EXCEPT !.rejected = @ \cup {Head(writes).job}]
    BY <1>5 DEF StoreForForm
  <2>2. CASE Head(writes).job # j
    BY <2>1, <2>2 DEF Of
  <2>3. CASE Head(writes).job = j
    <3>1. ok
      BY <1>0, <2>1, <2>3 DEF Typed, OtherTyped, Ghost
    <3>2. Shrinks /\ stored' = Head(writes).jobs /\ jobs' = jobs
      BY <2>1, <3>1 DEF Stores, Shrinks
    <3>3. files' = files \ Of(j, Replaced(form[j]))
      BY <2>1, <2>3, <3>1
    <3>4. <<j, m>> \in files' \/ (m = form[j].source.media /\ m # form[j].entry.media)
      BY <3>3 DEF Of, Replaced
    <3> QED BY <1>5, <2>1, <2>3, <3>2, <3>4 DEF FormDeletes
  <2> QED BY <2>2, <2>3
<1>6. CASE StoreForOthers
  <2>1. PICK ok \in BOOLEAN :
          /\ Stores(ok)
          /\ files' = IF ok /\ Head(writes).by = "discard"
                      THEN files \ {<<Head(writes).job, Head(writes).media>>} ELSE files
          /\ jobs' = jobs
    BY <1>6 DEF StoreForOthers
  <2>2. CASE ok /\ Head(writes).by = "discard" /\ Head(writes).job = j
    BY <1>6, <2>1, <2>2 DEF Stores, Shrinks, DiscardDeletes
  <2>3. CASE ~(ok /\ Head(writes).by = "discard" /\ Head(writes).job = j)
    BY <2>1, <2>3
  <2> QED BY <2>2, <2>3
<1>7. CASE WorkerBlock
  <2>1. CASE Close
    <3>1. Published(worker.job)
      BY <1>0, <2>1 DEF Close, Basic, Credited
    <3>2. worker.job # j
      BY <3>1
    <3> QED BY <2>1, <3>2 DEF Close
  <2>2. CASE UploadBegins \/ Ready \/ Send \/ Broken
    BY <2>2 DEF UploadBegins, Ready, Send, Broken
  <2> QED BY <1>7, <2>1, <2>2 DEF WorkerBlock
<1>8. CASE UNCHANGED vars
  BY <1>8 DEF vars
<1> QED BY <1>1, <1>2, <1>3, <1>4, <1>5, <1>6, <1>7, <1>8 DEF Next, StoreStep

LEMMA KeptIsHere == ASSUME NEW e PROVE /\ Kept(e) => Here(e)
                                       /\ Kept(e) => e.status # "success"
BY DEF Kept, Here

LEMMA HereIsKept == ASSUME NEW e \in Entry PROVE Here(e) /\ e.status # "success" => Kept(e)
BY DEF Kept, Here, Entry

LEMMA CopiesFit ==
    ASSUME Typed, NEW j \in Jobs, NEW e \in Copies(j)
    PROVE  e \in Entry /\ (Here(e) => e.media >= 1)
<1>1. PICK n \in Nat : /\ jobs[j] \in Fitting(n) /\ loaded[j] \in Fitting(n) /\ stored[j] \in Fitting(n)
                       /\ writes \in Seq(Snapshots(n)) /\ Fitting(n) \subseteq Entry
  BY Parts
<1>2. \A i \in DOMAIN writes : writes[i] \in Snapshots(n)
  BY <1>1, Indices, ElementOfSeq
<1>3. \A i \in DOMAIN writes : writes[i].jobs[j] \in Fitting(n)
  BY <1>2 DEF Snapshots, Queues
<1>4. e \in Fitting(n)
  BY <1>1, <1>3 DEF Copies, Past
<1> QED BY <1>1, <1>4 DEF Fitting

(* What was published has its images uploaded in every copy.               *)
LEMMA UnpreparedIsUnpublished ==
    ASSUME Consistent, NEW j \in Jobs, j \notin ghost.crossed, NEW e \in Copies(j), Here(e), ~e.prepared
    PROVE  ~Published(j) /\ e.status # "success"
<1>1. Faithful(j)
  BY DEF Consistent, Coherent
<1>2. Published(j) => Sent(j) # {}
  BY SentMembers DEF Published
<1> QED BY <1>1, <1>2 DEF Faithful

(* The queue is not being read while an edit that has a source waits.      *)
LEMMA ReadIsOver ==
    ASSUME Consistent, NEW j \in Jobs, NEW e, e = loaded[j], Here(e)
    PROVE  phase = "read" /\ form[j].source.media = 0 /\ ~Marked("discard", j)
<1>1. loaded # Empty
  BY NothingHere DEF Empty
<1>2. phase = "read" /\ form[j].source = NoEntry /\ ~Marked("discard", j)
  BY <1>1 DEF Consistent, Basic, Booting
<1> QED BY <1>2 DEF NoEntry

LEMMA NextSupplied ==
    ASSUME WithMedia, [Next]_vars, NEW j \in Jobs, j \notin ghost'.crossed, j \notin ghost.crossed,
           j \notin ghost'.rejected, j \notin ghost.rejected
    PROVE  Supplied(j)'
<1> SUFFICES ASSUME NEW e \in Copies(j)', Kept(e), ~e.prepared PROVE <<j, e.media>> \in files'
  BY DEF Supplied, Kept
<1>0. /\ Consistent /\ Typed /\ Typed' /\ Chain /\ Fate(j) /\ Basic
      /\ Supplied(j) /\ Replacing(j) /\ Reviewing(j) /\ Discarding(j)
      /\ Here(e)
  BY NextTyped, NextChain, NextFate, KeptIsHere DEF WithMedia, Consistent, Provided
(* An entry of which there was a copy.                                     *)
<1>1. ASSUME NEW d \in Copies(j), Here(d), ~d.prepared, d.media = e.media
      PROVE  <<j, e.media>> \in files'
  <2>1. ~Published(j) /\ d.status # "success"
    BY <1>0, <1>1, UnpreparedIsUnpublished
  <2>2. <<j, e.media>> \in files
    BY <1>0, <1>1, <2>1, CopiesFit, HereIsKept DEF Supplied
  <2>3. ~FormDeletes(j, e.media)
    <3> SUFFICES ASSUME FormDeletes(j, e.media) PROVE FALSE
      OBVIOUS
    <3>1. stored'[j] \in Since("form", j) /\ Past(j)' \subseteq Since("form", j)
      BY <1>0, Cut DEF FormDeletes
    <3>2. jobs'[j] \in Since("form", j)
      BY SincePart DEF FormDeletes
    <3>3. loaded' = loaded
      BY DEF FormDeletes, StoreForForm
    <3>4. Marked("form", j)
      BY <1>0, ShrinksMarks DEF FormDeletes, Shrinks
    <3>5. form[j].at = "storing"
      BY <1>0, <3>4 DEF Basic, Filed
    <3>6. CASE e \in Since("form", j)
      BY <1>0, <3>5, <3>6 DEF FormDeletes, Replacing
    <3>7. CASE e = loaded[j]
      <4>1. form[j].source.media = 0
        BY <1>0, <3>7, ReadIsOver
      <4>2. e.media >= 1
        BY <1>0, CopiesFit, <3>7 DEF Copies
      <4> QED BY <4>1, <4>2 DEF FormDeletes
    <3> QED BY <3>1, <3>2, <3>3, <3>6, <3>7 DEF Copies
  <2>4. ~DiscardDeletes(j)
    <3> SUFFICES ASSUME DiscardDeletes(j) PROVE FALSE
      OBVIOUS
    <3>1. stored'[j] \in Since("discard", j) /\ Past(j)' \subseteq Since("discard", j)
      BY <1>0, Cut DEF DiscardDeletes
    <3>2. jobs'[j] \in Since("discard", j)
      BY SincePart DEF DiscardDeletes
    <3>3. loaded' = loaded
      BY DEF DiscardDeletes, StoreForOthers
    <3>4. Marked("discard", j)
      BY <1>0, ShrinksMarks DEF DiscardDeletes, Shrinks
    <3>5. \A d1 \in Since("discard", j) : ~Here(d1)
      BY <1>0, <3>4 DEF Discarding
    <3>6. e # loaded[j]
      BY <1>0, <3>4, ReadIsOver
    <3> QED BY <1>0, <3>1, <3>2, <3>3, <3>5, <3>6 DEF Copies
  <2> QED BY <1>0, <2>1, <2>2, <2>3, <2>4, FilesKept
<1>2. jobs[j] \in Copies(j) /\ loaded[j] \in Copies(j)
  BY DEF Copies
<1>3. CASE e = jobs'[j]
  <2>1. CASE jobs'[j] = jobs[j]
    BY <1>0, <1>1, <1>2, <1>3, <2>1
  <2>2. CASE Revised(j)
    <3>1. Here(jobs[j]) /\ jobs[j].media = e.media /\ (jobs[j].prepared => e.prepared)
      BY <1>3, <2>2 DEF Revised, Revises
    <3> QED BY <1>1, <1>2, <3>1
  <2>3. CASE Dropped(j)
    BY <1>0, <1>3, <2>3, NothingHere DEF Dropped
  <2>4. CASE Revived(j)
    <3>1. Here(loaded[j]) /\ loaded[j].media = e.media /\ loaded[j].prepared = e.prepared
      BY <1>0, <1>3, <2>4, ContentOf DEF Revived, Content
    <3> QED BY <1>1, <1>2, <3>1
  <2>5. CASE Created(j)
    BY <1>3, <2>5, FirstQueued DEF Created, EnqueueNew
  <2>6. CASE Placed(j)
    <3>1. AtRest(j) /\ form[j].at = "media" /\ files' = files /\ Here(jobs[j])
      BY <1>0, <2>6, EditAtRest DEF Placed, Place
    <3>2. ~Published(j)
      BY <3>1, RestIsUnsent, SentMembers DEF Published
    <3>3. e = form[j].entry
      BY <1>3, <2>6 DEF Placed
    <3> QED BY <1>0, <3>1, <3>2, <3>3 DEF Reviewing
  <2>7. CASE PutBack(j)
    BY <2>7 DEF PutBack
  <2> QED BY <1>0, <2>1, <2>2, <2>3, <2>4, <2>5, <2>6, <2>7 DEF Fate
<1>4. CASE e \in Copies(j)
  BY <1>0, <1>1, <1>4
<1> QED BY <1>0, <1>3, <1>4, CopiesMove, NothingHere

LEMMA NextReplacing ==
    ASSUME WithMedia, [Next]_vars, NEW j \in Jobs, j \notin ghost'.crossed, j \notin ghost.crossed,
           j \notin ghost'.rejected, j \notin ghost.rejected
    PROVE  Replacing(j)'
<1> SUFFICES ASSUME form'[j].at = "storing", form'[j].source.media # form'[j].entry.media,
                    NEW e \in Since("form", j)', Here(e)
             PROVE  e.media # form'[j].source.media
  BY DEF Replacing, Here
<1>0. /\ Consistent /\ Typed /\ Typed' /\ Chain /\ Fate(j) /\ Basic /\ Replacing(j) /\ form[j] \in Form
      /\ form[j].at = "storing" <=> Marked("form", j)
  BY NextTyped, NextChain, NextFate, Parts DEF WithMedia, Consistent, Provided, Editors, Basic, Filed
<1>1. e \in Copies(j)'
  BY SincePart DEF Since, Copies, Past
<1>2. e.media >= 1 /\ e.media \in Nat
  <2>1. PICK n \in Nat : jobs' \in Queues(n)
    BY <1>0, BoundIsNat, NextTyped DEF Typed, DataTyped, QueuesTyped, UsedTyped, Bound
  <2>2. jobs'[j] \in Entry /\ (Here(jobs'[j]) => jobs'[j].media >= 1)
    BY <2>1 DEF Queues, Fitting
  <2>3. e \in Since("form", j) \cup {jobs'[j]}
    BY <1>0, SinceMove
  <2>4. e \in Entry /\ e.media >= 1
    BY <1>0, <2>2, <2>3, CopiesFit, SincePart
  <2> QED BY <2>4, Limits DEF Entry, Versions
<1>3. CASE form'[j].source = NoEntry
  BY <1>2, <1>3 DEF NoEntry
<1>4. CASE Place(j) /\ form'[j] = [form[j] EXCEPT !.at = "storing"]
  <2>1. /\ form[j].at = "media" /\ form'[j].source = form[j].source /\ form'[j].entry = form[j].entry
        /\ jobs' = Update(j, form[j].entry)
    <3>1. form[j].at = "media"
      BY <1>4 DEF Place
    <3>2. form'[j].source = form[j].source /\ form'[j].entry = form[j].entry
      BY <1>0, <1>4 DEF Form
    <3>3. jobs' = Update(j, form[j].entry)
      BY <1>0, <1>4, UserChain
    <3> QED BY <3>1, <3>2, <3>3
  <2>2. ~Marked("form", j)
    BY <1>0, <2>1
  <2>3. e = jobs'[j]
    BY <1>0, <2>2, SinceMove
  <2>4. e = form[j].entry
    <3>1. CASE Here(jobs[j])
      BY <1>0, <2>1, <2>3, <3>1, Parts DEF Update, Queues
    <3>2. CASE ~Here(jobs[j])
      BY <2>1, <2>3, <3>2 DEF Update
    <3> QED BY <3>1, <3>2
  <2> QED BY <2>1, <2>4
<1>5. CASE form'[j] = form[j] /\ form'[j].source # NoEntry
  <2>1. \A d \in Since("form", j) : Here(d) => d.media # form[j].source.media
    BY <1>0, <1>5 DEF Replacing
  <2>2. jobs[j] \in Since("form", j)
    BY SincePart
  <2>3. CASE e = jobs'[j]
    <3>1. CASE jobs'[j] = jobs[j]
      BY <1>5, <2>1, <2>2, <2>3, <3>1
    <3>2. CASE Revised(j)
      BY <1>5, <2>1, <2>2, <2>3, <3>2 DEF Revised, Revises
    <3>3. CASE Dropped(j)
      BY <2>3, <3>3, NothingHere DEF Dropped
    <3>4. CASE Revived(j)
      BY <1>0, <1>5, <3>4 DEF Revived, Hydrate, Basic, Booting
    <3>5. CASE Created(j)
      BY <1>0, <1>5, <3>5 DEF Created, EnqueueNew, Basic, Known
    <3>6. CASE Placed(j)
      BY <1>5, <3>6 DEF Placed, Place
    <3>7. CASE PutBack(j)
      BY <3>7 DEF PutBack
    <3> QED BY <1>0, <3>1, <3>2, <3>3, <3>4, <3>5, <3>6, <3>7 DEF Fate
  <2>4. CASE e \in Since("form", j)
    BY <1>5, <2>1, <2>4
  <2> QED BY <1>0, <2>3, <2>4, SinceMove
<1> QED BY <1>0, <1>3, <1>4, <1>5, FormMoves, ClosedIs

LEMMA NextReviewing ==
    ASSUME WithMedia, [Next]_vars, NEW j \in Jobs, j \notin ghost'.crossed, j \notin ghost.crossed,
           j \notin ghost'.rejected, j \notin ghost.rejected
    PROVE  Reviewing(j)'
<1> SUFFICES ASSUME form'[j].at \in {"open", "media"}, ~Published(j)', Here(jobs'[j]), ~form'[j].entry.prepared
             PROVE  <<j, form'[j].entry.media>> \in files'
  BY DEF Reviewing, Here
<1>0. /\ Consistent /\ Typed /\ Typed' /\ Chain /\ Fate(j) /\ Basic /\ form[j] \in Form
      /\ Supplied(j) /\ Reviewing(j) /\ Discarding(j)
      /\ ~Published(j)
  BY NextTyped, NextChain, NextFate, Parts, SentMoves DEF WithMedia, Consistent, Provided, Editors
<1>1. CASE OpenReview(j) /\ form'[j].entry = jobs[j]
  <2>1. Kept(jobs[j]) /\ jobs[j] \in Copies(j) /\ files' = files
    BY <1>1 DEF OpenReview, Offered, Kept, Copies
  <2> QED BY <1>0, <1>1, <2>1 DEF Supplied
<1>2. CASE Submit(j) /\ form[j].at = "open"
  <2>1. PICK same \in BOOLEAN :
          LET v == jobs[j].version + 1
              was == form[j].entry
              next == IF same THEN Queued(v, was.media, was.prepared) ELSE Queued(v, v, FALSE) IN
          /\ Here(jobs[j]) /\ Edits
          /\ files' = IF same THEN files ELSE files \cup {<<j, v>>}
          /\ form' = [form EXCEPT ![j] = [at |-> "media", entry |-> next, source |-> jobs[j]]]
    BY <1>2 DEF Submit
  <2>2. CASE same
    <3>1. form'[j].entry = Queued(jobs[j].version + 1, form[j].entry.media, form[j].entry.prepared)
      BY <1>0, <2>1, <2>2, Parts
    <3>2. NoEntry \in Entry
      BY NoEntryFits, 0 \in Nat DEF Fitting
    <3>3. form'[j].entry.media = form[j].entry.media /\ form'[j].entry.prepared = form[j].entry.prepared
      BY <3>1, <3>2 DEF Queued, Entry
    <3> QED BY <1>0, <1>2, <2>1, <2>2, <3>3 DEF Reviewing
  <2>3. CASE ~same
    <3>1. form'[j].entry = Queued(jobs[j].version + 1, jobs[j].version + 1, FALSE)
      BY <1>0, <2>1, <2>3, Parts
    <3>2. NoEntry \in Entry
      BY NoEntryFits, 0 \in Nat DEF Fitting
    <3>3. form'[j].entry.media = jobs[j].version + 1
      BY <3>1, <3>2 DEF Queued, Entry
    <3>4. files' = files \cup {<<j, jobs[j].version + 1>>}
      BY <2>1, <2>3
    <3> QED BY <3>3, <3>4
  <2> QED BY <2>2, <2>3
<1>3. CASE form'[j] = form[j]
  <2>1. ~Hydrate
    BY <1>0, <1>3 DEF Hydrate, Basic, Booting
  <2>2. ~EnqueueNew(j)
    BY <1>0, <1>3 DEF EnqueueNew, Basic, Known
  <2>3. Here(jobs[j])
    BY <1>0, <2>1, <2>2, HereBefore
  <2>4. <<j, form[j].entry.media>> \in files
    BY <1>0, <1>3, <2>3 DEF Reviewing
  <2>5. ~FormDeletes(j, form[j].entry.media)
    BY DEF FormDeletes
  <2>6. ~DiscardDeletes(j)
    <3> SUFFICES ASSUME DiscardDeletes(j) PROVE FALSE
      OBVIOUS
    <3>1. Marked("discard", j)
      BY <1>0, ShrinksMarks DEF DiscardDeletes, Shrinks
    <3> QED BY <1>0, <2>3, <3>1, SincePart DEF Discarding
  <2>7. <<j, form[j].entry.media>> \in files'
    BY <1>0, <2>4, <2>5, <2>6, FilesKept
  <2> QED BY <1>3, <2>7
<1>4. CASE form'[j].at \in {"storing", "closed"}
  BY <1>4
<1>5. CASE form'[j] = [form[j] EXCEPT !.at = "storing"]
  BY <1>0, <1>5 DEF Form
<1> QED BY <1>0, <1>1, <1>2, <1>3, <1>4, <1>5, FormMoves, ClosedIs

LEMMA InitProvided == Init => Provided
<1> SUFFICES ASSUME Init, NEW j \in Jobs PROVE Discarding(j) /\ Supplied(j) /\ Replacing(j) /\ Reviewing(j)
  BY DEF Provided
<1>1. form[j] = Closed /\ ~Marked("discard", j)
  BY InitMarks DEF Init
<1>2. \A e \in Copies(j) : ~Kept(e)
  <2>1. writes = <<>> /\ stored[j] = NoEntry /\ jobs[j] = NoEntry /\ loaded[j] = NoEntry
    BY DEF Init, Empty
  <2> QED BY <2>1, NothingHere DEF Copies, Past
<1> QED BY <1>1, <1>2, ClosedIs DEF Discarding, Supplied, Replacing, Reviewing

LEMMA NextProvided == ASSUME WithMedia, [Next]_vars PROVE Provided'
<1>1. ASSUME NEW j \in Jobs, j \notin ghost'.crossed, j \notin ghost'.rejected
      PROVE  Supplied(j)' /\ Replacing(j)' /\ Reviewing(j)'
  <2>1. j \notin ghost.crossed /\ j \notin ghost.rejected
    BY <1>1, NextRemembers DEF WithMedia, Consistent, Remembers
  <2> QED BY <1>1, <2>1, NextSupplied, NextReplacing, NextReviewing
<1> QED BY <1>1, NextDiscarding DEF Provided

LEMMA AlwaysProvided == Spec => []Provided
<1>1. Init => Provided
  BY InitProvided
<1>2. Consistent /\ Provided /\ [Next]_vars => Provided'
  BY NextProvided DEF WithMedia
<1> QED BY <1>1, <1>2, AlwaysConsistent, PTL DEF Spec

(* A job that is in storage to be taken up again finds its images, unless  *)
(* its edit could not be stored: those deleted after a publication, an     *)
(* edit or a discard are needed by no copy of it that is still to come.    *)
THEOREM QueuedMediaKept == Spec => []QueuedMediaStands
<1>1. Provided => QueuedMediaStands
  BY DEF Provided, Supplied, QueuedMediaStands, Copies
<1> QED BY <1>1, AlwaysProvided, PTL
-----------------------------------------------------------------------------
(* A publication that was accepted, unless it is excused: whatever is or   *)
(* will be stored still has it, in memory it is there once the queue is    *)
(* restored, and an edit that is put back puts it back.  What an editor    *)
(* waits for has the job from its write on.                                *)
Excused(j) ==
    \/ j \in ghost.discarded \/ j \in ghost.crossed \/ j \in ghost.swapped
    \/ posted[<<Owner[j], j>>] # NoPost
Standing(j) ==
    /\ Kept(stored[j]) /\ \A e \in Past(j) : Kept(e)
    /\ phase = "up" => Kept(jobs[j])
    /\ form[j].at \in {"media", "storing"} => Kept(form[j].source)
Awaited(j) == form[j].at = "storing" => \A e \in Since("form", j) : Kept(e)
Attended(j) == form[j].at = "media" => Here(jobs[j])
Accepting == ~ghost.reset => \A j \in Jobs :
    Excused(j) \/ ((j \in ghost.accepted => Standing(j)) /\ Awaited(j) /\ Attended(j))
WithAcceptance == Consistent /\ Accepting

LEMMA InitAccepting == Init => Accepting
<1> SUFFICES ASSUME Init, NEW j \in Jobs PROVE j \notin ghost.accepted /\ Awaited(j) /\ Attended(j)
  BY DEF Accepting
<1>1. form[j] = Closed /\ ghost.accepted = {}
  BY DEF Init
<1> QED BY <1>1, ClosedIs DEF Awaited, Attended

(* An excuse is never withdrawn.                                           *)
LEMMA ExcuseStays ==
    ASSUME Typed, [Next]_vars, NEW j \in Jobs, ~Excused(j)'
    PROVE  /\ ~Excused(j) /\ j \notin ghost'.crossed
           /\ j \notin ghost'.discarded /\ j \notin ghost'.swapped
<1>1. Remembers
  BY NextRemembers
<1>2. Owner[j] \in Users
  BY QueueAssumptions
<1> QED BY <1>1, <1>2, PostedStays DEF Excused, Remembers

LEMMA UnexcusedIsUnpublished ==
    ASSUME Consistent, NEW j \in Jobs, ~Excused(j) PROVE ~Published(j)
BY DEF Consistent, Basic, Credited, Excused, Published

LEMMA NotDropped ==
    ASSUME Consistent, [Next]_vars, NEW j \in Jobs, ~Excused(j)', Dropped(j) PROVE Kill
<1>0. /\ Typed /\ ~Excused(j) /\ j \notin ghost'.discarded /\ ~Published(j)
  BY ExcuseStays, UnexcusedIsUnpublished DEF Consistent
<1>1. ~TimerFires(j)
  BY <1>0 DEF TimerFires, Consistent, Basic, Credited
<1>2. ~Discard(j)
  BY <1>0 DEF Discard, Typed, OtherTyped, Ghost
<1> QED BY <1>1, <1>2 DEF Dropped

(* Publishing revises a job that stays to be taken up, and nobody else     *)
(* takes it away.                                                          *)
LEMMA KeptStep ==
    ASSUME Consistent, [Next]_vars, NEW j \in Jobs, ~Excused(j)', Kept(jobs[j])
    PROVE  Kept(jobs'[j]) \/ Kill \/ PutBack(j) \/ Hydrate
<1>0. /\ Typed /\ Fate(j) /\ ~Excused(j) /\ ~Published(j) /\ form[j] \in Editors(Bound)
  BY NextFate, ExcuseStays, UnexcusedIsUnpublished, Parts DEF Consistent
<1>1. CASE Revised(j)
  <2>1. ~(Answered /\ worker.job = j)
    BY <1>0 DEF Answered, Served, Published, Typed, WorkerTyped
  <2>2. jobs'[j] \in Entry /\ Here(jobs'[j]) /\ jobs[j].status # "success"
    BY <1>1, KeptIsHere DEF Revised, Revises
  <2>3. jobs'[j].status # "success"
    BY <1>1, <2>1, <2>2 DEF Revised
  <2> QED BY <2>2, <2>3, HereIsKept
<1>2. CASE Dropped(j)
  BY <1>2, NotDropped
<1>3. CASE Revived(j)
  BY <1>3 DEF Revived
<1>4. CASE Created(j)
  BY <1>4, FirstQueued DEF Created, Kept
<1>5. CASE Placed(j)
  BY <1>0, <1>5 DEF Placed, Place, Editors, Kept
<1> QED BY <1>0, <1>1, <1>2, <1>3, <1>4, <1>5 DEF Fate

LEMMA NextAwaited ==
    ASSUME WithAcceptance, [Next]_vars, ~ghost'.reset, NEW j \in Jobs, ~Excused(j)'
    PROVE  Awaited(j)'
<1> SUFFICES ASSUME form'[j].at = "storing", NEW e \in Since("form", j)' PROVE Kept(e)
  BY DEF Awaited, Kept
<1>0. /\ Consistent /\ Typed /\ Typed' /\ Chain /\ Basic /\ ~ghost.reset /\ ~Excused(j)
      /\ Awaited(j) /\ Attended(j) /\ form[j] \in Editors(Bound)
      /\ form[j].at = "storing" <=> Marked("form", j)
  <2>1. Consistent /\ Typed /\ Typed' /\ Chain /\ Basic /\ form[j] \in Editors(Bound)
    BY NextTyped, NextChain, Parts DEF WithAcceptance, Consistent
  <2>2. ~ghost.reset /\ ~Excused(j)
    BY <2>1, NextRemembers, ExcuseStays DEF Remembers
  <2> QED BY <2>1, <2>2 DEF WithAcceptance, Accepting, Basic, Filed
<1>1. CASE EnqueueNew(j)
  <2>1. form[j].at = "closed"
    BY <1>0, <1>1 DEF EnqueueNew, Basic, Known
  <2>2. e = jobs'[j]
    BY <1>0, <2>1, SinceMove
  <2>3. jobs' = [jobs EXCEPT ![j] = Queued(1, 1, FALSE)]
    BY <1>0, <1>1, UserChain
  <2>4. e = Queued(1, 1, FALSE)
    BY <1>0, <2>2, <2>3, Parts DEF Queues
  <2> QED BY <2>4, FirstQueued DEF Kept
<1>2. CASE Place(j)
  <2>1. form[j].at = "media" /\ Here(jobs[j])
    BY <1>0, <1>2 DEF Place, Attended
  <2>2. e = jobs'[j]
    BY <1>0, <2>1, SinceMove
  <2>3. jobs' = Update(j, form[j].entry)
    BY <1>0, <1>2, UserChain
  <2>4. e = form[j].entry
    BY <1>0, <2>1, <2>2, <2>3, Parts DEF Queues, Update
  <2> QED BY <1>0, <2>1, <2>4 DEF Editors, Kept
<1>3. CASE form'[j] = form[j] /\ ~Kill /\ ~PutBack(j)
  <2>1. \A d \in Since("form", j) : Kept(d)
    BY <1>0, <1>3 DEF Awaited
  <2>2. Kept(jobs[j])
    BY <2>1, SincePart
  <2>3. ~Hydrate
    BY <1>0, <1>3, ClosedIs DEF Hydrate, Basic, Booting
  <2>4. Kept(jobs'[j])
    BY <1>0, <1>3, <2>2, <2>3, KeptStep
  <2> QED BY <1>0, <2>1, <2>4, SinceMove
<1>4. ~Kill /\ ~PutBack(j)
  BY ClosedIs DEF Kill, PutBack
<1> QED BY <1>0, <1>1, <1>2, <1>3, <1>4, FormMoves, ClosedIs

LEMMA NextAttended ==
    ASSUME WithAcceptance, [Next]_vars, ~ghost'.reset, NEW j \in Jobs, ~Excused(j)'
    PROVE  Attended(j)'
<1> SUFFICES ASSUME form'[j].at = "media" PROVE Here(jobs'[j])
  BY DEF Attended, Here
<1>0. /\ Consistent /\ Typed /\ Typed' /\ Fate(j) /\ Basic /\ ~ghost.reset /\ ~Excused(j)
      /\ Attended(j) /\ form[j] \in Editors(Bound)
      /\ form[j].at = "storing" <=> Marked("form", j)
  <2>1. Consistent /\ Typed /\ Typed' /\ Fate(j) /\ Basic /\ form[j] \in Editors(Bound)
    BY NextTyped, NextFate, Parts DEF WithAcceptance, Consistent
  <2>2. ~ghost.reset /\ ~Excused(j)
    BY <2>1, NextRemembers, ExcuseStays DEF Remembers
  <2> QED BY <2>1, <2>2 DEF WithAcceptance, Accepting, Basic, Filed
<1>1. CASE Submit(j)
  BY <1>1 DEF Submit
<1>2. CASE form'[j] = form[j]
  <2>1. Here(jobs[j])
    BY <1>0, <1>2 DEF Attended
  <2>2. ~Hydrate /\ ~Kill
    BY <1>0, <1>2, ClosedIs DEF Hydrate, Kill, Basic, Booting
  <2>3. ~Dropped(j)
    BY <1>0, <2>2, NotDropped
  <2>4. ~PutBack(j)
    BY <1>2, ClosedIs DEF PutBack
  <2>5. CASE Revised(j)
    BY <2>5 DEF Revised, Revises
  <2>6. CASE Created(j)
    BY <2>6, FirstQueued DEF Created, Here
  <2>7. CASE Placed(j)
    BY <1>0, <2>7 DEF Placed, Place, Editors, Here
  <2> QED BY <1>0, <2>1, <2>2, <2>3, <2>4, <2>5, <2>6, <2>7 DEF Fate, Revived
<1>3. CASE form'[j] = [form[j] EXCEPT !.at = "storing"]
  BY <1>0, <1>3 DEF Editors, Form
<1>4. CASE form'[j] = [at |-> "storing", entry |-> Queued(1, 1, FALSE), source |-> NoEntry]
  BY <1>4
<1> QED BY <1>0, <1>1, <1>2, <1>3, <1>4, FormMoves, ClosedIs

(* A step before the queue is restored, if no queue was lost to it.        *)
LEMMA BootStep ==
    ASSUME Consistent, [Next]_vars, ~ghost'.reset, ~ghost.reset, phase # "up", NEW j \in Jobs, Kept(stored[j])
    PROVE  /\ Kept(stored'[j]) /\ \A e \in Past(j)' : Kept(e)
           /\ phase' = "up" => Kept(jobs'[j])
           /\ form'[j].at = "closed"
<1>0. /\ Typed /\ Typed' /\ Basic /\ stored[j] \in Entry
      /\ writes = <<>> /\ jobs = Empty /\ form[j] = Closed
      /\ phase = "read" => loaded = stored
  <2>1. Typed /\ Typed' /\ Basic /\ stored[j] \in Entry
    BY NextTyped, Parts DEF Consistent
  <2> QED BY <2>1 DEF Basic, Booting
<1>1. \A i \in Jobs : ~EnqueueNew(i)
  BY <1>0 DEF EnqueueNew, Typed, OtherTyped, Ghost
<1>2. ~StoreForForm /\ ~StoreForOthers
  BY <1>0 DEF StoreForForm, StoreForOthers, Stores
<1>3. CASE Hydrate
  <2>1. phase = "read" /\ form' = form /\ stored' = stored /\ jobs' = Restored
        /\ (writes' = writes \/ Appends("nobody", AnyJob))
    BY <1>0, <1>3, BootChain DEF Hydrate, Stays
  <2>2. loaded[j] = stored[j]
    BY <1>0, <2>1
  <2>3. Kept(jobs'[j])
    <3>1. Restorable(loaded[j])
      BY <2>2 DEF Restorable, Kept
    <3>2. jobs'[j] = Requeued(loaded[j])
      BY <2>1, <3>1 DEF Restored
    <3> QED BY <1>0, <2>2, <3>2 DEF Requeued, Kept, Entry
  <2>4. Past(j)' \subseteq Past(j) \cup {jobs'[j]}
    <3>1. Chain
      BY <1>0, NextChain
    <3> QED BY <1>0, <3>1, PastMove
  <2>5. Past(j) = {}
    BY <1>0 DEF Past
  <2> QED BY <1>0, <2>1, <2>3, <2>4, <2>5, ClosedIs
<1>4. CASE ~Hydrate
  <2>1. writes' = <<>> /\ stored' = stored /\ phase' # "up" /\ form'[j] = Closed
    <3>1. CASE Load
      BY <1>0, <3>1 DEF Load
    <3>2. CASE Kill
      BY <1>0, <3>2 DEF Kill
    <3>3. CASE SignIn \/ \E r \in requests : Serve(r)
      BY <1>0, <3>3 DEF SignIn, Serve
    <3>4. CASE UNCHANGED vars
      BY <1>0, <3>4 DEF vars
    <3> QED BY <1>0, <1>1, <1>2, <1>4, <3>1, <3>2, <3>3, <3>4, BootMoves
  <2>2. Past(j)' = {}
    BY <2>1 DEF Past
  <2> QED BY <2>1, <2>2, ClosedIs
<1> QED BY <1>3, <1>4

LEMMA NextStanding ==
    ASSUME WithAcceptance, [Next]_vars, ~ghost'.reset, NEW j \in Jobs, ~Excused(j)', j \in ghost'.accepted
    PROVE  Standing(j)'
<1>0. /\ Consistent /\ Typed /\ Typed' /\ Chain /\ Basic /\ ~ghost.reset /\ ~Excused(j) /\ Fate(j)
      /\ (j \in ghost.accepted => Standing(j)) /\ Awaited(j) /\ form[j] \in Form
      /\ form[j].at = "storing" <=> Marked("form", j)
  <2>1. Consistent /\ Typed /\ Typed' /\ Chain /\ Basic /\ form[j] \in Form /\ Fate(j)
    BY NextTyped, NextChain, NextFate, Parts DEF WithAcceptance, Consistent, Editors
  <2>2. ~ghost.reset /\ ~Excused(j)
    BY <2>1, NextRemembers, ExcuseStays DEF Remembers
  <2> QED BY <2>1, <2>2 DEF WithAcceptance, Accepting, Basic, Filed
<1>1. CASE j \notin ghost.accepted
  <2>1. StoreForForm /\ Head(writes).job = j /\ stored' = Head(writes).jobs
    BY <1>0, <1>1, NextRemembers
  <2>2. PICK ok \in BOOLEAN :
          /\ Stores(ok) /\ Head(writes).by = "form"
          /\ jobs' = IF ok THEN jobs ELSE Update(j, form[j].source)
          /\ form' = [form EXCEPT ![j] = Closed]
          /\ ghost' = IF ok THEN [ghost EXCEPT !.accepted = @ \cup {j}]
                      ELSE [ghost EXCEPT !.rejected = @ \cup {j}]
    BY <2>1 DEF StoreForForm
  <2>3. ok
    BY <1>0, <1>1, <2>2 DEF Typed, OtherTyped, Ghost
  <2>4. Shrinks /\ jobs' = jobs /\ form'[j] = Closed
    BY <1>0, <2>2, <2>3, Parts DEF Stores, Shrinks
  <2>5. Marked("form", j)
    BY <1>0, <2>1, <2>2, <2>4, ShrinksMarks DEF Shrinks
  <2>6. \A e \in Since("form", j) : Kept(e)
    BY <1>0, <2>5 DEF Awaited
  <2>7. stored'[j] \in Since("form", j) /\ Past(j)' \subseteq Since("form", j) /\ jobs[j] \in Since("form", j)
    BY <1>0, <2>1, <2>2, <2>4, Cut, SincePart
  <2> QED BY <2>4, <2>6, <2>7, ClosedIs DEF Standing
<1>2. CASE j \in ghost.accepted
  <2>1. /\ Kept(stored[j]) /\ \A e \in Past(j) : Kept(e)
        /\ phase = "up" => Kept(jobs[j])
        /\ form[j].at \in {"media", "storing"} => Kept(form[j].source)
    BY <1>0, <1>2 DEF Standing
  <2>2. CASE phase # "up"
    BY <1>0, <2>1, <2>2, BootStep DEF Standing
  <2>3. CASE phase = "up"
    <3>1. ~Hydrate
      BY <2>3 DEF Hydrate
    <3>2. PutBack(j) => Kept(jobs'[j])
      <4> SUFFICES ASSUME PutBack(j) PROVE Kept(jobs'[j])
        OBVIOUS
      <4>1. j \notin ghost.crossed
        BY <1>0 DEF Excused
      <4>2. form[j].at = "storing"
        BY <1>0, <4>1, PutBackAs
      <4> QED BY <2>1, <4>2 DEF PutBack
    <3>3. Kept(jobs'[j]) \/ Kill
      BY <1>0, <2>1, <2>3, <3>1, <3>2, KeptStep
    <3>4. Kept(stored'[j]) /\ \A e \in Past(j)' : Kept(e)
      <4>1. CASE Kill
        <5>1. writes' = <<>> /\ stored' = stored
          BY <4>1 DEF Kill
        <5> QED BY <2>1, <5>1 DEF Past
      <4>2. CASE Kept(jobs'[j])
        BY <1>0, <2>1, <4>2, PastMove
      <4> QED BY <3>3, <4>1, <4>2
    <3>5. phase' = "up" => Kept(jobs'[j])
      <4>1. Kill => phase' # "up"
        BY DEF Kill
      <4> QED BY <3>3, <4>1
    <3>6. form'[j].at \in {"media", "storing"} => Kept(form'[j].source)
      <4>1. CASE form'[j] = form[j]
        BY <2>1, <4>1
      <4>2. CASE EnqueueNew(j)
        BY <1>0, <1>2, <4>2 DEF EnqueueNew, Basic, Known
      <4>3. CASE Submit(j) /\ form'[j].source = jobs[j]
        BY <2>1, <2>3, <4>3
      <4>4. CASE form[j].at = "media" /\ form'[j] = [form[j] EXCEPT !.at = "storing"]
        BY <1>0, <2>1, <4>4 DEF Form
      <4> QED BY <1>0, <4>1, <4>2, <4>3, <4>4, FormMoves, ClosedIs
    <3> QED BY <3>4, <3>5, <3>6 DEF Standing
  <2> QED BY <2>2, <2>3
<1> QED BY <1>1, <1>2

LEMMA NextAccepting == ASSUME WithAcceptance, [Next]_vars PROVE Accepting'
<1> SUFFICES ASSUME ~ghost'.reset, NEW j \in Jobs, ~Excused(j)'
             PROVE  (j \in ghost'.accepted => Standing(j)') /\ Awaited(j)' /\ Attended(j)'
  BY DEF Accepting
<1> QED BY NextStanding, NextAwaited, NextAttended

(* A publication that was accepted stays in storage, to be taken up after  *)
(* a restart, until it is published or discarded: no late write, put-back, *)
(* kill or retry loses it, except where an edit crossed a publication,     *)
(* another account saved it or the queue was written before it was read.   *)
THEOREM AcceptedKept == Spec => []AcceptedSurvives
<1>1. Init => Accepting
  BY InitAccepting
<1>2. Consistent /\ Accepting /\ [Next]_vars => Accepting'
  BY NextAccepting DEF WithAcceptance
<1>3. Consistent /\ Accepting => AcceptedSurvives
  <2> SUFFICES ASSUME Consistent, Accepting, ~ghost.reset, NEW j \in ghost.accepted,
                      j \notin ghost.discarded, j \notin ghost.crossed, j \notin ghost.swapped
               PROVE  Kept(stored[j]) \/ posted[<<Owner[j], j>>] # NoPost
    BY DEF AcceptedSurvives, Kept
  <2>1. j \in Jobs
    BY DEF Consistent, Typed, OtherTyped, Ghost
  <2> QED BY <2>1 DEF Accepting, Excused, Standing
<1> QED BY <1>1, <1>2, <1>3, AlwaysConsistent, PTL DEF Spec
=============================================================================
