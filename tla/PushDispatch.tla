---------------------------- MODULE PushDispatch ----------------------------
(***************************************************************************)
(* Sending a notification's versions to the devices of its recipient:      *)
(* the write trigger and the scheduled scan of                             *)
(* functions/notificationPushService.js, which claim a dispatch document   *)
(* under a lease, re-read the inbox row, send through the provider and     *)
(* record the outcome.  One recipient, one notification row.               *)
(*                                                                         *)
(* Time is abstract: a lease may run out, and a back-off may end, at any   *)
(* moment, also under a worker that is only slow.                          *)
(***************************************************************************)
EXTENDS Integers, FiniteSets

CONSTANTS
    Workers,              \* function instances
    Devices,              \* push tokens that may belong to the recipient
    MaxDispatchAttempts,  \* MAX_DISPATCH_ATTEMPTS
    MaxSendAttempts,      \* MAX_SEND_ATTEMPTS
    RenewsGeneration,     \* a re-created row takes a new generation (grouped likes)
    MaxVersion,           \* bound: versions of a row
    MaxGeneration         \* bound: re-creations

ASSUME DispatchBounds ==
    /\ MaxDispatchAttempts \in Nat \ {0} /\ MaxSendAttempts \in Nat \ {0}
    /\ MaxVersion \in Nat /\ MaxGeneration \in Nat
    /\ RenewsGeneration \in BOOLEAN
    /\ IsFiniteSet(Devices)

(* dispatchDocumentId: the recipient and the row are fixed.                *)
Keys == [generation : 0..MaxGeneration, version : 1..MaxVersion]
NoKey == [generation |-> 0, version |-> 0]

VARIABLES
    row,        \* the inbox row's key, version 0 when there is no row
    announced,  \* keys whose write event the trigger has yet to handle
    wanted,     \* pushDeliveryEligibility: preferences and admin access
    devices,    \* enabled devices of the recipient
    dispatch,   \* [Keys -> dispatch document]
    worker,     \* [Workers -> what an instance is doing]
    jobs,       \* <<key, device, mode>> handed to the receipt worker
    accepted,   \* [Keys -> [Devices -> 0..2]]: sends the provider took, 2 for more
    doubtful    \* keys with a lapsed lease, or an answer lost or thrown away

vars == <<row, announced, wanted, devices, dispatch, worker, jobs, accepted, doubtful>>

Final == {"complete", "skipped", "failed"}
Dispatch == [status : {"none", "processing", "retry", "sent"} \cup Final,
             attempts : 0..MaxDispatchAttempts, due : BOOLEAN, old : BOOLEAN]
Tickets == {"ok", "gone", "again"}
Stages == {"idle", "row", "eligible", "devices", "send", "mark", "persist", "settle", "retry"}
Free == [at |-> "idle", key |-> NoKey, attempt |-> 0, stale |-> FALSE, pending |-> {},
         round |-> 0, tickets |-> [d \in {} |-> "ok"], outcome |-> "none"]

TypeOK ==
    /\ row \in [generation : 0..MaxGeneration, version : 0..MaxVersion]
    /\ announced \subseteq Keys
    /\ wanted \in BOOLEAN
    /\ devices \subseteq Devices
    /\ dispatch \in [Keys -> Dispatch]
    /\ \A w \in Workers :
        /\ worker[w].at \in Stages
        /\ worker[w].at # "idle" => worker[w].key \in Keys
        /\ worker[w].pending \subseteq Devices
        /\ worker[w].round \in 0..MaxSendAttempts
    /\ jobs \subseteq Keys \X Devices \X {"receipt", "retry_send"}
    /\ accepted \in [Keys -> [Devices -> 0..2]]
    /\ doubtful \subseteq Keys

Init ==
    /\ row = NoKey
    /\ announced = {}
    /\ wanted \in BOOLEAN
    /\ devices \in SUBSET Devices
    /\ dispatch = [k \in Keys |->
            [status |-> "none", attempts |-> 0, due |-> FALSE, old |-> FALSE]]
    /\ worker = [w \in Workers |-> Free]
    /\ jobs = {}
    /\ accepted = [k \in Keys |-> [d \in Devices |-> 0]]
    /\ doubtful = {}
-----------------------------------------------------------------------------
(* The row, as its producers and its owner change it.                      *)

(* nextPushVersion: one more than the row's, or 1 for a row that was gone, *)
(* in a new generation (a random id, numbered here in order of creation).  *)
NextKey ==
    IF row.version > 0 THEN [row EXCEPT !.version = @ + 1]
    ELSE [generation |-> IF RenewsGeneration THEN row.generation + 1 ELSE 0, version |-> 1]

Activity ==
    /\ NextKey \in Keys
    /\ row' = NextKey
    /\ announced' = announced \cup {NextKey}
    /\ UNCHANGED <<wanted, devices, dispatch, worker, jobs, accepted, doubtful>>

RemoveRow ==
    /\ row.version > 0
    /\ row' = [row EXCEPT !.version = 0]
    /\ UNCHANGED <<announced, wanted, devices, dispatch, worker, jobs, accepted, doubtful>>

(* updateNotificationPreferences, and admin access granted or withdrawn.   *)
ChangePreference ==
    /\ wanted' = ~wanted
    /\ UNCHANGED <<row, announced, devices, dispatch, worker, jobs, accepted, doubtful>>

(* registerNotificationDevice, unregisterNotificationDevice.               *)
ChangeDevice(d) ==
    /\ devices' = IF d \in devices THEN devices \ {d} ELSE devices \cup {d}
    /\ UNCHANGED <<row, announced, wanted, dispatch, worker, jobs, accepted, doubtful>>
-----------------------------------------------------------------------------
(* claimNotificationDispatch (variants: a sent dispatch may be claimed;    *)
(* leases do not run out).                                                 *)
Unclaimed(k) == dispatch[k].status = "none"
ClaimableTwice(k) == Unclaimed(k) \/ dispatch[k].status \in {"complete", "sent"} \/ dispatch[k].due
ClaimableOnRetry(k) == Unclaimed(k) \/ (dispatch[k].status = "retry" /\ dispatch[k].due)
Claimable(k) == Unclaimed(k) \/ (dispatch[k].status \in {"processing", "retry"} /\ dispatch[k].due)
Exhausted(k) == ~Unclaimed(k) /\ (dispatch[k].attempts >= MaxDispatchAttempts \/ dispatch[k].old)

Begin(w, k) ==
    IF Exhausted(k)
    THEN /\ dispatch' = [dispatch EXCEPT ![k].status = "skipped", ![k].due = FALSE]
         /\ UNCHANGED worker
    ELSE /\ dispatch' = [dispatch EXCEPT ![k].status = "processing", ![k].due = FALSE,
                                         ![k].attempts = @ + 1]
         /\ worker' = [worker EXCEPT ![w] = [Free EXCEPT
                !.at = "row", !.key = k, !.attempt = dispatch[k].attempts + 1,
                !.stale = (row # k)]]

(* The trigger, at least once per event; a dispatch that another instance  *)
(* has claimed, or finished, is left alone.                                *)
HandleEvent(w, k) ==
    /\ worker[w].at = "idle" /\ k \in announced
    /\ announced' = announced \ {k}
    /\ IF Claimable(k) THEN Begin(w, k) ELSE UNCHANGED <<dispatch, worker>>
    /\ UNCHANGED <<row, wanted, devices, jobs, accepted, doubtful>>

(* processPendingPushDispatches, or the trigger's event once more.         *)
Scan(w, k) ==
    /\ worker[w].at = "idle" /\ ~Unclaimed(k) /\ Claimable(k)
    /\ Begin(w, k)
    /\ UNCHANGED <<row, announced, wanted, devices, jobs, accepted, doubtful>>

(* leaseUntil or nextAttemptAt is reached.                                 *)
TimeRunsOut(k) ==
    /\ dispatch[k].status \in {"processing", "retry"} /\ ~dispatch[k].due
    /\ dispatch' = [dispatch EXCEPT ![k].due = TRUE]
    /\ doubtful' = IF dispatch[k].status = "processing" THEN doubtful \cup {k} ELSE doubtful
    /\ UNCHANGED <<row, announced, wanted, devices, worker, jobs, accepted>>

(* expireAt is reached, seven days after the first claim.                  *)
GrowsOld(k) ==
    /\ ~Unclaimed(k) /\ ~dispatch[k].old
    /\ dispatch' = [dispatch EXCEPT ![k].old = TRUE]
    /\ UNCHANGED <<row, announced, wanted, devices, worker, jobs, accepted, doubtful>>
-----------------------------------------------------------------------------
(* dispatchExpectedNotificationVersion, one await at a time.               *)
Goto(w, stage) == worker' = [worker EXCEPT ![w].at = stage]
Conclude(w, outcome) == worker' = [worker EXCEPT ![w].at = "settle", ![w].outcome = outcome]

(* The authoritative read (variant: the event's word is taken for it).     *)
AsAnnounced(k) == k \in Keys
StillCurrent(k) == row = k

ReadRow(w) ==
    /\ worker[w].at = "row"
    /\ IF StillCurrent(worker[w].key) THEN Goto(w, "eligible") ELSE Conclude(w, "skipped")
    /\ UNCHANGED <<row, announced, wanted, devices, dispatch, jobs, accepted, doubtful>>

ReadEligibility(w) ==
    /\ worker[w].at = "eligible"
    /\ IF wanted THEN Goto(w, "devices") ELSE Conclude(w, "skipped")
    /\ UNCHANGED <<row, announced, wanted, devices, dispatch, jobs, accepted, doubtful>>

ReadDevices(w) ==
    /\ worker[w].at = "devices"
    /\ IF devices = {} THEN Conclude(w, "skipped")
       ELSE worker' = [worker EXCEPT ![w].at = "send", ![w].pending = devices]
    /\ UNCHANGED <<row, announced, wanted, devices, dispatch, jobs, accepted, doubtful>>

(* A read throws: retried later, or given up when the error is permanent.  *)
ReadFails(w) ==
    /\ worker[w].at \in {"row", "eligible", "devices"}
    /\ Goto(w, "retry") \/ Conclude(w, "failed")
    /\ UNCHANGED <<row, announced, wanted, devices, dispatch, jobs, accepted, doubtful>>

Took(k, D) ==
    accepted' = [accepted EXCEPT ![k] = [d \in Devices |->
        IF d \in D /\ @[d] < 2 THEN @[d] + 1 ELSE @[d]]]

(* sendChunkWithRetry: the provider answers with a ticket per message;     *)
(* tickets that may be retried go into the next round.                     *)
SentAgain(answer) == {d \in DOMAIN answer : answer[d] = "again"}

SendAnswered(w) ==
    LET me == worker[w]
        last == me.round + 1 = MaxSendAttempts
    IN \E answer \in [me.pending -> Tickets] :
        LET retried == IF last THEN {} ELSE SentAgain(answer)
            known == [d \in (DOMAIN me.tickets \cup me.pending) \ retried |->
                        IF d \in me.pending THEN answer[d] ELSE me.tickets[d]]
        IN /\ me.at = "send"
           /\ Took(me.key, {d \in me.pending : answer[d] = "ok"})
           /\ worker' = [worker EXCEPT ![w] = [me EXCEPT
                !.pending = retried, !.round = @ + 1, !.tickets = known,
                !.at = IF retried = {} THEN "mark" ELSE "send"]]
           /\ UNCHANGED <<row, announced, wanted, devices, dispatch, jobs, doubtful>>

(* The call fails.  With a transport error the provider may have taken any *)
(* of the messages, and the round is repeated while rounds are left; after *)
(* the last the dispatch is retried, and the tickets of earlier rounds are *)
(* thrown away.  With any other error it took none, and gives up.          *)
SendFails(w) ==
    LET me == worker[w]
        last == me.round + 1 = MaxSendAttempts
        known == {d \in DOMAIN me.tickets : me.tickets[d] = "ok"}
    IN
    /\ me.at = "send"
    /\ \/ \E D \in SUBSET me.pending :
            /\ Took(me.key, D)
            /\ doubtful' = IF D # {} \/ (last /\ known # {}) THEN doubtful \cup {me.key}
                           ELSE doubtful
            /\ worker' = [worker EXCEPT ![w].round = @ + 1,
                                        ![w].at = IF last THEN "retry" ELSE "send"]
       \/ /\ Conclude(w, "failed")
          /\ UNCHANGED <<accepted, doubtful>>
    /\ UNCHANGED <<row, announced, wanted, devices, dispatch, jobs>>

(* updateClaim: only the claim's own token may write (variant: anyone).    *)
(* The token is random per claim; the attempt it was drawn for names it.   *)
HoldsAnyClaim(w, statuses) == dispatch[worker[w].key].status \in statuses
HoldsClaim(w, statuses) ==
    /\ dispatch[worker[w].key].status \in statuses
    /\ dispatch[worker[w].key].attempts = worker[w].attempt

UpdateClaim(w, statuses, status) ==
    IF HoldsClaim(w, statuses)
    THEN dispatch' = [dispatch EXCEPT ![worker[w].key].status = status,
                                      ![worker[w].key].due = FALSE]
    ELSE UNCHANGED dispatch

(* markClaimProviderAccepted; when the write fails the tickets are lost,   *)
(* and the dispatch is still completed.                                    *)
MarkAccepted(w) ==
    /\ worker[w].at = "mark"
    /\ \/ UpdateClaim(w, {"processing"}, "sent") /\ Goto(w, "persist")
       \/ UNCHANGED dispatch /\ Conclude(w, "complete")
    /\ UNCHANGED <<row, announced, wanted, devices, jobs, accepted, doubtful>>

(* persistTicketOutcomes: one write per ticket, any of which may fail.     *)
Persist(w, d) ==
    LET me == worker[w] IN
    /\ me.at = "persist" /\ d \in DOMAIN me.tickets
    /\ worker' = [worker EXCEPT ![w].tickets =
            [e \in DOMAIN me.tickets \ {d} |-> me.tickets[e]]]
    /\ \/ me.tickets[d] = "ok" /\ jobs' = jobs \cup {<<me.key, d, "receipt">>} /\ UNCHANGED devices
       \/ me.tickets[d] = "again" /\ jobs' = jobs \cup {<<me.key, d, "retry_send">>} /\ UNCHANGED devices
       \/ me.tickets[d] = "gone" /\ devices' = devices \ {d} /\ UNCHANGED jobs
       \/ UNCHANGED <<jobs, devices>>
    /\ UNCHANGED <<row, announced, wanted, dispatch, accepted, doubtful>>

PersistDone(w) ==
    /\ worker[w].at = "persist" /\ DOMAIN worker[w].tickets = {}
    /\ Conclude(w, "complete")
    /\ UNCHANGED <<row, announced, wanted, devices, dispatch, jobs, accepted, doubtful>>

(* completeClaim; if the write of a skip fails the claim is to be retried, *)
(* or given up when the error is permanent.                                *)
Settle(w) ==
    /\ worker[w].at = "settle"
    /\ \/ /\ UpdateClaim(w, {"processing", "sent"}, worker[w].outcome)
          /\ worker' = [worker EXCEPT ![w] = Free]
       \/ /\ worker[w].outcome = "skipped"
          /\ Goto(w, "retry") \/ Conclude(w, "failed")
          /\ UNCHANGED dispatch
    /\ UNCHANGED <<row, announced, wanted, devices, jobs, accepted, doubtful>>

Retry(w) ==
    /\ worker[w].at = "retry"
    /\ UpdateClaim(w, {"processing"}, "retry")
    /\ worker' = [worker EXCEPT ![w] = Free]
    /\ UNCHANGED <<row, announced, wanted, devices, jobs, accepted, doubtful>>

(* The instance is killed, or its last write fails.                        *)
Crash(w) ==
    /\ worker[w].at # "idle"
    /\ worker' = [worker EXCEPT ![w] = Free]
    /\ UNCHANGED <<row, announced, wanted, devices, dispatch, jobs, accepted, doubtful>>
-----------------------------------------------------------------------------
WorkerStep(w) ==
    \/ ReadRow(w) \/ ReadEligibility(w) \/ ReadDevices(w) \/ ReadFails(w)
    \/ SendAnswered(w) \/ SendFails(w) \/ MarkAccepted(w)
    \/ \E d \in Devices : Persist(w, d)
    \/ PersistDone(w) \/ Settle(w) \/ Retry(w) \/ Crash(w)

Next ==
    \/ Activity \/ RemoveRow \/ ChangePreference
    \/ \E d \in Devices : ChangeDevice(d)
    \/ \E w \in Workers, k \in Keys : HandleEvent(w, k) \/ Scan(w, k)
    \/ \E k \in Keys : TimeRunsOut(k) \/ GrowsOld(k)
    \/ \E w \in Workers : WorkerStep(w)

Spec == Init /\ [][Next]_vars

(* Events are redelivered until handled, the scan runs every few minutes,  *)
(* an instance goes on or is killed, and time passes.                      *)
FairSpec ==
    /\ Spec
    /\ \A k \in Keys :
        /\ WF_vars(TimeRunsOut(k))
        /\ SF_vars(\E w \in Workers : HandleEvent(w, k))
        /\ SF_vars(\E w \in Workers : Scan(w, k))
    /\ \A w \in Workers : WF_vars(WorkerStep(w))
-----------------------------------------------------------------------------
(* PROPERTIES *)

(* A device is sent a version twice only if a lease lapsed (the first      *)
(* instance died, or was slow) or an answer of the provider was lost or    *)
(* thrown away.                                                            *)
SentTwiceOnlyInDoubt ==
    \A k \in Keys, d \in Devices : accepted[k][d] > 1 => k \in doubtful

(* What is recorded as sent stays recorded as sent, and a final outcome    *)
(* is never rewritten, whatever instance comes back late.                  *)
OutcomeStands ==
    [][\A k \in Keys :
        /\ dispatch[k].status \in Final => dispatch'[k].status = dispatch[k].status
        /\ dispatch[k].status = "sent" => dispatch'[k].status \in {"sent", "complete"}]_vars

(* A version that was superseded or deleted before its dispatch was        *)
(* claimed is never sent, because the row is read again after the claim.   *)
SupersededNeverSent ==
    \A w \in Workers : worker[w].at \in {"send", "mark", "persist"} => ~worker[w].stale

(* An activity never meets a dispatch document of an earlier one, which    *)
(* would swallow its push.                                                 *)
FreshActivityFreshDispatch ==
    [][row' # row /\ row'.version > 0 => Unclaimed(row')]_vars

(* Every activity's dispatch reaches an outcome, through any number of     *)
(* failures: attempts are counted and run out.                             *)
EveryActivitySettles ==
    \A k \in Keys : k \in announced ~> dispatch[k].status \in Final \cup {"sent"}
=============================================================================
