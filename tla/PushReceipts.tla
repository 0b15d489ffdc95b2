----------------------------- MODULE PushReceipts -----------------------------
(***************************************************************************)
(* What happens to a push after the provider has taken it                  *)
(* (functions/notificationPushService.js): receipts are fetched, messages  *)
(* that did not arrive are sent again a bounded number of times, and       *)
(* devices the provider no longer knows are disabled; meanwhile devices    *)
(* are registered, handed from account to account and removed.             *)
(*                                                                         *)
(* One notification of one user (Owner) is followed; PushDispatch says how *)
(* its first sends come about.  A scanner is the treatment of one entry of *)
(* a scheduled scan (processPendingPushReceipts), from the query that read *)
(* the job's document to the transaction that settles it; entries of one   *)
(* scan and of scans that overlap are all scanners, and none sees what     *)
(* another has done since its query unless a transaction looks.            *)
(***************************************************************************)
EXTENDS Integers, FiniteSets

CONSTANTS
    Users, Owner,       \* accounts; the one whose notification is followed
    Devices,            \* push tokens
    Scanners,
    NoOne,
    MaxActive,          \* MAX_ACTIVE_DEVICES_PER_USER
    MaxAttempts,        \* MAX_RECEIPT_DELIVERY_ATTEMPTS
    MaxTickets,         \* bound: messages the provider takes
    MaxDeaths           \* bound: scanners that die

Tickets == 1..MaxTickets
Docs == Tickets \cup Devices    \* a ticket's receipt job; a device's retry job

ASSUME ReceiptAssumptions ==
    /\ Owner \in Users /\ NoOne \notin Users \cup Scanners
    /\ IsFiniteSet(Devices) /\ Devices # {} /\ Devices \cap Nat = {}
    /\ MaxActive \in Nat \ {0} /\ MaxAttempts \in Nat \ {0}
    /\ MaxTickets \in Nat /\ MaxDeaths \in Nat

VARIABLES
    device,     \* [Devices -> registration of the token]
    wanted,     \* the row still has the version, and its user wants pushes
    jobs,       \* [Docs -> receipt or retry job]
    scan,       \* [Scanners -> entry being treated]
    issued,     \* tickets given out
    unsent,     \* devices the dispatch has not written an outcome for
    deaths,     \* scanners that died, for the bound
    ghost       \* what the properties remember, see below

vars == <<device, wanted, jobs, scan, issued, unsent, deaths, ghost>>

(* mode: receipt (of the ticket that names the document), or retry_send.   *)
(* token: who has claimed the retry; leased: whether the lease holds.      *)
(* old: expireAt has passed.                                               *)
Job == [mode : {"none", "receipt", "retry"}, device : Devices, attempts : Nat,
        token : Scanners \cup {NoOne}, leased : BOOLEAN, old : BOOLEAN]
NoJob(d) == [mode |-> "none", device |-> d, attempts |-> 0, token |-> NoOne,
             leased |-> FALSE, old |-> FALSE]
(* result: what the provider answered; drop, if nothing more is to come.   *)
Scan == [at : {"idle", "claim", "row", "device", "send", "disable", "settle",
               "fetch", "bury", "receipt"},
         doc : Docs, attempts : Nat, old : BOOLEAN, ticket : 0..MaxTickets,
         result : {"none", "drop", "ok", "missing", "transient"}]
AnyDevice == CHOOSE d \in Devices : TRUE
Idle == [at |-> "idle", doc |-> AnyDevice, attempts |-> 0, old |-> FALSE, ticket |-> 0,
         result |-> "none"]

(* taken: messages the provider took for a device.  resent: claims of a    *)
(* retry that sent; twice: one attempt was sent by two claims.  doubt: a   *)
(* scanner died after its send, or was slower than its lease.              *)
Ghost == [taken : [Devices -> Nat], resent : SUBSET (Docs \X Nat), twice : SUBSET Devices,
          doubt : SUBSET Devices]

TypeOK ==
    /\ device \in [Devices -> [owner : Users \cup {NoOne}, enabled : BOOLEAN]]
    /\ wanted \in BOOLEAN
    /\ jobs \in [Docs -> Job] /\ \A d \in Docs : jobs[d].attempts <= MaxAttempts + 1
    /\ scan \in [Scanners -> Scan]
    /\ issued \in 0..MaxTickets
    /\ unsent \subseteq Devices
    /\ deaths \in 0..MaxDeaths
    /\ ghost \in Ghost

Active(u) == {d \in Devices : device[d].owner = u /\ device[d].enabled}

Init ==
    /\ device \in [Devices -> [owner : Users \cup {NoOne}, enabled : BOOLEAN]]
    /\ \A d \in Devices : device[d].owner = NoOne => ~device[d].enabled
    /\ \A u \in Users : Cardinality(Active(u)) <= MaxActive
    /\ wanted = TRUE
    /\ jobs = [d \in Docs |-> NoJob(AnyDevice)]
    /\ scan = [s \in Scanners |-> Idle]
    /\ issued = 0
    /\ unsent = {d \in Devices : device[d] = [owner |-> Owner, enabled |-> TRUE]}
    /\ deaths = 0
    /\ ghost = [taken |-> [d \in Devices |-> 0], resent |-> {}, twice |-> {}, doubt |-> {}]
-----------------------------------------------------------------------------
(* registerNotificationDevice: a token that was someone else's, disabled   *)
(* or unknown takes a slot of the account.  (The limit on registrations    *)
(* per window is left out: it only refuses more calls.)                    *)
ConsumesSlot(u, d) == device[d].owner # u \/ ~device[d].enabled

Register(u, d) ==
    /\ ConsumesSlot(u, d) => Cardinality(Active(u)) < MaxActive
    /\ device' = [device EXCEPT ![d] = [owner |-> u, enabled |-> TRUE]]
    /\ UNCHANGED <<wanted, jobs, scan, issued, unsent, deaths, ghost>>

(* unregisterNotificationDevice, by the account it belongs to.             *)
Unregister(u, d) ==
    /\ device[d].owner = u
    /\ device' = [device EXCEPT ![d] = [owner |-> NoOne, enabled |-> FALSE]]
    /\ UNCHANGED <<wanted, jobs, scan, issued, unsent, deaths, ghost>>

(* The row moves on or disappears, or pushes are switched off.             *)
NoLongerWanted ==
    /\ wanted /\ wanted' = FALSE
    /\ UNCHANGED <<device, jobs, scan, issued, unsent, deaths, ghost>>

(* persistTicketOutcomes of the dispatch: the provider has taken the       *)
(* device's message, or asked for it later.                                *)
Receipt(d, attempts) == [NoJob(d) EXCEPT !.mode = "receipt", !.attempts = attempts]
DispatchAccepted(d) ==
    /\ d \in unsent /\ issued < MaxTickets
    /\ unsent' = unsent \ {d}
    /\ issued' = issued + 1
    /\ jobs' = [jobs EXCEPT ![issued + 1] = Receipt(d, 0)]
    /\ ghost' = [ghost EXCEPT !.taken[d] = @ + 1]
    /\ UNCHANGED <<device, wanted, scan, deaths>>
DispatchDelayed(d) ==
    /\ d \in unsent
    /\ unsent' = unsent \ {d}
    /\ jobs' = [jobs EXCEPT ![d] = [NoJob(d) EXCEPT !.mode = "retry", !.attempts = 1]]
    /\ UNCHANGED <<device, wanted, scan, issued, deaths, ghost>>
-----------------------------------------------------------------------------
Goto(s, next) == scan' = [scan EXCEPT ![s] = next]
Doc(s) == scan[s].doc

(* The scan's query: the document as it was then goes with the entry.      *)
Pick(s, d) ==
    /\ scan[s] = Idle /\ jobs[d].mode # "none"
    /\ Goto(s, [Idle EXCEPT !.at = IF jobs[d].mode = "retry" THEN "claim" ELSE "fetch",
                            !.doc = d, !.attempts = jobs[d].attempts, !.old = jobs[d].old])
    /\ UNCHANGED <<device, wanted, jobs, issued, unsent, deaths, ghost>>

(* claimRetrySendJob: nothing is counted.  A job put off since the query   *)
(* has another number of attempts.                                         *)
AnyRetry(s) == jobs[Doc(s)].mode = "retry"
Claimable(s) ==
    /\ jobs[Doc(s)].mode = "retry"
    /\ ~(jobs[Doc(s)].token # NoOne /\ jobs[Doc(s)].leased)
Claim(s) ==
    /\ scan[s].at = "claim"
    /\ \/ /\ ~Claimable(s) \/ (~scan[s].old /\ jobs[Doc(s)].attempts # scan[s].attempts)
          /\ Goto(s, Idle) /\ UNCHANGED jobs
       \/ /\ Claimable(s) /\ scan[s].old
          /\ jobs' = [jobs EXCEPT ![Doc(s)] = NoJob(@.device)]
          /\ Goto(s, Idle)
       \/ /\ Claimable(s) /\ ~scan[s].old /\ jobs[Doc(s)].attempts = scan[s].attempts
          /\ jobs' = [jobs EXCEPT ![Doc(s)].token = s, ![Doc(s)].leased = TRUE]
          /\ Goto(s, [scan[s] EXCEPT !.at = "row"])
    /\ UNCHANGED <<device, wanted, issued, unsent, deaths, ghost>>

Dropped(s) == [Idle EXCEPT !.at = "settle", !.doc = Doc(s), !.result = "drop"]

(* processRetrySendJob reads the row and the preferences, then the device, *)
(* then sends: each may have changed when the message goes out.            *)
CheckRow(s) ==
    /\ scan[s].at = "row"
    /\ Goto(s, IF wanted THEN [scan[s] EXCEPT !.at = "device"] ELSE Dropped(s))
    /\ UNCHANGED <<device, wanted, jobs, issued, unsent, deaths, ghost>>

Target(s) == jobs[Doc(s)].device
CheckDevice(s) ==
    /\ scan[s].at = "device"
    /\ Goto(s, IF device[Target(s)] = [owner |-> Owner, enabled |-> TRUE]
               THEN [scan[s] EXCEPT !.at = "send"] ELSE Dropped(s))
    /\ UNCHANGED <<device, wanted, jobs, issued, unsent, deaths, ghost>>

(* The provider takes the message, or says why not.                        *)
SendTaken(s) ==
    LET d == Target(s) IN
    /\ scan[s].at = "send" /\ issued < MaxTickets
    /\ issued' = issued + 1
    /\ ghost' = [ghost EXCEPT !.taken[d] = @ + 1,
                              !.resent = @ \cup {<<Doc(s), scan[s].attempts>>},
                              !.twice = IF <<Doc(s), scan[s].attempts>> \in ghost.resent
                                        THEN @ \cup {d} ELSE @]
    /\ Goto(s, [scan[s] EXCEPT !.at = "settle", !.result = "ok", !.ticket = issued + 1])
    /\ UNCHANGED <<device, wanted, jobs, unsent, deaths>>
SendRefused(s) ==
    /\ scan[s].at = "send"
    /\ \/ Goto(s, [scan[s] EXCEPT !.at = "settle", !.result = "transient"])
       \/ Goto(s, Dropped(s))
       \/ Goto(s, [Dropped(s) EXCEPT !.at = "disable"])    \* DeviceNotRegistered
    /\ UNCHANGED <<device, wanted, jobs, issued, unsent, deaths, ghost>>

(* disableNotificationDevice: only while the token is still this user's.   *)
StillRegistered(d) == device[d].owner # NoOne
StillTheirs(d) == device[d].owner = Owner
Disable(s) ==
    /\ scan[s].at \in {"disable", "bury"}
    /\ device' = IF StillTheirs(Target(s))
                 THEN [device EXCEPT ![Target(s)].enabled = FALSE] ELSE device
    /\ Goto(s, [scan[s] EXCEPT !.at = IF @ = "disable" THEN "settle" ELSE "receipt"])
    /\ UNCHANGED <<wanted, jobs, issued, unsent, deaths, ghost>>

(* settleRetrySendClaim: only the claim that stands; the outcome of any    *)
(* other is lost, a ticket it was given included.                          *)
HoldsClaim(s) == jobs[Doc(s)].mode = "retry" /\ jobs[Doc(s)].token = s
Again(s) == scan[s].result = "transient" /\ scan[s].attempts + 1 < MaxAttempts
Settled(s) ==
    LET j == jobs[Doc(s)] IN
    [d \in Docs |->
        IF d = Doc(s)
        THEN IF Again(s)
             THEN [j EXCEPT !.attempts = scan[s].attempts + 1, !.token = NoOne, !.leased = FALSE]
             ELSE NoJob(j.device)
        ELSE IF scan[s].result = "ok" /\ d = scan[s].ticket
        THEN Receipt(j.device, scan[s].attempts + 1)
        ELSE jobs[d]]
SettleRetry(s) ==
    /\ scan[s].at = "settle"
    /\ jobs' = IF HoldsClaim(s) THEN Settled(s) ELSE jobs
    /\ Goto(s, Idle)
    /\ UNCHANGED <<device, wanted, issued, unsent, deaths, ghost>>
-----------------------------------------------------------------------------
(* The provider says what became of a ticket, or nothing yet.              *)
Fetch(s) ==
    /\ scan[s].at = "fetch"
    /\ \/ \E r \in {"missing", "transient"} :
             Goto(s, [scan[s] EXCEPT !.at = "receipt", !.result = r])
       \/ Goto(s, [Dropped(s) EXCEPT !.at = "receipt"])    \* it arrived, or never will
       \/ Goto(s, [Dropped(s) EXCEPT !.at = "bury"])       \* DeviceNotRegistered
    /\ UNCHANGED <<device, wanted, jobs, issued, unsent, deaths, ghost>>

(* settleReceiptJob, rescheduleMissingReceipt and the conversion in        *)
(* processPendingPushReceipts: by the entry as the query read it, and only *)
(* while the document is still a receipt's.                                *)
StillReceipt(s) == jobs[Doc(s)].mode = "receipt"
WhileYoung(s) == ~scan[s].old
Convertible(s) == scan[s].attempts < MaxAttempts /\ ~scan[s].old
NeverOutlived(s) == FALSE
Outlived(s) == scan[s].old
SettleReceipt(s) ==
    LET j == jobs[Doc(s)] IN
    /\ scan[s].at = "receipt"
    /\ \/ ~StillReceipt(s) /\ UNCHANGED jobs
       \/ StillReceipt(s) /\ scan[s].result = "missing" /\ ~Outlived(s) /\ UNCHANGED jobs
       \/ /\ StillReceipt(s) /\ scan[s].result = "transient" /\ Convertible(s)
          /\ jobs' = [jobs EXCEPT ![Doc(s)] =
                        [j EXCEPT !.mode = "retry", !.attempts = scan[s].attempts + 1,
                                  !.token = NoOne, !.leased = FALSE]]
       \/ /\ StillReceipt(s)
          /\ scan[s].result = "missing" => Outlived(s)
          /\ scan[s].result = "transient" => ~Convertible(s)
          /\ jobs' = [jobs EXCEPT ![Doc(s)] = NoJob(j.device)]
    /\ Goto(s, Idle)
    /\ UNCHANGED <<device, wanted, issued, unsent, deaths, ghost>>
-----------------------------------------------------------------------------
(* Time: a lease runs out, whether its holder is done or not; a job passes *)
(* its expireAt.                                                           *)
Working(s, doc) == scan[s].at \notin {"idle", "claim"} /\ Doc(s) = doc
LeaseLapses(doc) ==
    /\ jobs[doc].leased
    /\ jobs' = [jobs EXCEPT ![doc].leased = FALSE]
    /\ ghost' = IF \E s \in Scanners : s = jobs[doc].token /\ Working(s, doc)
                THEN [ghost EXCEPT !.doubt = @ \cup {jobs[doc].device}] ELSE ghost
    /\ UNCHANGED <<device, wanted, scan, issued, unsent, deaths>>
GrowsOld(doc) ==
    /\ jobs[doc].mode # "none" /\ ~jobs[doc].old
    /\ jobs' = [jobs EXCEPT ![doc].old = TRUE]
    /\ UNCHANGED <<device, wanted, scan, issued, unsent, deaths, ghost>>

(* The instance that runs the scan dies: nothing is redone, the documents  *)
(* are found by a later scan.                                              *)
Die(s) ==
    /\ scan[s] # Idle /\ deaths < MaxDeaths
    /\ deaths' = deaths + 1
    /\ ghost' = IF scan[s].at = "settle" /\ scan[s].result = "ok"
                THEN [ghost EXCEPT !.doubt = @ \cup {Target(s)}] ELSE ghost
    /\ Goto(s, Idle)
    /\ UNCHANGED <<device, wanted, jobs, issued, unsent>>

ScannerStep(s) ==
    \/ Claim(s) \/ CheckRow(s) \/ CheckDevice(s) \/ SendTaken(s) \/ SendRefused(s)
    \/ Disable(s) \/ SettleRetry(s) \/ Fetch(s) \/ SettleReceipt(s)

Next ==
    \/ \E u \in Users, d \in Devices : Register(u, d) \/ Unregister(u, d)
    \/ NoLongerWanted
    \/ \E d \in Devices : DispatchAccepted(d) \/ DispatchDelayed(d)
    \/ \E s \in Scanners : ScannerStep(s) \/ Die(s) \/ \E d \in Docs : Pick(s, d)
    \/ \E d \in Docs : LeaseLapses(d) \/ GrowsOld(d)

Spec == Init /\ [][Next]_vars

(* Scans keep coming, and an invocation runs to its end or dies; clocks    *)
(* move on.  Which scan, and which job it reads first, is left open.       *)
Fairness ==
    /\ WF_vars(\E s \in Scanners : ScannerStep(s) \/ \E d \in Docs : Pick(s, d))
    /\ WF_vars(\E d \in Docs : LeaseLapses(d))
    /\ WF_vars(\E d \in Docs : GrowsOld(d))
FairSpec == Spec /\ Fairness
-----------------------------------------------------------------------------
(* However tokens are registered, handed over, disabled and enabled again, *)
(* an account never has more active devices than it may have.              *)
DevicesWithinLimit == \A u \in Users : Cardinality(Active(u)) <= MaxActive

(* One attempt of a retry sends its message twice only if a scanner died   *)
(* after its send, or outlived its lease: overlapping scans do not.        *)
ResentOnlyInDoubt == ghost.twice \subseteq ghost.doubt

(* Retries and receipts that ask for another do not feed each other for    *)
(* ever: except in doubt the provider takes, for a device, the dispatch's  *)
(* message and one for every second attempt (three in all).                *)
SendsBounded ==
    \A d \in Devices \ ghost.doubt : ghost.taken[d] <= 1 + (MaxAttempts + 1) \div 2

(* A device that the other account has registered meanwhile is not         *)
(* disabled by what the provider says of an earlier message to it.         *)
HandedOverDeviceStands ==
    [][\A d \in Devices :
        device[d].owner \notin {Owner, NoOne} /\ device[d].enabled
            /\ device'[d].owner = device[d].owner => device'[d].enabled]_vars

(* Whatever the provider answers, the jobs of a notification come to an    *)
(* end: no receipt is asked for and no message sent again for ever.        *)
EveryJobEnds == <>[](\A d \in Docs : jobs[d].mode = "none")
=============================================================================
