-------------------------- MODULE PushReceiptsProofs --------------------------
(***************************************************************************)
(* Theorems about PushReceipts, for any accounts, tokens, scanners and     *)
(* bounds: attempts stay below their limit, an account has no more active  *)
(* devices than it may have, a device that was handed over is left alone,  *)
(* no attempt is sent twice without a death or a lapsed lease, and what a  *)
(* device is sent is bounded, with the same exception.                     *)
(***************************************************************************)
EXTENDS PushReceipts, FiniteSetTheorems, TLAPS

(* The type invariant in parts.  Retries are below the limit, in the       *)
(* documents and in the entries that were read from them.                  *)
Retrying == {"claim", "row", "device", "send", "disable", "settle"}
JobsTyped ==
    /\ jobs \in [Docs -> Job]
    /\ \A d \in Docs : /\ jobs[d].attempts <= MaxAttempts + 1
                       /\ jobs[d].mode = "retry" => jobs[d].attempts <= MaxAttempts
ScanTyped ==
    /\ scan \in [Scanners -> Scan]
    /\ \A s \in Scanners : scan[s].at \in Retrying => scan[s].attempts <= MaxAttempts
DevicesTyped ==
    /\ device \in [Devices -> [owner : Users \cup {NoOne}, enabled : BOOLEAN]]
    /\ wanted \in BOOLEAN /\ unsent \subseteq Devices
CountsTyped == issued \in 0..MaxTickets /\ deaths \in 0..MaxDeaths /\ ghost \in Ghost

Typed == JobsTyped /\ ScanTyped /\ DevicesTyped /\ CountsTyped

LEMMA Limits ==
    /\ MaxAttempts \in Nat /\ MaxAttempts # 0 /\ MaxTickets \in Nat /\ MaxDeaths \in Nat
    /\ MaxActive \in Nat
BY ReceiptAssumptions

LEMMA NoneLeft == 0 <= MaxAttempts /\ 1 <= MaxAttempts /\ 0 <= MaxAttempts + 1 /\ 1 <= MaxAttempts + 1
BY Limits

LEMMA TypedImplies == Typed => TypeOK
BY DEF Typed, JobsTyped, ScanTyped, DevicesTyped, CountsTyped, TypeOK

LEMMA Frames ==
    /\ JobsTyped /\ UNCHANGED jobs => JobsTyped'
    /\ ScanTyped /\ UNCHANGED scan => ScanTyped'
    /\ DevicesTyped /\ UNCHANGED <<device, wanted, unsent>> => DevicesTyped'
    /\ CountsTyped /\ UNCHANGED <<issued, deaths, ghost>> => CountsTyped'
BY DEF JobsTyped, ScanTyped, DevicesTyped, CountsTyped

LEMMA AnyDeviceIsOne == AnyDevice \in Devices /\ AnyDevice \in Docs
BY ReceiptAssumptions DEF AnyDevice, Docs

LEMMA JobTyped ==
    ASSUME NEW d \in Devices, NEW n \in Nat
    PROVE  /\ NoJob(d) \in Job /\ NoJob(d).attempts = 0 /\ NoJob(d).mode = "none"
           /\ Receipt(d, n) \in Job /\ Receipt(d, n).attempts = n
           /\ Receipt(d, n).mode = "receipt"
BY DEF NoJob, Receipt, Job

LEMMA IdleTyped == Idle \in Scan /\ Idle.at = "idle"
BY AnyDeviceIsOne, ReceiptAssumptions DEF Idle, Scan

LEMMA InitTyped == Init => Typed
<1> SUFFICES ASSUME Init PROVE Typed
  OBVIOUS
<1>1. JobsTyped
  BY AnyDeviceIsOne, JobTyped, Limits DEF Init, JobsTyped
<1>2. ScanTyped
  BY IdleTyped DEF Init, ScanTyped, Retrying
<1>3. CountsTyped
  BY ReceiptAssumptions DEF Init, Ghost, CountsTyped
<1>4. DevicesTyped
  BY DEF Init, DevicesTyped
<1> QED  BY <1>1, <1>2, <1>3, <1>4 DEF Typed

(* What one entry does to itself: any next entry is well typed.            *)
LEMMA GotoTyped ==
    ASSUME ScanTyped, NEW s \in Scanners, NEW next \in Scan, Goto(s, next),
           next.at \in Retrying => next.attempts <= MaxAttempts
    PROVE  ScanTyped'
BY DEF ScanTyped, Goto

LEMMA DroppedTyped ==
    ASSUME ScanTyped, NEW s \in Scanners
    PROVE  /\ Dropped(s) \in Scan /\ Dropped(s).attempts = 0
           /\ \A at \in {"disable", "bury", "receipt"} :
                /\ [Dropped(s) EXCEPT !.at = at] \in Scan
                /\ [Dropped(s) EXCEPT !.at = at].attempts = 0
                /\ [Dropped(s) EXCEPT !.at = at].at = at
BY IdleTyped DEF ScanTyped, Dropped, Idle, Scan, Doc

(* What one step makes of the documents: each is as it was, or well typed. *)
LEMMA OneJobTyped ==
    ASSUME JobsTyped, NEW d \in Docs, NEW j \in Job, j.attempts <= MaxAttempts + 1,
           j.mode = "retry" => j.attempts <= MaxAttempts,
           jobs' = [jobs EXCEPT ![d] = j]
    PROVE  JobsTyped'
BY DEF JobsTyped

(* Steps that touch the devices, the row and the dispatch's own messages.  *)
LEMMA OutsideTyped ==
    ASSUME Typed,
           \/ \E u \in Users, d \in Devices : Register(u, d) \/ Unregister(u, d)
           \/ NoLongerWanted
           \/ \E d \in Devices : DispatchAccepted(d) \/ DispatchDelayed(d)
    PROVE  Typed'
<1>0. JobsTyped /\ ScanTyped /\ DevicesTyped /\ CountsTyped
  BY DEF Typed
<1>1. ASSUME NEW u \in Users, NEW d \in Devices, Register(u, d) \/ Unregister(u, d)
      PROVE  Typed'
  <2>1. PICK o \in Users \cup {NoOne}, on \in BOOLEAN :
            device' = [device EXCEPT ![d] = [owner |-> o, enabled |-> on]]
    BY <1>1 DEF Register, Unregister
  <2>2. DevicesTyped'
    BY <1>0, <1>1, <2>1 DEF Register, Unregister, DevicesTyped
  <2> QED  BY <1>0, <1>1, <2>2, Frames DEF Register, Unregister, Typed
<1>2. CASE NoLongerWanted
  <2>1. DevicesTyped'
    BY <1>0, <1>2 DEF NoLongerWanted, DevicesTyped
  <2> QED  BY <1>0, <1>2, <2>1, Frames DEF NoLongerWanted, Typed
<1>3. ASSUME NEW d \in Devices, DispatchAccepted(d) PROVE Typed'
  <2>1. issued + 1 \in 0..MaxTickets /\ issued + 1 \in Docs
    BY <1>0, <1>3, ReceiptAssumptions DEF DispatchAccepted, Docs, Tickets, CountsTyped
  <2> DEFINE job == Receipt(d, 0)
  <2>5. job \in Job /\ job.attempts = 0 /\ job.mode = "receipt"
    BY JobTyped
  <2>6. jobs' = [jobs EXCEPT ![issued + 1] = job]
    BY <1>3 DEF DispatchAccepted
  <2> HIDE DEF job
  <2>2. JobsTyped'
    BY <1>0, <2>1, <2>5, <2>6, OneJobTyped, NoneLeft
  <2>3. ghost' \in Ghost
    BY <1>0, <1>3 DEF DispatchAccepted, Ghost, CountsTyped
  <2>4. CountsTyped' /\ DevicesTyped'
    BY <1>0, <1>3, <2>1, <2>3 DEF DispatchAccepted, CountsTyped, DevicesTyped
  <2> QED  BY <1>0, <1>3, <2>2, <2>4, Frames DEF DispatchAccepted, Typed
<1>4. ASSUME NEW d \in Devices, DispatchDelayed(d) PROVE Typed'
  <2> DEFINE retry == [NoJob(d) EXCEPT !.mode = "retry", !.attempts = 1]
  <2>1. d \in Docs /\ retry \in Job /\ retry.attempts = 1
    BY JobTyped, Limits DEF Docs, Job, NoJob
  <2>4. jobs' = [jobs EXCEPT ![d] = retry]
    BY <1>4 DEF DispatchDelayed
  <2> HIDE DEF retry
  <2>2. JobsTyped'
    BY <1>0, <2>1, <2>4, OneJobTyped, NoneLeft
  <2>3. DevicesTyped'
    BY <1>0, <1>4 DEF DispatchDelayed, DevicesTyped
  <2> QED  BY <1>0, <1>4, <2>2, <2>3, Frames DEF DispatchDelayed, Typed
<1> QED  BY <1>1, <1>2, <1>3, <1>4

LEMMA RetryTyped ==
    ASSUME Typed, NEW s \in Scanners,
           Claim(s) \/ CheckRow(s) \/ CheckDevice(s) \/ SendTaken(s) \/ SendRefused(s)
             \/ Disable(s) \/ SettleRetry(s)
    PROVE  Typed'
<1> DEFINE k == scan[s]
           doc == scan[s].doc
<1>0. JobsTyped /\ ScanTyped /\ DevicesTyped /\ CountsTyped
  BY DEF Typed
<1>1. /\ k \in Scan /\ doc \in Docs /\ jobs[doc] \in Job /\ jobs[doc].device \in Devices
      /\ k.attempts \in Nat /\ jobs[doc].attempts \in Nat
      /\ k.at \in Retrying => k.attempts <= MaxAttempts
  BY <1>0 DEF JobsTyped, ScanTyped, Scan, Job
<1>2. CASE Claim(s)
  <2>1. PICK next \in {Idle, [k EXCEPT !.at = "row"]} : Goto(s, next)
    BY <1>2 DEF Claim
  <2>2. [k EXCEPT !.at = "row"] \in Scan /\ [k EXCEPT !.at = "row"].attempts = k.attempts
    BY <1>1 DEF Scan
  <2>3. next \in Scan /\ (next.at \in Retrying => next.attempts <= MaxAttempts)
    BY <1>1, <1>2, <2>1, <2>2, IdleTyped DEF Claim, Retrying
  <2>4. ScanTyped'
    BY <1>0, <2>1, <2>3, GotoTyped
  <2> DEFINE claimed == [jobs[doc] EXCEPT !.token = s, !.leased = TRUE]
  <2>5. /\ claimed \in Job /\ claimed.attempts = jobs[doc].attempts
        /\ claimed.mode = jobs[doc].mode
    BY <1>1 DEF Job
  <2>6. \/ UNCHANGED jobs
        \/ jobs' = [jobs EXCEPT ![doc] = NoJob(jobs[doc].device)]
        \/ jobs' = [jobs EXCEPT ![doc] = claimed]
    BY <1>0, <1>1, <1>2 DEF Claim, Doc, JobsTyped
  <2>7. /\ claimed.attempts <= MaxAttempts + 1
        /\ claimed.mode = "retry" => claimed.attempts <= MaxAttempts
    BY <1>0, <1>1, <2>5 DEF JobsTyped
  <2> HIDE DEF claimed
  <2>8. JobsTyped'
    BY <1>0, <1>1, <2>5, <2>6, <2>7, JobTyped, OneJobTyped, Frames, Limits
  <2> QED  BY <1>0, <1>2, <2>4, <2>8, Frames DEF Claim, Typed
<1>3. CASE CheckRow(s) \/ CheckDevice(s)
  <2>1. PICK next \in {[k EXCEPT !.at = "device"], [k EXCEPT !.at = "send"], Dropped(s)} :
            Goto(s, next) /\ k.at \in Retrying
    BY <1>3 DEF CheckRow, CheckDevice, Retrying
  <2>2. ASSUME NEW at \in {"device", "send"}
        PROVE  [k EXCEPT !.at = at] \in Scan /\ [k EXCEPT !.at = at].attempts = k.attempts
    BY <1>1 DEF Scan
  <2>5. Dropped(s) \in Scan /\ Dropped(s).attempts <= MaxAttempts
    BY <1>0, DroppedTyped, NoneLeft
  <2>6. k.attempts <= MaxAttempts
    BY <1>1, <2>1
  <2>3. next \in Scan /\ next.attempts <= MaxAttempts
    BY <2>1, <2>2, <2>5, <2>6
  <2>4. ScanTyped'
    BY <1>0, <2>1, <2>3, GotoTyped
  <2> QED  BY <1>0, <1>3, <2>4, Frames DEF CheckRow, CheckDevice, Typed
<1>4. CASE SendTaken(s)
  <2> DEFINE next == [k EXCEPT !.at = "settle", !.result = "ok", !.ticket = issued + 1]
  <2>1. issued + 1 \in 0..MaxTickets
    BY <1>0, <1>4, ReceiptAssumptions DEF SendTaken, CountsTyped
  <2>2. Goto(s, next) /\ next \in Scan /\ next.attempts = k.attempts /\ k.at \in Retrying
    BY <1>1, <1>4, <2>1 DEF SendTaken, Scan, Retrying
  <2>3. ScanTyped'
    BY <1>0, <1>1, <2>2, GotoTyped
  <2>4. ghost' \in Ghost
    <3>1. <<doc, k.attempts>> \in Docs \X Nat
      BY <1>1
    <3>2. PICK twice \in {ghost.twice \cup {jobs[doc].device}, ghost.twice} :
            ghost' = [ghost EXCEPT !.taken[jobs[doc].device] = @ + 1,
                                   !.resent = @ \cup {<<doc, k.attempts>>}, !.twice = twice]
      BY <1>4 DEF SendTaken, Target, Doc
    <3>3. twice \subseteq Devices
      BY <1>0, <1>1, <3>2 DEF CountsTyped, Ghost
    <3>4. ghost.resent \cup {<<doc, k.attempts>>} \subseteq Docs \X Nat
      BY <1>0, <3>1 DEF CountsTyped, Ghost
    <3>5. /\ ghost'.taken = [ghost.taken EXCEPT ![jobs[doc].device] = @ + 1]
          /\ ghost'.resent = ghost.resent \cup {<<doc, k.attempts>>}
          /\ ghost'.twice = twice /\ ghost'.doubt = ghost.doubt
          /\ ghost' = [taken |-> ghost'.taken, resent |-> ghost'.resent,
                       twice |-> ghost'.twice, doubt |-> ghost'.doubt]
      BY <1>0, <3>2 DEF CountsTyped, Ghost
    <3>6. [ghost.taken EXCEPT ![jobs[doc].device] = @ + 1] \in [Devices -> Nat]
      BY <1>0, <1>1 DEF CountsTyped, Ghost
    <3> QED  BY <1>0, <3>3, <3>4, <3>5, <3>6 DEF CountsTyped, Ghost
  <2>5. CountsTyped'
    BY <1>0, <1>4, <2>1, <2>4 DEF SendTaken, CountsTyped
  <2> QED  BY <1>0, <1>4, <2>3, <2>5, Frames DEF SendTaken, Typed
<1>5. CASE SendRefused(s)
  <2>1. PICK next \in {[k EXCEPT !.at = "settle", !.result = "transient"], Dropped(s),
                       [Dropped(s) EXCEPT !.at = "disable"]} :
            Goto(s, next) /\ k.at \in Retrying
    BY <1>5 DEF SendRefused, Retrying
  <2>2. /\ [k EXCEPT !.at = "settle", !.result = "transient"] \in Scan
        /\ [k EXCEPT !.at = "settle", !.result = "transient"].attempts = k.attempts
    BY <1>1 DEF Scan
  <2>5. /\ Dropped(s) \in Scan /\ Dropped(s).attempts <= MaxAttempts
        /\ [Dropped(s) EXCEPT !.at = "disable"] \in Scan
        /\ [Dropped(s) EXCEPT !.at = "disable"].attempts <= MaxAttempts
    BY <1>0, DroppedTyped, NoneLeft
  <2>6. k.attempts <= MaxAttempts
    BY <1>1, <2>1
  <2>3. next \in Scan /\ next.attempts <= MaxAttempts
    BY <2>1, <2>2, <2>5, <2>6
  <2>4. ScanTyped'
    BY <1>0, <2>1, <2>3, GotoTyped
  <2> QED  BY <1>0, <1>5, <2>4, Frames DEF SendRefused, Typed
<1>6. CASE Disable(s)
  <2> DEFINE next == [k EXCEPT !.at = IF k.at = "disable" THEN "settle" ELSE "receipt"]
  <2>1. Goto(s, next) /\ next \in Scan /\ (next.at \in Retrying => next.attempts <= MaxAttempts)
    BY <1>1, <1>6 DEF Disable, Scan, Retrying
  <2>2. ScanTyped'
    BY <1>0, <2>1, GotoTyped
  <2>3. DevicesTyped'
    BY <1>0, <1>6 DEF Disable, DevicesTyped
  <2> QED  BY <1>0, <1>6, <2>2, <2>3, Frames DEF Disable, Typed
<1>7. CASE SettleRetry(s)
  <2>1. Goto(s, Idle) /\ k.attempts <= MaxAttempts
    BY <1>1, <1>7 DEF SettleRetry, Retrying
  <2>2. ScanTyped'
    BY <1>0, <2>1, GotoTyped, IdleTyped DEF Retrying
  <2>3. ASSUME NEW d \in Docs
        PROVE  /\ Settled(s)[d] \in Job /\ Settled(s)[d].attempts <= MaxAttempts + 1
               /\ Settled(s)[d].mode = "retry" => Settled(s)[d].attempts <= MaxAttempts
    <3>1. CASE d = doc /\ Again(s)
      <4> DEFINE again == [jobs[doc] EXCEPT !.attempts = k.attempts + 1, !.token = NoOne,
                                            !.leased = FALSE]
      <4>1. Settled(s)[d] = again
        BY <3>1 DEF Settled, Doc
      <4>4. k.attempts + 1 \in Nat
        BY <1>1
      <4>2. again \in Job /\ again.attempts = k.attempts + 1
        BY <1>1, <4>4 DEF Job
      <4>3. k.attempts + 1 <= MaxAttempts
        BY <1>1, <3>1, Limits DEF Again
      <4> HIDE DEF again
      <4> QED  BY <1>1, <4>1, <4>2, <4>3, Limits
    <3>2. CASE d = doc /\ ~Again(s)
      BY <1>1, <3>2, JobTyped, Limits DEF Settled, Doc
    <3>3. CASE d # doc /\ scan[s].result = "ok" /\ d = scan[s].ticket
      <4>1. Settled(s)[d] = Receipt(jobs[doc].device, k.attempts + 1)
        BY <3>3 DEF Settled, Doc
      <4> QED  BY <1>1, <2>1, <4>1, JobTyped, Limits
    <3>4. CASE d # doc /\ ~(scan[s].result = "ok" /\ d = scan[s].ticket)
      BY <1>0, <3>4 DEF Settled, Doc, JobsTyped
    <3> QED  BY <3>1, <3>2, <3>3, <3>4
  <2>4. jobs' = jobs \/ jobs' = Settled(s)
    BY <1>7 DEF SettleRetry
  <2>5. Settled(s) \in [Docs -> Job]
    BY <2>3 DEF Settled
  <2>6. JobsTyped'
    BY <1>0, <2>3, <2>4, <2>5 DEF JobsTyped
  <2> QED  BY <1>0, <1>7, <2>2, <2>6, Frames DEF SettleRetry, Typed
<1> QED  BY <1>2, <1>3, <1>4, <1>5, <1>6, <1>7

LEMMA ReceiptTyped ==
    ASSUME Typed, NEW s \in Scanners, Fetch(s) \/ SettleReceipt(s)
    PROVE  Typed'
<1> DEFINE k == scan[s]
           doc == scan[s].doc
<1>0. JobsTyped /\ ScanTyped /\ DevicesTyped /\ CountsTyped
  BY DEF Typed
<1>1. /\ k \in Scan /\ doc \in Docs /\ jobs[doc] \in Job /\ jobs[doc].device \in Devices
      /\ k.attempts \in Nat /\ jobs[doc].attempts \in Nat
  BY <1>0 DEF JobsTyped, ScanTyped, Scan, Job
<1>2. CASE Fetch(s)
  <2>1. PICK next \in {[k EXCEPT !.at = "receipt", !.result = "missing"],
                       [k EXCEPT !.at = "receipt", !.result = "transient"],
                       [Dropped(s) EXCEPT !.at = "receipt"], [Dropped(s) EXCEPT !.at = "bury"]} :
            Goto(s, next)
    BY <1>2 DEF Fetch
  <2>2. ASSUME NEW r \in {"missing", "transient"}
        PROVE  /\ [k EXCEPT !.at = "receipt", !.result = r] \in Scan
               /\ [k EXCEPT !.at = "receipt", !.result = r].at = "receipt"
    BY <1>1 DEF Scan
  <2>3. ASSUME NEW at \in {"receipt", "bury"}
        PROVE  /\ [Dropped(s) EXCEPT !.at = at] \in Scan
               /\ [Dropped(s) EXCEPT !.at = at].at = at
    BY <1>0, DroppedTyped
  <2>4. next \in Scan /\ next.at \notin Retrying
    BY <2>1, <2>2, <2>3 DEF Retrying
  <2>5. ScanTyped'
    BY <1>0, <2>1, <2>4, GotoTyped
  <2> QED  BY <1>0, <1>2, <2>5, Frames DEF Fetch, Typed
<1>3. CASE SettleReceipt(s)
  <2>1. ScanTyped'
    BY <1>0, <1>3, GotoTyped, IdleTyped DEF SettleReceipt, Retrying
  <2> DEFINE retry == [jobs[doc] EXCEPT !.mode = "retry", !.attempts = k.attempts + 1,
                                        !.token = NoOne, !.leased = FALSE]
  <2>2. \/ UNCHANGED jobs
        \/ jobs' = [jobs EXCEPT ![doc] = NoJob(jobs[doc].device)]
        \/ jobs' = [jobs EXCEPT ![doc] = retry] /\ Convertible(s)
    BY <1>3 DEF SettleReceipt, Doc
  <2>3. k.attempts + 1 \in Nat
    BY <1>1
  <2>4. retry \in Job /\ retry.attempts = k.attempts + 1
    BY <1>1, <2>3 DEF Job
  <2>5. Convertible(s) => k.attempts + 1 <= MaxAttempts /\ k.attempts + 1 <= MaxAttempts + 1
    BY <1>1, Limits DEF Convertible
  <2> HIDE DEF retry
  <2>6. JobsTyped'
    BY <1>0, <1>1, <2>2, <2>4, <2>5, JobTyped, OneJobTyped, Frames, NoneLeft
  <2> QED  BY <1>0, <1>3, <2>1, <2>6, Frames DEF SettleReceipt, Typed
<1> QED  BY <1>2, <1>3

LEMMA ScheduleTyped ==
    ASSUME Typed,
           \/ \E s \in Scanners : Die(s) \/ \E d \in Docs : Pick(s, d)
           \/ \E d \in Docs : LeaseLapses(d) \/ GrowsOld(d)
    PROVE  Typed'
<1>0. JobsTyped /\ ScanTyped /\ DevicesTyped /\ CountsTyped
  BY DEF Typed
<1>1. ASSUME NEW s \in Scanners, Die(s) PROVE Typed'
  <2>1. ScanTyped'
    BY <1>0, <1>1, GotoTyped, IdleTyped DEF Die, Retrying
  <2>2. Target(s) \in Devices
    BY <1>0 DEF Target, Doc, JobsTyped, ScanTyped, Scan, Job
  <2>3. ghost' = ghost \/ ghost' = [ghost EXCEPT !.doubt = @ \cup {Target(s)}]
    BY <1>1 DEF Die
  <2>4. ghost' \in Ghost
    BY <1>0, <2>2, <2>3 DEF CountsTyped, Ghost
  <2>5. deaths' \in 0..MaxDeaths
    BY <1>0, <1>1, Limits DEF Die, CountsTyped
  <2> QED  BY <1>0, <1>1, <2>1, <2>4, <2>5, Frames DEF Die, CountsTyped, Typed
<1>2. ASSUME NEW s \in Scanners, NEW d \in Docs, Pick(s, d) PROVE Typed'
  <2> DEFINE next == [Idle EXCEPT !.at = IF jobs[d].mode = "retry" THEN "claim" ELSE "fetch",
                                  !.doc = d, !.attempts = jobs[d].attempts,
                                  !.old = jobs[d].old]
  <2>1. jobs[d] \in Job
    BY <1>0 DEF JobsTyped
  <2>2. next \in Scan /\ next.attempts = jobs[d].attempts
        /\ next.at = IF jobs[d].mode = "retry" THEN "claim" ELSE "fetch"
    BY <2>1, IdleTyped DEF Job, Scan, Idle
  <2>3. Goto(s, next)
    BY <1>2 DEF Pick
  <2> HIDE DEF next
  <2>4. ScanTyped'
    BY <1>0, <2>2, <2>3, GotoTyped DEF JobsTyped, Retrying
  <2> QED  BY <1>0, <1>2, <2>4, Frames DEF Pick, Typed
<1>3. ASSUME NEW d \in Docs, LeaseLapses(d) PROVE Typed'
  <2> DEFINE lapsed == [jobs[d] EXCEPT !.leased = FALSE]
  <2>1. /\ jobs[d] \in Job /\ jobs[d].device \in Devices
        /\ lapsed \in Job /\ lapsed.mode = jobs[d].mode /\ lapsed.attempts = jobs[d].attempts
    BY <1>0 DEF JobsTyped, Job
  <2>2. jobs' = [jobs EXCEPT ![d] = lapsed]
    BY <1>0, <1>3 DEF LeaseLapses, JobsTyped
  <2> HIDE DEF lapsed
  <2>3. JobsTyped'
    BY <1>0, <2>1, <2>2, OneJobTyped DEF JobsTyped
  <2>4. ghost' = ghost \/ ghost' = [ghost EXCEPT !.doubt = @ \cup {jobs[d].device}]
    BY <1>3 DEF LeaseLapses
  <2>5. ghost' \in Ghost
    BY <1>0, <2>1, <2>4 DEF CountsTyped, Ghost
  <2> QED  BY <1>0, <1>3, <2>3, <2>5, Frames DEF LeaseLapses, CountsTyped, Typed
<1>4. ASSUME NEW d \in Docs, GrowsOld(d) PROVE Typed'
  <2> DEFINE older == [jobs[d] EXCEPT !.old = TRUE]
  <2>1. older \in Job /\ older.mode = jobs[d].mode /\ older.attempts = jobs[d].attempts
    BY <1>0 DEF JobsTyped, Job
  <2>2. jobs' = [jobs EXCEPT ![d] = older]
    BY <1>0, <1>4 DEF GrowsOld, JobsTyped
  <2> HIDE DEF older
  <2>3. JobsTyped'
    BY <1>0, <2>1, <2>2, OneJobTyped DEF JobsTyped
  <2> QED  BY <1>0, <1>4, <2>3, Frames DEF GrowsOld, Typed
<1> QED  BY <1>1, <1>2, <1>3, <1>4

LEMMA NextTyped == Typed /\ [Next]_vars => Typed'
<1> SUFFICES ASSUME Typed, [Next]_vars PROVE Typed'
  OBVIOUS
<1>1. CASE UNCHANGED vars
  BY <1>1, Frames DEF vars, Typed
<1> QED  BY <1>1, OutsideTyped, RetryTyped, ReceiptTyped, ScheduleTyped DEF Next, ScannerStep

(* Every reachable state is well typed, the numbers of attempts below      *)
(* their limit however receipts and retries turn into each other.          *)
THEOREM ReceiptsTypeCorrect == Spec => []TypeOK
BY InitTyped, NextTyped, TypedImplies, PTL DEF Spec
-----------------------------------------------------------------------------
(* The devices.                                                            *)
LEMMA ActiveFinite == ASSUME NEW u PROVE IsFiniteSet(Active(u)) /\ Active(u) \subseteq Devices
BY ReceiptAssumptions, FS_Subset DEF Active

LEMMA FewerActive ==
    ASSUME NEW u, Active(u)' \subseteq Active(u), Cardinality(Active(u)) <= MaxActive
    PROVE  Cardinality(Active(u)') <= MaxActive
<1>1. Cardinality(Active(u)') <= Cardinality(Active(u)) /\ IsFiniteSet(Active(u)')
  BY ActiveFinite, FS_Subset
<1> QED  BY <1>1, ActiveFinite, FS_CardinalityType, Limits

LEMMA InitWithin == Init => DevicesWithinLimit
BY DEF Init, DevicesWithinLimit

LEMMA NextWithin == Typed /\ DevicesWithinLimit /\ [Next]_vars => DevicesWithinLimit'
<1> SUFFICES ASSUME Typed, DevicesWithinLimit, [Next]_vars, NEW v \in Users
             PROVE  Cardinality(Active(v)') <= MaxActive
  BY DEF DevicesWithinLimit
<1>0. device \in [Devices -> [owner : Users \cup {NoOne}, enabled : BOOLEAN]]
      /\ Cardinality(Active(v)) <= MaxActive
  BY DEF Typed, DevicesTyped, DevicesWithinLimit
<1>1. ASSUME NEW u \in Users, NEW d \in Devices, Register(u, d)
      PROVE  Cardinality(Active(v)') <= MaxActive
  <2>1. device' = [device EXCEPT ![d] = [owner |-> u, enabled |-> TRUE]]
    BY <1>1 DEF Register
  <2>2. CASE v # u \/ ~ConsumesSlot(u, d)
    <3>1. Active(v)' \subseteq Active(v)
      BY <1>0, <2>1, <2>2 DEF Active, ConsumesSlot
    <3> QED  BY <1>0, <3>1, FewerActive
  <2>3. CASE v = u /\ ConsumesSlot(u, d)
    <3>1. Cardinality(Active(v)) < MaxActive
      BY <1>1, <2>3 DEF Register
    <3>2. Active(v)' = Active(v) \cup {d} /\ d \notin Active(v)
      BY <1>0, <2>1, <2>3 DEF Active, ConsumesSlot
    <3>3. Cardinality(Active(v)') = Cardinality(Active(v)) + 1
      BY <3>2, ActiveFinite, FS_AddElement
    <3> QED  BY <3>1, <3>3, ActiveFinite, FS_CardinalityType, Limits
  <2> QED  BY <2>2, <2>3
<1>2. ASSUME \/ \E u \in Users, d \in Devices : Unregister(u, d)
             \/ \E s \in Scanners : Disable(s)
             \/ UNCHANGED device
      PROVE  Cardinality(Active(v)') <= MaxActive
  <2>1. \A d \in Devices : \/ device'[d] = device[d]
                           \/ ~device'[d].enabled
    <3>1. ASSUME NEW u \in Users, NEW e \in Devices, Unregister(u, e)
          PROVE  \A d \in Devices : device'[d] = device[d] \/ ~device'[d].enabled
      BY <1>0, <3>1 DEF Unregister
    <3>2. ASSUME NEW s \in Scanners, Disable(s)
          PROVE  \A d \in Devices : device'[d] = device[d] \/ ~device'[d].enabled
      BY <1>0, <3>2 DEF Disable
    <3> QED  BY <1>2, <3>1, <3>2
  <2>2. Active(v)' \subseteq Active(v)
    BY <2>1 DEF Active
  <2> QED  BY <1>0, <2>2, FewerActive
<1> QED  BY <1>1, <1>2 DEF Next, vars, ScannerStep, NoLongerWanted, DispatchAccepted,
            DispatchDelayed, Die, Pick, LeaseLapses, GrowsOld, Claim, CheckRow, CheckDevice,
            SendTaken, SendRefused, SettleRetry, Fetch, SettleReceipt

(* registerNotificationDevice counts the slots it is about to take: no     *)
(* sequence of registering, handing over, disabling and enabling again     *)
(* gives an account more active devices than MAX_ACTIVE_DEVICES_PER_USER   *)
(* (notificationPushService.js:281-346).                                   *)
THEOREM DevicesStayWithinLimit == Spec => []DevicesWithinLimit
BY InitTyped, NextTyped, InitWithin, NextWithin, PTL DEF Spec

LEMMA HandedOver ==
    ASSUME Typed, [Next]_vars, NEW d \in Devices, device[d].owner \notin {Owner, NoOne},
           device[d].enabled, device'[d].owner = device[d].owner
    PROVE  device'[d].enabled
<1>0. device \in [Devices -> [owner : Users \cup {NoOne}, enabled : BOOLEAN]]
  BY DEF Typed, DevicesTyped
<1>1. ASSUME NEW u \in Users, NEW e \in Devices, Register(u, e) \/ Unregister(u, e)
      PROVE  device'[d].enabled
  BY <1>0, <1>1 DEF Register, Unregister
<1>2. ASSUME NEW s \in Scanners, Disable(s) PROVE device'[d].enabled
  BY <1>0, <1>2 DEF Disable, StillTheirs
<1> QED  BY <1>1, <1>2 DEF Next, vars, ScannerStep, NoLongerWanted, DispatchAccepted,
            DispatchDelayed, Die, Pick, LeaseLapses, GrowsOld, Claim, CheckRow, CheckDevice,
            SendTaken, SendRefused, SettleRetry, Fetch, SettleReceipt

(* disableNotificationDevice compares the owner in its transaction: what   *)
(* the provider says of an earlier message never disables a device that    *)
(* another account has registered since (notificationPushService.js:654).  *)
THEOREM HandedOverDevicesStand == Spec => HandedOverDeviceStands
<1>1. Typed /\ [Next]_vars =>
        [\A d \in Devices :
          device[d].owner \notin {Owner, NoOne} /\ device[d].enabled
            /\ device'[d].owner = device[d].owner => device'[d].enabled]_vars
  BY HandedOver
<1> QED  BY <1>1, InitTyped, NextTyped, PTL DEF Spec, HandedOverDeviceStands
-----------------------------------------------------------------------------
(* One attempt, one message.  Outside of doubt a scanner that works on a   *)
(* retry holds its claim, and what it sends ends the document's retry: the *)
(* document is never claimed again.                                        *)
Holding == {"row", "device", "send", "disable", "settle"}
Doubted(d) == jobs[d].device \in ghost.doubt

(* A document that is yet to be written: nobody has read it.               *)
Fresh(d) ==
    /\ jobs[d].mode = "none"
    /\ \A s \in Scanners : scan[s].at # "idle" => scan[s].doc # d
    /\ \A n \in Nat : <<d, n>> \notin ghost.resent

Unwritten ==
    /\ \A d \in unsent : Fresh(d)
    /\ \A t \in Tickets : t > issued => Fresh(t)
Ticketed ==
    \A s \in Scanners : scan[s].result = "ok" =>
        /\ scan[s].at = "settle" /\ scan[s].ticket \in Tickets /\ scan[s].ticket <= issued
        /\ Fresh(scan[s].ticket)
        /\ \A t \in Scanners \ {s} : scan[t].result = "ok" => scan[t].ticket # scan[s].ticket
Held ==
    \A s \in Scanners : scan[s].at \in Holding =>
        \/ Doubted(scan[s].doc)
        \/ jobs[scan[s].doc].mode = "retry" /\ jobs[scan[s].doc].token = s /\ jobs[scan[s].doc].leased
Answered ==
    \A d \in Docs, n \in Nat : <<d, n>> \in ghost.resent =>
        \/ Doubted(d)
        \/ jobs[d].mode = "none"
        \/ \E s \in Scanners : scan[s].doc = d /\ scan[s].result = "ok"

Once == Unwritten /\ Ticketed /\ Held /\ Answered /\ ResentOnlyInDoubt

LEMMA InitOnce == Init => Once
<1> SUFFICES ASSUME Init PROVE Once
  OBVIOUS
<1>1. \A s \in Scanners : scan[s].at = "idle" /\ scan[s].result = "none"
  BY DEF Init, Idle
<1>2. \A d \in Docs : jobs[d].mode = "none"
  BY DEF Init, NoJob
<1>3. ghost.resent = {} /\ ghost.twice = {}
  BY DEF Init
<1>4. unsent \subseteq Docs /\ Tickets \subseteq Docs
  BY DEF Init, Docs
<1> QED  BY <1>1, <1>2, <1>3, <1>4
     DEF Once, Unwritten, Ticketed, Held, Answered, ResentOnlyInDoubt, Fresh, Holding

(* What the types say of documents and entries.                            *)
LEMMA Shapes ==
    ASSUME Typed
    PROVE  /\ scan \in [Scanners -> Scan] /\ jobs \in [Docs -> Job] /\ ghost \in Ghost
           /\ \A s \in Scanners : /\ scan[s].doc \in Docs /\ scan[s].attempts \in Nat
                                  /\ scan[s].ticket \in 0..MaxTickets
           /\ unsent \subseteq Docs /\ Tickets \subseteq Docs
           /\ unsent \cap Tickets = {} /\ issued \in Nat
BY ReceiptAssumptions DEF Typed, JobsTyped, ScanTyped, CountsTyped, DevicesTyped, Scan, Docs, Tickets

(* A step of one entry that is not holding an answer and touches nothing   *)
(* but itself.                                                             *)
LEMMA OnceAlone ==
    ASSUME Typed, Once, NEW s \in Scanners, NEW next \in Scan, Goto(s, next),
           UNCHANGED <<jobs, issued, unsent, ghost>>,
           next.at # "idle" => scan[s].at # "idle" /\ next.doc = scan[s].doc,
           next.at \in Holding => scan[s].at \in Holding,
           scan[s].result # "ok", next.result # "ok"
    PROVE  Once'
<1>1. scan'[s] = next /\ \A t \in Scanners \ {s} : scan'[t] = scan[t]
  BY Shapes DEF Goto
<1>2. \A d : Fresh(d) => Fresh(d)'
  BY <1>1 DEF Fresh
<1>3. Unwritten' /\ Ticketed'
  BY <1>1, <1>2 DEF Once, Unwritten, Ticketed
<1>4. Held'
  BY <1>1 DEF Once, Held, Doubted, Holding
<1>5. Answered'
  BY <1>1 DEF Once, Answered, Doubted
<1> QED  BY <1>3, <1>4, <1>5 DEF Once, ResentOnlyInDoubt

(* A step that changes one document, which had been written, and may send  *)
(* the entry that made it back to rest.                                    *)
LEMMA OnceWritten ==
    ASSUME Typed, Once, NEW e \in Docs, ~Fresh(e),
           UNCHANGED <<issued, unsent>>, ghost'.resent = ghost.resent,
           ghost'.twice = ghost.twice, ghost.doubt \subseteq ghost'.doubt,
           \A d \in Docs : jobs'[d].device = jobs[d].device /\ (d # e => jobs'[d] = jobs[d]),
           \A s \in Scanners : scan'[s] = scan[s] \/ (scan'[s].at = "idle" /\ scan'[s].result # "ok"),
           Held', Answered'
    PROVE  Once'
<1>1. \A d \in Docs : Fresh(d) => Fresh(d)'
  BY DEF Fresh
<1>2. Unwritten' /\ Ticketed'
  BY <1>1, Shapes DEF Once, Unwritten, Ticketed
<1> QED  BY <1>2 DEF Once, ResentOnlyInDoubt

LEMMA OnceOutside ==
    ASSUME Typed, Once,
           \/ \E u \in Users, d \in Devices : Register(u, d) \/ Unregister(u, d)
           \/ NoLongerWanted
           \/ \E d \in Devices : DispatchAccepted(d) \/ DispatchDelayed(d)
    PROVE  Once'
<1>1. ASSUME UNCHANGED <<jobs, scan, issued, unsent, ghost>> PROVE Once'
  BY <1>1 DEF Once, Unwritten, Ticketed, Held, Answered, ResentOnlyInDoubt, Fresh, Doubted
<1>2. ASSUME NEW d \in Devices, NEW e \in Docs, NEW job, Fresh(e), d \in unsent,
             jobs' = [jobs EXCEPT ![e] = job], unsent' = unsent \ {d}, UNCHANGED scan,
             ghost'.resent = ghost.resent, ghost'.twice = ghost.twice,
             ghost'.doubt = ghost.doubt,
             \/ e = issued + 1 /\ issued' = issued + 1
             \/ e = d /\ issued' = issued
      PROVE  Once'
  <2>1. \A f \in Docs : f # e /\ Fresh(f) => Fresh(f)'
    BY <1>2, Shapes DEF Fresh
  <2>2. e \notin unsent'
    BY <1>2, Shapes, ReceiptAssumptions DEF Once, Tickets, Docs
  <2>3. \A t \in Tickets : t > issued' => t # e /\ t > issued
    BY <1>2, Shapes DEF Tickets
  <2>4. Unwritten'
    BY <1>2, <2>1, <2>2, <2>3, Shapes DEF Once, Unwritten
  <2>5. \A s \in Scanners : scan[s].result = "ok" => scan[s].ticket # e /\ scan[s].ticket <= issued'
    BY <1>2, Shapes DEF Once, Ticketed, Tickets
  <2>6. Ticketed'
    BY <1>2, <2>1, <2>5, Shapes DEF Once, Ticketed
  <2>7. Held'
    BY <1>2, Shapes DEF Once, Held, Doubted, Fresh, Holding
  <2>8. Answered'
    BY <1>2, Shapes DEF Once, Answered, Doubted, Fresh
  <2> QED  BY <1>2, <2>4, <2>6, <2>7, <2>8 DEF Once, ResentOnlyInDoubt
<1>3. ASSUME NEW d \in Devices, DispatchAccepted(d) PROVE Once'
  <2>1. issued + 1 \in Tickets /\ issued + 1 > issued
    BY <1>3, Shapes, Limits DEF DispatchAccepted, Tickets
  <2>2. Fresh(issued + 1) /\ issued + 1 \in Docs
    BY <2>1, Shapes DEF Once, Unwritten
  <2>3. /\ ghost'.resent = ghost.resent /\ ghost'.twice = ghost.twice
        /\ ghost'.doubt = ghost.doubt
    BY <1>3, Shapes DEF DispatchAccepted, Ghost
  <2> QED  BY <1>2, <1>3, <2>2, <2>3 DEF DispatchAccepted
<1>4. ASSUME NEW d \in Devices, DispatchDelayed(d) PROVE Once'
  <2>1. Fresh(d) /\ d \in Docs
    BY <1>4, Shapes DEF DispatchDelayed, Once, Unwritten
  <2> QED  BY <1>2, <1>4, <2>1 DEF DispatchDelayed
<1>5. ASSUME NEW u \in Users, NEW d \in Devices, Register(u, d) \/ Unregister(u, d) PROVE Once'
  BY <1>1, <1>5 DEF Register, Unregister
<1>6. CASE NoLongerWanted
  BY <1>1, <1>6 DEF NoLongerWanted
<1> QED  BY <1>3, <1>4, <1>5, <1>6

(* An entry that is being treated has a document that had been written.    *)
LEMMA Treated ==
    ASSUME NEW s \in Scanners, scan[s].at # "idle"
    PROVE  ~Fresh(scan[s].doc)
BY DEF Fresh

(* The entry whose claim stands is the only one that is not in doubt.      *)
LEMMA OneHolder ==
    ASSUME Once, NEW s \in Scanners, NEW t \in Scanners, s # t,
           jobs[scan[s].doc].token = s, scan[t].at \in Holding, scan[t].doc = scan[s].doc
    PROVE  Doubted(scan[t].doc)
BY DEF Once, Held

LEMMA OnceClaim ==
    ASSUME Typed, Typed', Once, NEW s \in Scanners, Claim(s)
    PROVE  Once'
<1> DEFINE k == scan[s]
           doc == scan[s].doc
<1>1. k.at = "claim" /\ doc \in Docs /\ ~Fresh(doc) /\ k.result # "ok"
  BY Treated, Shapes DEF Claim, Once, Ticketed
<1>2. CASE Goto(s, Idle) /\ UNCHANGED jobs
  BY <1>1, <1>2, OnceAlone, IdleTyped DEF Claim, Holding, Idle
<1>3. ASSUME Claimable(s), NEW job \in Job, jobs' = [jobs EXCEPT ![doc] = job],
             job.device = jobs[doc].device,
             \/ job.mode = "none" /\ Goto(s, Idle)
             \/ /\ job.mode = "retry" /\ job.token = s /\ job.leased
                /\ Goto(s, [k EXCEPT !.at = "row"])
      PROVE  Once'
  <2>1. \A t \in Scanners : scan[t].at \in Holding /\ scan[t].doc = doc => Doubted(doc)
    BY <1>3, ReceiptAssumptions DEF Claimable, Doc, Once, Held
  <2>2. UNCHANGED <<issued, unsent, ghost>>
    BY DEF Claim
  <2>3. jobs'[doc] = job /\ \A d \in Docs : d # doc => jobs'[d] = jobs[d]
    BY <1>1, <1>3, Shapes
  <2>4. \A t \in Scanners : t # s => scan'[t] = scan[t]
    BY <1>3, Shapes DEF Goto
  <2>5. \A d \in Docs : Doubted(d)' <=> Doubted(d)
    BY <1>3, <2>2, <2>3 DEF Doubted
  <2>6. CASE job.mode = "none" /\ Goto(s, Idle)
    <3>1. scan'[s].at = "idle" /\ scan'[s].result # "ok"
      BY <2>6, Shapes DEF Goto, Idle
    <3>2. Held'
      BY <2>1, <2>3, <2>4, <2>5, <3>1, Shapes DEF Once, Held, Holding
    <3>3. Answered'
      BY <1>1, <2>2, <2>3, <2>4, <2>5, <2>6, <3>1 DEF Once, Answered
    <3> QED  BY <1>1, <1>3, <2>2, <2>3, <2>4, <3>1, <3>2, <3>3, OnceWritten
  <2>7. CASE /\ job.mode = "retry" /\ job.token = s /\ job.leased
             /\ Goto(s, [k EXCEPT !.at = "row"])
    <3>1. /\ scan'[s].at = "row" /\ scan'[s].doc = doc /\ scan'[s].result = k.result
      BY <1>1, <2>7, Shapes DEF Goto, Scan
    <3>2. \A d \in Docs : Fresh(d) => Fresh(d)'
      BY <1>1, <2>2, <2>3, <2>4, <3>1 DEF Fresh
    <3>3. Unwritten'
      BY <2>2, <3>2, Shapes DEF Once, Unwritten
    <3>4. Ticketed'
      BY <1>1, <2>2, <2>4, <3>1, <3>2, Shapes DEF Once, Ticketed
    <3>5. Held'
      BY <2>1, <2>3, <2>4, <2>5, <2>7, <3>1, Shapes DEF Once, Held
    <3>6. \A d \in Docs : jobs'[d].mode = "none" \/ jobs[d].mode # "none"
      BY <1>3, <2>3 DEF Claimable, Doc
    <3>7. Answered'
      <4>1. \A d \in Docs : jobs[d].mode = "none" => jobs'[d].mode = "none"
        BY <3>6
      <4> QED  BY <1>1, <2>2, <2>4, <2>5, <3>1, <4>1 DEF Once, Answered
    <3> QED  BY <2>2, <3>3, <3>4, <3>5, <3>7 DEF Once, ResentOnlyInDoubt
  <2> QED  BY <1>3, <2>6, <2>7
<1>4. CASE Claimable(s) /\ k.old /\ jobs' = [jobs EXCEPT ![doc] = NoJob(jobs[doc].device)]
           /\ Goto(s, Idle)
  <2>1. /\ NoJob(jobs[doc].device) \in Job /\ NoJob(jobs[doc].device).mode = "none"
        /\ NoJob(jobs[doc].device).device = jobs[doc].device
    BY <1>1, Shapes DEF NoJob, Job
  <2> QED  BY <1>3, <1>4, <2>1
<1>5. CASE /\ Claimable(s)
           /\ jobs' = [jobs EXCEPT ![doc] = [jobs[doc] EXCEPT !.token = s, !.leased = TRUE]]
           /\ Goto(s, [k EXCEPT !.at = "row"])
  <2> DEFINE job == [jobs[doc] EXCEPT !.token = s, !.leased = TRUE]
  <2>1. jobs[doc] \in Job /\ jobs[doc].mode = "retry"
    BY <1>1, <1>5, Shapes DEF Claimable, Doc
  <2>2. /\ job \in Job /\ job.mode = "retry" /\ job.token = s /\ job.leased
        /\ job.device = jobs[doc].device
    BY <2>1 DEF Job
  <2>3. jobs' = [jobs EXCEPT ![doc] = job]
    BY <1>5
  <2> HIDE DEF job
  <2> QED  BY <1>3, <1>5, <2>2, <2>3
<1>6. jobs' = [jobs EXCEPT ![doc].token = s, ![doc].leased = TRUE]
      => jobs' = [jobs EXCEPT ![doc] = [jobs[doc] EXCEPT !.token = s, !.leased = TRUE]]
  BY <1>1, Shapes
<1> QED  BY <1>1, <1>2, <1>4, <1>5, <1>6, Shapes DEF Claim, Doc

LEMMA OnceSend ==
    ASSUME Typed, Once, NEW s \in Scanners, SendTaken(s)
    PROVE  Once'
<1> DEFINE k == scan[s]
           doc == scan[s].doc
           here == jobs[scan[s].doc].device
<1>1. /\ k.at = "send" /\ doc \in Docs /\ ~Fresh(doc) /\ k.result # "ok" /\ UNCHANGED <<jobs, unsent>>
      /\ k.attempts \in Nat /\ issued' = issued + 1 /\ issued \in Nat /\ here \in Devices
  BY Treated, Shapes DEF SendTaken, Once, Ticketed, Job
<1>2. /\ ghost'.resent = ghost.resent \cup {<<doc, k.attempts>>}
      /\ ghost'.doubt = ghost.doubt
      /\ ghost'.twice = IF <<doc, k.attempts>> \in ghost.resent
                        THEN ghost.twice \cup {here} ELSE ghost.twice
  BY <1>1, Shapes DEF SendTaken, Target, Doc, Ghost
<1>3. /\ scan'[s].at = "settle" /\ scan'[s].doc = doc /\ scan'[s].result = "ok"
      /\ scan'[s].ticket = issued + 1
      /\ \A t \in Scanners \ {s} : scan'[t] = scan[t]
  BY <1>1, Shapes DEF SendTaken, Goto, Scan
<1>4. issued + 1 \in Tickets /\ Fresh(issued + 1)
  <2>1. issued + 1 \in Tickets
    BY <1>1, Limits DEF SendTaken, Tickets
  <2> QED  BY <1>1, <2>1 DEF Once, Unwritten
<1>5. <<doc, k.attempts>> \in ghost.resent => Doubted(doc)
  <2> SUFFICES ASSUME <<doc, k.attempts>> \in ghost.resent, ~Doubted(doc) PROVE FALSE
    OBVIOUS
  <2>1. jobs[doc].mode = "retry" /\ jobs[doc].token = s
    BY <1>1 DEF Once, Held, Holding
  <2>2. PICK t \in Scanners : scan[t].doc = doc /\ scan[t].result = "ok"
    BY <1>1, <2>1 DEF Once, Answered
  <2>3. t # s /\ scan[t].at \in Holding
    BY <1>1, <2>2 DEF Once, Ticketed, Holding
  <2> QED  BY <2>1, <2>2, <2>3, OneHolder
<1>6. \A d \in Docs : Fresh(d) => Fresh(d)'
  BY <1>1, <1>2, <1>3 DEF Fresh
<1>7. Unwritten'
  BY <1>1, <1>6, Shapes DEF Once, Unwritten, Tickets
<1>8. Ticketed'
  BY <1>1, <1>3, <1>4, <1>6, Shapes DEF Once, Ticketed, Tickets
<1>9. Held'
  BY <1>1, <1>2, <1>3 DEF Once, Held, Doubted, Holding
<1>10. Answered'
  BY <1>1, <1>2, <1>3 DEF Once, Answered, Doubted
<1>11. ResentOnlyInDoubt'
  BY <1>2, <1>5 DEF Once, ResentOnlyInDoubt, Doubted
<1> QED  BY <1>7, <1>8, <1>9, <1>10, <1>11 DEF Once

LEMMA OnceSettle ==
    ASSUME Typed, Once, NEW s \in Scanners, SettleRetry(s)
    PROVE  Once'
<1> DEFINE k == scan[s]
           doc == scan[s].doc
<1>1. /\ k.at = "settle" /\ doc \in Docs /\ ~Fresh(doc) /\ jobs[doc] \in Job
      /\ UNCHANGED <<issued, unsent, ghost>>
  BY Treated, Shapes DEF SettleRetry
<1>2. /\ scan'[s].at = "idle" /\ scan'[s].result # "ok"
      /\ \A t \in Scanners \ {s} : scan'[t] = scan[t]
  BY Shapes DEF SettleRetry, Goto, Idle
<1>3. k.result = "ok" => Fresh(k.ticket) /\ k.ticket # doc
  BY <1>1 DEF Once, Ticketed
<1>4. CASE ~HoldsClaim(s)
  <2>1. UNCHANGED jobs
    BY <1>4 DEF SettleRetry
  <2>2. Doubted(doc)
    BY <1>1, <1>4 DEF HoldsClaim, Doc, Once, Held, Holding
  <2>3. Held'
    BY <1>1, <1>2, <2>1 DEF Once, Held, Doubted, Holding
  <2>4. Answered'
    BY <1>1, <1>2, <2>1, <2>2 DEF Once, Answered, Doubted
  <2> QED  BY <1>1, <1>2, <2>1, <2>3, <2>4, OnceWritten
<1>5. CASE HoldsClaim(s)
  <2> DEFINE new == IF k.result = "ok" THEN k.ticket ELSE doc
  <2>1. jobs' = Settled(s) /\ jobs[doc].token = s
    BY <1>5 DEF SettleRetry, HoldsClaim, Doc
  <2>2. /\ jobs'[doc].device = jobs[doc].device
        /\ jobs'[doc].mode = "none" \/ k.result # "ok"
    BY <1>1, <2>1 DEF Settled, Doc, NoJob, Job, Again
  <2>3. \A d \in Docs : d # doc /\ d # new => jobs'[d] = jobs[d]
    BY <2>1 DEF Settled, Doc
  <2>4. \A d \in Docs : Fresh(d) /\ d # new => Fresh(d)'
    BY <1>1, <1>2, <2>3 DEF Fresh
  <2>5. /\ \A d \in unsent : d # new
        /\ \A t \in Tickets : t > issued => t # new
    BY <1>1, <1>3, Shapes DEF Once, Ticketed, Unwritten
  <2>6. Unwritten'
    BY <1>1, <2>4, <2>5, Shapes DEF Once, Unwritten
  <2>7. Ticketed'
    <3>1. \A t \in Scanners : scan'[t].result = "ok" =>
            t # s /\ scan'[t] = scan[t] /\ scan[t].ticket # new /\ scan[t].ticket \in Docs
      BY <1>1, <1>2, Shapes DEF Once, Ticketed
    <3>2. \A t \in Scanners : scan'[t].result = "ok" => Fresh(scan[t].ticket)'
      BY <1>2, <2>4, <3>1 DEF Once, Ticketed
    <3> QED  BY <1>1, <1>2, <3>1, <3>2 DEF Once, Ticketed
  <2>8. \A t \in Scanners \ {s} : scan[t].at \in Holding /\ scan[t].doc = doc => Doubted(doc)
    BY <2>1, OneHolder
  <2>9. \A t \in Scanners \ {s} : scan[t].at # "idle" => scan[t].doc # new \/ new = doc
    BY <1>3 DEF Fresh
  <2>10. Held'
    BY <1>1, <1>2, <2>2, <2>3, <2>8, <2>9, Shapes DEF Once, Held, Doubted, Holding
  <2>11. Answered'
    <3> SUFFICES ASSUME NEW d \in Docs, NEW n \in Nat, <<d, n>> \in ghost.resent,
                        ~Doubted(d)', jobs'[d].mode # "none"
                 PROVE  \E t \in Scanners : scan'[t].doc = d /\ scan'[t].result = "ok"
      BY <1>1 DEF Answered
    <3>1. d # new \/ new = doc
      BY <1>3 DEF Fresh
    <3>2. ~Doubted(d)
      BY <1>1, <2>2, <2>3, <3>1 DEF Doubted
    <3>3. jobs[d].mode # "none"
      BY <1>1, <1>5, <2>3, <3>1 DEF HoldsClaim, Doc
    <3>4. PICK t \in Scanners : scan[t].doc = d /\ scan[t].result = "ok"
      BY <3>2, <3>3 DEF Once, Answered
    <3>5. t # s
      <4> SUFFICES ASSUME t = s PROVE FALSE
        OBVIOUS
      <4> QED  BY <2>2, <3>4
    <3> QED  BY <1>2, <3>4, <3>5
  <2> QED  BY <1>1, <2>6, <2>7, <2>10, <2>11 DEF Once, ResentOnlyInDoubt
<1> QED  BY <1>4, <1>5

(* Entries that only read, or disable a device.                            *)
LEMMA OnceReads ==
    ASSUME Typed, Typed', Once, NEW s \in Scanners,
           CheckRow(s) \/ CheckDevice(s) \/ SendRefused(s) \/ Disable(s) \/ Fetch(s)
    PROVE  Once'
<1> DEFINE k == scan[s]
<1>0. k \in Scan /\ k.doc \in Docs
  BY Shapes
<1>1. k.at \in {"row", "device", "send", "disable", "bury", "fetch"} /\ k.result # "ok"
  BY DEF CheckRow, CheckDevice, SendRefused, Disable, Fetch, Once, Ticketed
<1>2. UNCHANGED <<jobs, issued, unsent, ghost>>
  BY DEF CheckRow, CheckDevice, SendRefused, Disable, Fetch
<1>3. scan' = [scan EXCEPT ![s] = scan'[s]] /\ scan'[s] \in Scan
  BY Shapes DEF CheckRow, CheckDevice, SendRefused, Disable, Fetch, Goto, Typed, ScanTyped
<1>4. scan'[s].doc = k.doc /\ scan'[s].result # "ok"
      /\ (scan'[s].at \in Holding => k.at \in Holding)
  <2>1. /\ [k EXCEPT !.at = "settle", !.result = "transient"].doc = k.doc
        /\ [k EXCEPT !.at = "settle", !.result = "transient"].result = "transient"
    BY <1>0 DEF Scan
  <2>2. \A r : /\ [k EXCEPT !.at = "receipt", !.result = r].doc = k.doc
               /\ [k EXCEPT !.at = "receipt", !.result = r].result = r
               /\ [k EXCEPT !.at = "receipt", !.result = r].at = "receipt"
    BY <1>0 DEF Scan
  <2>3. \A at \in {"device", "send"} :
          [k EXCEPT !.at = at].doc = k.doc /\ [k EXCEPT !.at = at].result = k.result
    BY <1>0 DEF Scan
  <2>4. \A at : /\ [Dropped(s) EXCEPT !.at = at].at = at
                /\ [Dropped(s) EXCEPT !.at = at].doc = k.doc
                /\ [Dropped(s) EXCEPT !.at = at].result = "drop"
    BY DEF Dropped, Idle, Doc
  <2>5. Dropped(s).at = "settle" /\ Dropped(s).doc = k.doc /\ Dropped(s).result = "drop"
    BY DEF Dropped, Idle, Doc
  <2>6. CASE CheckRow(s) \/ CheckDevice(s)
    <3>1. k.at \in Holding
      BY <2>6 DEF CheckRow, CheckDevice, Holding
    <3>2. scan'[s] = Dropped(s) \/ \E at \in {"device", "send"} : scan'[s] = [k EXCEPT !.at = at]
      BY <2>6, Shapes DEF CheckRow, CheckDevice, Goto
    <3> QED  BY <1>1, <2>3, <2>5, <3>1, <3>2
  <2>7. CASE SendRefused(s)
    <3>1. k.at \in Holding
      BY <2>7 DEF SendRefused, Holding
    <3>2. \/ scan'[s] = [k EXCEPT !.at = "settle", !.result = "transient"]
          \/ scan'[s] = Dropped(s) \/ scan'[s] = [Dropped(s) EXCEPT !.at = "disable"]
      BY <2>7, Shapes DEF SendRefused, Goto
    <3> QED  BY <2>1, <2>4, <2>5, <3>1, <3>2
  <2>8. CASE Disable(s)
    BY <1>0, <1>1, <2>8, Shapes DEF Disable, Goto, Scan, Holding
  <2>9. CASE Fetch(s)
    <3>1. k.at = "fetch"
      BY <2>9 DEF Fetch
    <3>2. \/ \E r \in {"missing", "transient"} : scan'[s] = [k EXCEPT !.at = "receipt", !.result = r]
          \/ scan'[s] = [Dropped(s) EXCEPT !.at = "receipt"]
          \/ scan'[s] = [Dropped(s) EXCEPT !.at = "bury"]
      BY <2>9, Shapes DEF Fetch, Goto
    <3>3. ASSUME NEW r \in {"missing", "transient"},
                 scan'[s] = [k EXCEPT !.at = "receipt", !.result = r]
          PROVE  scan'[s].at = "receipt" /\ scan'[s].doc = k.doc /\ scan'[s].result # "ok"
      BY <2>2, <3>3
    <3>4. ASSUME NEW at \in {"receipt", "bury"}, scan'[s] = [Dropped(s) EXCEPT !.at = at]
          PROVE  scan'[s].at = at /\ scan'[s].doc = k.doc /\ scan'[s].result # "ok"
      BY <2>4, <3>4
    <3> QED  BY <3>2, <3>3, <3>4 DEF Holding
  <2> QED  BY <2>6, <2>7, <2>8, <2>9
<1> QED  BY <1>1, <1>2, <1>3, <1>4, OnceAlone DEF Goto

(* The query meets documents that had been written.                        *)
LEMMA OncePick ==
    ASSUME Typed, Once, NEW s \in Scanners, NEW d \in Docs, Pick(s, d)
    PROVE  Once'
<1>1. /\ scan'[s].at \in {"claim", "fetch"} /\ scan'[s].doc = d /\ scan'[s].result = "none"
      /\ \A t \in Scanners \ {s} : scan'[t] = scan[t]
      /\ scan[s].result # "ok"
  BY Shapes DEF Pick, Goto, Idle
<1>2. UNCHANGED <<jobs, issued, unsent, ghost>> /\ ~Fresh(d)
  BY DEF Pick, Fresh
<1>3. \A e \in Docs : Fresh(e) => Fresh(e)'
  BY <1>1, <1>2 DEF Fresh
<1>4. Unwritten' /\ Ticketed'
  BY <1>1, <1>2, <1>3, Shapes DEF Once, Unwritten, Ticketed
<1>5. Held'
  BY <1>1, <1>2 DEF Once, Held, Doubted, Holding
<1>6. Answered'
  BY <1>1, <1>2 DEF Once, Answered, Doubted
<1> QED  BY <1>2, <1>4, <1>5, <1>6 DEF Once, ResentOnlyInDoubt

(* A receipt's document has no retry that stands: who holds one is in      *)
(* doubt, and so is the retry that sent.                                   *)
LEMMA OnceReceipt ==
    ASSUME Typed, Typed', Once, NEW s \in Scanners, SettleReceipt(s)
    PROVE  Once'
<1> DEFINE doc == scan[s].doc
<1>1. /\ scan[s].at = "receipt" /\ doc \in Docs /\ ~Fresh(doc) /\ jobs[doc] \in Job
      /\ UNCHANGED <<issued, unsent, ghost>> /\ scan[s].result # "ok"
  BY Treated, Shapes DEF SettleReceipt, Once, Ticketed
<1>2. /\ scan'[s].at = "idle" /\ scan'[s].result # "ok"
      /\ \A t \in Scanners \ {s} : scan'[t] = scan[t]
  BY Shapes DEF SettleReceipt, Goto, Idle
<1>3. CASE UNCHANGED jobs
  <2>1. Held'
    BY <1>1, <1>2, <1>3 DEF Once, Held, Doubted, Holding
  <2>2. Answered'
    BY <1>1, <1>2, <1>3 DEF Once, Answered, Doubted
  <2> QED  BY <1>1, <1>2, <1>3, <2>1, <2>2, OnceWritten
<1>4. CASE ~UNCHANGED jobs
  <2>1. jobs[doc].mode = "receipt"
    BY <1>4 DEF SettleReceipt, StillReceipt, Doc
  <2>2. /\ jobs'[doc].device = jobs[doc].device
        /\ \A d \in Docs : d # doc => jobs'[d] = jobs[d]
    <3>1. PICK job : jobs' = [jobs EXCEPT ![doc] = job] /\ job.device = jobs[doc].device
      <4>1. CASE jobs' = [jobs EXCEPT ![doc] = NoJob(jobs[doc].device)]
        <5>1. NoJob(jobs[doc].device).device = jobs[doc].device
          BY DEF NoJob
        <5> QED  BY <4>1, <5>1
      <4>2. CASE jobs' = [jobs EXCEPT ![doc] =
                            [jobs[doc] EXCEPT !.mode = "retry", !.attempts = scan[s].attempts + 1,
                                              !.token = NoOne, !.leased = FALSE]]
        <5> DEFINE job == [jobs[doc] EXCEPT !.mode = "retry", !.attempts = scan[s].attempts + 1,
                                            !.token = NoOne, !.leased = FALSE]
        <5>1. job.device = jobs[doc].device
          BY <1>1 DEF Job
        <5>2. jobs' = [jobs EXCEPT ![doc] = job]
          BY <4>2
        <5> HIDE DEF job
        <5> QED  BY <5>1, <5>2
      <4> QED  BY <1>4, <4>1, <4>2 DEF SettleReceipt, Doc
    <3> QED  BY <1>1, <3>1, Shapes
  <2>3. \A t \in Scanners : scan[t].at \in Holding /\ scan[t].doc = doc => Doubted(doc)
    BY <2>1 DEF Once, Held
  <2>4. \A d \in Docs : Doubted(d)' <=> Doubted(d)
    BY <1>1, <2>2 DEF Doubted
  <2>5. Held'
    BY <1>1, <1>2, <2>2, <2>3, <2>4, Shapes DEF Once, Held, Holding
  <2>6. \A t \in Scanners : scan[t].result = "ok" /\ scan[t].doc = doc => Doubted(doc)
    BY <2>3 DEF Once, Ticketed, Holding
  <2>7. \A n \in Nat : <<doc, n>> \in ghost.resent => Doubted(doc)
    BY <1>1, <2>1, <2>6 DEF Once, Answered
  <2>8. Answered'
    BY <1>1, <1>2, <2>2, <2>4, <2>7 DEF Once, Answered
  <2> QED  BY <1>1, <1>2, <2>2, <2>5, <2>8, OnceWritten
<1> QED  BY <1>3, <1>4

(* Who dies with an answer in its hands, or outlives its lease, leaves     *)
(* doubt behind.                                                           *)
LEMMA OnceDies ==
    ASSUME Typed, Once, NEW s \in Scanners, Die(s)
    PROVE  Once'
<1> DEFINE doc == scan[s].doc
<1>1. doc \in Docs /\ UNCHANGED <<jobs, issued, unsent>>
  BY Shapes DEF Die
<1>2. /\ scan'[s].at = "idle" /\ scan'[s].result # "ok"
      /\ \A t \in Scanners \ {s} : scan'[t] = scan[t]
  BY Shapes DEF Die, Goto, Idle
<1>3. /\ ghost'.resent = ghost.resent /\ ghost'.twice = ghost.twice
      /\ ghost.doubt \subseteq ghost'.doubt
      /\ scan[s].result = "ok" => jobs[doc].device \in ghost'.doubt
  BY Shapes DEF Die, Ghost, Target, Doc, Once, Ticketed
<1>4. Held'
  BY <1>1, <1>2, <1>3 DEF Once, Held, Doubted, Holding
<1>5. Answered'
  BY <1>1, <1>2, <1>3 DEF Once, Answered, Doubted
<1>6. \A d \in Docs : Fresh(d) => Fresh(d)'
  BY <1>1, <1>2, <1>3 DEF Fresh
<1>7. Unwritten' /\ Ticketed'
  BY <1>1, <1>2, <1>6, Shapes DEF Once, Unwritten, Ticketed
<1> QED  BY <1>3, <1>4, <1>5, <1>7 DEF Once, ResentOnlyInDoubt

LEMMA OnceTime ==
    ASSUME Typed, Once, NEW doc \in Docs, LeaseLapses(doc) \/ GrowsOld(doc)
    PROVE  Once'
<1>1. /\ UNCHANGED <<scan, issued, unsent>> /\ jobs[doc] \in Job
      /\ \A d \in Docs : d # doc => jobs'[d] = jobs[d]
      /\ jobs'[doc].device = jobs[doc].device /\ jobs'[doc].mode = jobs[doc].mode
      /\ jobs'[doc].token = jobs[doc].token
      /\ GrowsOld(doc) => jobs'[doc].leased = jobs[doc].leased
  BY Shapes DEF LeaseLapses, GrowsOld, Job
<1>2. /\ ghost'.resent = ghost.resent /\ ghost'.twice = ghost.twice
      /\ ghost.doubt \subseteq ghost'.doubt
  BY Shapes DEF LeaseLapses, GrowsOld, Ghost
<1>3. \A s \in Scanners : LeaseLapses(doc) /\ scan[s].at \in Holding /\ scan[s].doc = doc
        => jobs[doc].device \in ghost'.doubt
  <2> SUFFICES ASSUME NEW s \in Scanners, LeaseLapses(doc), scan[s].at \in Holding,
                      scan[s].doc = doc, ~Doubted(doc)
               PROVE  jobs[doc].device \in ghost'.doubt
    BY <1>2 DEF Doubted
  <2>1. jobs[doc].token = s
    BY DEF Once, Held
  <2>2. Working(s, doc)
    BY DEF Working, Holding, Doc
  <2> QED  BY <2>1, <2>2, Shapes DEF LeaseLapses, Ghost
<1>4. Held'
  BY <1>1, <1>2, <1>3, Shapes DEF Once, Held, Doubted
<1>5. Answered'
  BY <1>1, <1>2 DEF Once, Answered, Doubted
<1>6. \A d \in Docs : Fresh(d) => Fresh(d)'
  BY <1>1, <1>2 DEF Fresh
<1>7. Unwritten' /\ Ticketed'
  BY <1>1, <1>6, Shapes DEF Once, Unwritten, Ticketed
<1> QED  BY <1>2, <1>4, <1>5, <1>7 DEF Once, ResentOnlyInDoubt

LEMMA NextOnce == Typed /\ Typed' /\ Once /\ [Next]_vars => Once'
<1> SUFFICES ASSUME Typed, Typed', Once, [Next]_vars PROVE Once'
  OBVIOUS
<1>1. CASE UNCHANGED vars
  BY <1>1 DEF vars, Once, Unwritten, Ticketed, Held, Answered, ResentOnlyInDoubt, Fresh, Doubted
<1>2. ASSUME NEW s \in Scanners, ScannerStep(s) PROVE Once'
  BY <1>2, OnceClaim, OnceReads, OnceSend, OnceSettle, OnceReceipt DEF ScannerStep
<1>3. ASSUME NEW s \in Scanners, Die(s) \/ \E d \in Docs : Pick(s, d) PROVE Once'
  BY <1>3, OnceDies, OncePick
<1>4. ASSUME NEW d \in Docs, LeaseLapses(d) \/ GrowsOld(d) PROVE Once'
  BY <1>4, OnceTime
<1> QED  BY <1>1, <1>2, <1>3, <1>4, OnceOutside DEF Next

(* claimRetrySendJob and settleRetrySendClaim: however scans overlap, one  *)
(* attempt sends its message once, unless a scanner died with the answer   *)
(* or was slower than its lease (notificationPushService.js:1171-1235).    *)
THEOREM ResentOnlyWhenInDoubt == Spec => []ResentOnlyInDoubt
<1>1. Once => ResentOnlyInDoubt
  BY DEF Once
<1> QED  BY <1>1, InitTyped, NextTyped, InitOnce, NextOnce, PTL DEF Spec
-----------------------------------------------------------------------------
(* What a device may receive.  A notification has one job for a device at  *)
(* a time: each step of a job's life replaces it, by one with a higher     *)
(* number of attempts, and a send is paid for by two of them, the retry    *)
(* that sends and the receipt that asks for it.                            *)
Live(e) == jobs[e].mode # "none"
Taken(e) == ghost.taken[jobs[e].device]
Spent(e) == \E s \in Scanners : scan[s].doc = e /\ scan[s].result = "ok"

Lone ==
    \A e, f \in Docs :
        Live(e) /\ Live(f) /\ jobs[e].device = jobs[f].device /\ ~Doubted(e) => e = f
Undispatched ==
    \A d \in unsent \ ghost.doubt :
        ghost.taken[d] = 0 /\ \A e \in Docs : Live(e) => jobs[e].device # d

(* The number of attempts that an entry was read with is still that of its *)
(* document when it is used; after a dead end nothing uses it.             *)
Reading(s) == scan[s].at \in {"row", "device", "send", "fetch"}
Deciding(s) == scan[s].at \in {"settle", "receipt"} /\ scan[s].result # "drop"
Expected(s) == IF scan[s].at \in Holding THEN "retry" ELSE "receipt"
Knows(s) ==
    /\ scan[s].at \in {"disable", "bury"} => scan[s].result = "drop"
    /\ Reading(s) \/ Deciding(s) =>
        LET doc == scan[s].doc IN
        ~Doubted(doc) /\ jobs[doc].mode = Expected(s) => scan[s].attempts = jobs[doc].attempts
Known == \A s \in Scanners : Knows(s)

Grant(e) ==
    /\ jobs[e].mode = "receipt" => Taken(e) <= 1 + jobs[e].attempts \div 2
    /\ jobs[e].mode = "retry" =>
        \/ Taken(e) <= (jobs[e].attempts + 1) \div 2
        \/ Spent(e) /\ Taken(e) <= 1 + (jobs[e].attempts + 1) \div 2
Granted == \A e \in Docs : ~Doubted(e) => Grant(e)

Rationed == SendsBounded /\ Lone /\ Undispatched /\ Known /\ Granted

LEMMA Halves ==
    ASSUME NEW a \in Nat
    PROVE  /\ a \div 2 \in Nat /\ (a + 1) \div 2 \in Nat
           /\ (a + 1 + 1) \div 2 = 1 + a \div 2
           /\ \A b \in Nat : a <= b => a \div 2 <= b \div 2
OBVIOUS

LEMMA InitRationed == Init => Rationed
<1> SUFFICES ASSUME Init PROVE Rationed
  OBVIOUS
<1>1. \A s \in Scanners : scan[s].at = "idle"
  BY DEF Init, Idle
<1>2. \A e \in Docs : jobs[e].mode = "none"
  BY DEF Init, NoJob
<1>3. \A d \in Devices : ghost.taken[d] = 0
  BY DEF Init
<1>4. SendsBounded
  <2>1. (MaxAttempts + 1) \div 2 \in Nat
    BY Limits, Halves
  <2>2. \A d \in Devices : ghost.taken[d] <= 1 + (MaxAttempts + 1) \div 2
    BY <1>3, <2>1
  <2> QED  BY <2>2 DEF SendsBounded
<1>5. unsent \subseteq Devices
  BY DEF Init
<1> QED  BY <1>1, <1>2, <1>3, <1>4, <1>5
     DEF Rationed, Lone, Undispatched, Known, Knows, Reading, Deciding, Granted, Grant, Live

(* Steps that leave every document's number of attempts, or end its job.   *)
Keeps ==
    /\ UNCHANGED unsent
    /\ ghost'.taken = ghost.taken /\ ghost.doubt \subseteq ghost'.doubt
    /\ \A e \in Docs :
        /\ jobs'[e].device = jobs[e].device
        /\ \/ jobs'[e].mode = "none"
           \/ jobs'[e].mode = jobs[e].mode /\ jobs'[e].attempts = jobs[e].attempts

LEMMA RationKept ==
    ASSUME Typed, Rationed, Keeps, Known',
           \A t \in Scanners : scan[t].result = "ok" =>
             \/ scan'[t] = scan[t]
             \/ jobs'[scan[t].doc].device \in ghost'.doubt
             \/ jobs'[scan[t].doc].mode = "none"
    PROVE  Rationed'
<1>1. \A e \in Docs : Doubted(e) => Doubted(e)'
  BY DEF Doubted, Keeps
<1>2. \A e \in Docs : Live(e)' => Live(e)
  BY DEF Live, Keeps
<1>3. SendsBounded'
  BY DEF Rationed, SendsBounded, Keeps
<1>4. Lone'
  BY <1>1, <1>2 DEF Rationed, Lone, Keeps
<1>5. Undispatched'
  BY <1>2 DEF Rationed, Undispatched, Keeps
<1>6. ASSUME NEW e \in Docs, ~Doubted(e)' PROVE Grant(e)'
  <2>1. Grant(e) /\ Taken(e)' = Taken(e)
    BY <1>1, <1>6 DEF Rationed, Granted, Taken, Keeps
  <2>2. CASE jobs'[e].mode = "none"
    BY <2>2 DEF Grant
  <2>3. CASE jobs'[e].mode # "none"
    <3>1. jobs'[e].mode = jobs[e].mode /\ jobs'[e].attempts = jobs[e].attempts
      BY <2>3 DEF Keeps
    <3>2. Spent(e) => Spent(e)'
      BY <1>6, <2>3 DEF Spent, Doubted
    <3> QED  BY <2>1, <3>1, <3>2 DEF Grant
  <2> QED  BY <2>2, <2>3
<1> QED  BY <1>3, <1>4, <1>5, <1>6 DEF Rationed, Granted

(* What the other entries know survives such a step.                       *)
LEMMA KnownKept ==
    ASSUME Typed, Rationed, Keeps, NEW s \in Scanners, Knows(s)',
           \A t \in Scanners \ {s} : scan'[t] = scan[t]
    PROVE  Known'
<1> SUFFICES ASSUME NEW t \in Scanners \ {s} PROVE Knows(t)'
  BY DEF Known
<1>1. Knows(t) /\ scan'[t] = scan[t] /\ scan[t].doc \in Docs
  BY Shapes DEF Rationed, Known
<1> QED  BY <1>1 DEF Knows, Reading, Deciding, Expected, Keeps, Doubted, Holding

LEMMA RationOutside ==
    ASSUME Typed, Rationed,
           \/ \E u \in Users, d \in Devices : Register(u, d) \/ Unregister(u, d)
           \/ NoLongerWanted
    PROVE  Rationed'
<1>1. UNCHANGED <<jobs, scan, unsent, ghost>>
  BY DEF Register, Unregister, NoLongerWanted
<1> QED  BY <1>1 DEF Rationed, SendsBounded, Lone, Undispatched, Known, Knows, Granted, Grant,
            Reading, Deciding, Expected, Live, Taken, Spent, Doubted

(* Entries that read: what they have read is what the document says.       *)
LEMMA RationReads ==
    ASSUME Typed, Once, Rationed, NEW s \in Scanners,
           CheckRow(s) \/ CheckDevice(s) \/ SendRefused(s) \/ Disable(s) \/ Fetch(s)
    PROVE  Rationed'
<1> DEFINE k == scan[s]
<1>0. k \in Scan /\ k.doc \in Docs
  BY Shapes
<1>1. k.at \in {"row", "device", "send", "disable", "bury", "fetch"} /\ k.result # "ok"
  BY DEF CheckRow, CheckDevice, SendRefused, Disable, Fetch, Once, Ticketed
<1>2. UNCHANGED <<jobs, unsent, ghost>>
  BY DEF CheckRow, CheckDevice, SendRefused, Disable, Fetch
<1>3. \A t \in Scanners \ {s} : scan'[t] = scan[t]
  BY Shapes DEF CheckRow, CheckDevice, SendRefused, Disable, Fetch, Goto
<1>4. Keeps
  BY <1>2 DEF Keeps
<1>5. Knows(s)
  BY DEF Rationed, Known
<1> DEFINE Ends == /\ scan'[s].result = "drop"
                   /\ scan'[s].at \in {"settle", "disable", "receipt", "bury"}
           Goes == /\ scan'[s].doc = k.doc /\ scan'[s].attempts = k.attempts
                   /\ scan'[s].at \in {"device", "send", "settle", "receipt"}
                   /\ scan'[s].at \in Holding <=> k.at \in Holding
<1>6. Ends => Rationed'
  <2> SUFFICES ASSUME Ends PROVE Rationed'
    OBVIOUS
  <2>1. Knows(s)'
    BY DEF Knows, Reading, Deciding
  <2> QED  BY <1>1, <1>3, <1>4, <2>1, KnownKept, RationKept
<1>7. Goes /\ Reading(s) => Rationed'
  <2> SUFFICES ASSUME Goes, Reading(s) PROVE Rationed'
    OBVIOUS
  <2>1. Knows(s)'
    BY <1>2, <1>5 DEF Knows, Reading, Deciding, Expected, Doubted
  <2> QED  BY <1>1, <1>3, <1>4, <2>1, KnownKept, RationKept
<1> DEFINE refused == [k EXCEPT !.at = "settle", !.result = "transient"]
<1>8. refused.at = "settle" /\ refused.doc = k.doc /\ refused.attempts = k.attempts
  BY <1>0 DEF Scan
<1>9. \A r : LET next == [k EXCEPT !.at = "receipt", !.result = r] IN
          next.at = "receipt" /\ next.doc = k.doc /\ next.attempts = k.attempts
  BY <1>0 DEF Scan
<1>10. \A at : LET next == [k EXCEPT !.at = at] IN
          next.at = at /\ next.doc = k.doc /\ next.attempts = k.attempts
             /\ next.result = k.result
  BY <1>0 DEF Scan
<1>11. /\ Dropped(s).result = "drop" /\ Dropped(s).at = "settle"
       /\ \A at : LET next == [Dropped(s) EXCEPT !.at = at] IN
            next.at = at /\ next.result = "drop"
  BY DEF Dropped, Idle, Doc
<1>12. CASE CheckRow(s) \/ CheckDevice(s)
  <2>1. Reading(s) /\ k.at \in Holding
    BY <1>12 DEF CheckRow, CheckDevice, Reading, Holding
  <2>2. scan'[s] = Dropped(s) \/ \E at \in {"device", "send"} : scan'[s] = [k EXCEPT !.at = at]
    BY <1>12, Shapes DEF CheckRow, CheckDevice, Goto
  <2>3. ASSUME NEW at \in {"device", "send"}, scan'[s] = [k EXCEPT !.at = at] PROVE Goes
    BY <1>10, <2>1, <2>3 DEF Holding
  <2>4. ASSUME scan'[s] = Dropped(s) PROVE Ends
    BY <1>11, <2>4
  <2> HIDE DEF Goes, Ends
  <2> QED  BY <1>6, <1>7, <2>1, <2>2, <2>3, <2>4
<1>13. CASE SendRefused(s)
  <2>1. Reading(s) /\ k.at \in Holding
    BY <1>13 DEF SendRefused, Reading, Holding
  <2>2. \/ scan'[s] = refused
        \/ scan'[s] = Dropped(s) \/ scan'[s] = [Dropped(s) EXCEPT !.at = "disable"]
    BY <1>13, Shapes DEF SendRefused, Goto
  <2> HIDE DEF refused
  <2>3. ASSUME scan'[s] = refused PROVE Goes
    BY <1>8, <2>1, <2>3 DEF Holding
  <2>4. ASSUME scan'[s] = Dropped(s) \/ scan'[s] = [Dropped(s) EXCEPT !.at = "disable"] PROVE Ends
    BY <1>11, <2>4
  <2> HIDE DEF Goes, Ends
  <2> QED  BY <1>6, <1>7, <2>1, <2>2, <2>3, <2>4
<1>14. CASE Disable(s)
  <2>1. k.at \in {"disable", "bury"} /\ k.result = "drop"
    BY <1>5, <1>14 DEF Disable, Knows
  <2>2. \E at \in {"settle", "receipt"} : scan'[s] = [k EXCEPT !.at = at]
    BY <1>14, Shapes DEF Disable, Goto
  <2> QED  BY <1>6, <1>10, <2>1, <2>2
<1>15. CASE Fetch(s)
  <2>1. Reading(s) /\ k.at \notin Holding
    BY <1>15 DEF Fetch, Reading, Holding
  <2>2. \/ \E r \in {"missing", "transient"} : scan'[s] = [k EXCEPT !.at = "receipt", !.result = r]
        \/ scan'[s] = [Dropped(s) EXCEPT !.at = "receipt"]
        \/ scan'[s] = [Dropped(s) EXCEPT !.at = "bury"]
    BY <1>15, Shapes DEF Fetch, Goto
  <2>3. ASSUME NEW r \in {"missing", "transient"},
               scan'[s] = [k EXCEPT !.at = "receipt", !.result = r]
        PROVE  Goes
    BY <1>9, <2>1, <2>3 DEF Holding
  <2>4. ASSUME NEW at \in {"receipt", "bury"}, scan'[s] = [Dropped(s) EXCEPT !.at = at]
        PROVE  Ends
    BY <1>11, <2>4
  <2> HIDE DEF Goes, Ends
  <2> QED  BY <1>6, <1>7, <2>1, <2>2, <2>3, <2>4
<1> QED  BY <1>12, <1>13, <1>14, <1>15

(* Entries that come and go, and time.                                     *)
LEMMA RationPick ==
    ASSUME Typed, Once, Rationed, NEW s \in Scanners, NEW d \in Docs, Pick(s, d)
    PROVE  Rationed'
<1>1. /\ scan'[s].doc = d /\ scan'[s].attempts = jobs[d].attempts
      /\ scan'[s].at \in {"claim", "fetch"}
      /\ \A t \in Scanners \ {s} : scan'[t] = scan[t]
      /\ scan[s].result # "ok"
  BY Shapes DEF Pick, Goto, Idle
<1>2. UNCHANGED <<jobs, unsent, ghost>> /\ Keeps
  BY DEF Pick, Keeps
<1>3. Knows(s)'
  BY <1>1, <1>2 DEF Knows, Reading, Deciding
<1> QED  BY <1>1, <1>2, <1>3, KnownKept, RationKept

LEMMA RationDies ==
    ASSUME Typed, Once, Rationed, NEW s \in Scanners, Die(s)
    PROVE  Rationed'
<1> DEFINE doc == scan[s].doc
<1>1. scan'[s].at = "idle" /\ \A t \in Scanners \ {s} : scan'[t] = scan[t]
  BY Shapes DEF Die, Goto, Idle
<1>2. /\ UNCHANGED <<jobs, unsent>>
      /\ ghost'.taken = ghost.taken /\ ghost.doubt \subseteq ghost'.doubt
      /\ scan[s].result = "ok" => jobs'[doc].device \in ghost'.doubt
  BY Shapes DEF Die, Ghost, Target, Doc, Once, Ticketed
<1>3. Keeps
  BY <1>2 DEF Keeps
<1>4. Knows(s)'
  BY <1>1 DEF Knows, Reading, Deciding
<1> QED  BY <1>1, <1>2, <1>3, <1>4, KnownKept, RationKept

LEMMA RationTime ==
    ASSUME Typed, Once, Rationed, NEW doc \in Docs, LeaseLapses(doc) \/ GrowsOld(doc)
    PROVE  Rationed'
<1>1. /\ UNCHANGED <<scan, unsent>>
      /\ \A e \in Docs : /\ jobs'[e].device = jobs[e].device /\ jobs'[e].mode = jobs[e].mode
                         /\ jobs'[e].attempts = jobs[e].attempts
  BY Shapes DEF LeaseLapses, GrowsOld, Job
<1>2. ghost'.taken = ghost.taken /\ ghost.doubt \subseteq ghost'.doubt
  BY Shapes DEF LeaseLapses, GrowsOld, Ghost
<1>3. Keeps
  BY <1>1, <1>2 DEF Keeps
<1>4. Known'
  BY <1>1, <1>2, Shapes
     DEF Rationed, Known, Knows, Reading, Deciding, Expected, Doubted
<1> QED  BY <1>1, <1>3, <1>4, RationKept

(* A claim compares the attempts that the entry was read with.             *)
LEMMA RationClaim ==
    ASSUME Typed, Once, Rationed, NEW s \in Scanners, Claim(s)
    PROVE  Rationed'
<1> DEFINE k == scan[s]
           doc == scan[s].doc
<1>1. k.at = "claim" /\ k.result # "ok" /\ doc \in Docs /\ k \in Scan /\ jobs[doc] \in Job
  BY Shapes DEF Claim, Once, Ticketed
<1>2. UNCHANGED <<unsent, ghost>> /\ \A t \in Scanners \ {s} : scan'[t] = scan[t]
  BY Shapes DEF Claim, Goto
<1>3. \/ scan'[s].at = "idle"
      \/ /\ scan'[s].doc = doc /\ scan'[s].attempts = k.attempts /\ scan'[s].at = "row"
         /\ jobs'[doc].attempts = k.attempts
  <2>1. CASE Goto(s, Idle)
    BY <2>1, Shapes, IdleTyped DEF Goto
  <2>2. CASE /\ ~k.old /\ jobs[doc].attempts = k.attempts
             /\ jobs' = [jobs EXCEPT ![doc].token = s, ![doc].leased = TRUE]
             /\ Goto(s, [k EXCEPT !.at = "row"])
    <3>1. jobs'[doc].attempts = k.attempts
      BY <1>1, <2>2, Shapes DEF Job
    <3>2. scan'[s] = [k EXCEPT !.at = "row"]
      BY <2>2, Shapes DEF Goto
    <3>3. scan'[s].doc = doc /\ scan'[s].attempts = k.attempts /\ scan'[s].at = "row"
      BY <1>1, <3>2 DEF Scan
    <3> QED  BY <3>1, <3>3
  <2> QED  BY <2>1, <2>2 DEF Claim, Doc
<1>4. Keeps
  <2>1. CASE UNCHANGED jobs
    BY <1>2, <2>1 DEF Keeps
  <2>2. CASE jobs' = [jobs EXCEPT ![doc] = NoJob(jobs[doc].device)]
    <3>1. /\ NoJob(jobs[doc].device).device = jobs[doc].device
          /\ NoJob(jobs[doc].device).mode = "none"
      BY DEF NoJob
    <3> QED  BY <1>2, <2>2, <3>1, Shapes DEF Keeps
  <2>3. CASE jobs' = [jobs EXCEPT ![doc].token = s, ![doc].leased = TRUE]
    BY <1>1, <1>2, <2>3, Shapes DEF Keeps, Job
  <2> QED  BY <1>1, <2>1, <2>2, <2>3, Shapes DEF Claim, Doc
<1>5. Knows(s)'
  BY <1>3 DEF Knows, Reading, Deciding
<1> QED  BY <1>1, <1>2, <1>4, <1>5, KnownKept, RationKept

(* Steps that give a device its next job, or send: the other jobs are      *)
(* other devices'.                                                         *)
Replaces(e) ==
    LET d == jobs'[e].device IN
    /\ ghost'.doubt = ghost.doubt
    /\ unsent' \subseteq unsent /\ d \notin unsent' \ ghost.doubt
    /\ \A c \in Devices \ {d} : ghost'.taken[c] = ghost.taken[c]
    /\ \A f \in Docs \ {e} :
        /\ jobs'[f].device = jobs[f].device
        /\ \/ jobs'[f].mode = "none"
           \/ /\ jobs'[f].mode = jobs[f].mode /\ jobs'[f].attempts = jobs[f].attempts
              /\ jobs[f].device # d \/ d \in ghost.doubt
    /\ \A t \in Scanners : scan[t].result = "ok" =>
        scan'[t] = scan[t] \/ scan[t].doc = e \/ jobs'[scan[t].doc].mode = "none"

LEMMA RationReplaced ==
    ASSUME Typed, Typed', Rationed, NEW e \in Docs, Replaces(e), Known',
           ~Doubted(e)' => Grant(e)' /\ SendsBounded'
    PROVE  Rationed'
<1> DEFINE d == jobs'[e].device
<1>1. d \in Devices
  BY DEF Typed, JobsTyped, Job
<1>2. \A f \in Docs \ {e} : (Doubted(f)' <=> Doubted(f)) /\ (Live(f)' => Live(f))
  BY DEF Replaces, Doubted, Live
<1>3. SendsBounded'
  <2>1. CASE ~Doubted(e)'
    BY <2>1
  <2>2. CASE Doubted(e)'
    BY <2>2 DEF Rationed, SendsBounded, Replaces, Doubted
  <2> QED  BY <2>1, <2>2
<1>4. Lone'
  <2> SUFFICES ASSUME NEW f \in Docs, NEW g \in Docs, Live(f)', Live(g)',
                      jobs'[f].device = jobs'[g].device, ~Doubted(f)'
               PROVE  f = g
    BY DEF Lone
  <2>1. CASE f # e /\ g # e
    BY <1>2, <2>1 DEF Rationed, Lone, Replaces
  <2>2. CASE f = e /\ g # e
    BY <2>2 DEF Replaces, Live, Doubted
  <2>3. CASE f # e /\ g = e
    BY <2>3 DEF Replaces, Live, Doubted
  <2> QED  BY <2>1, <2>2, <2>3
<1>5. Undispatched'
  <2> SUFFICES ASSUME NEW c \in unsent' \ ghost'.doubt
               PROVE  ghost'.taken[c] = 0 /\ \A f \in Docs : Live(f)' => jobs'[f].device # c
    BY DEF Undispatched
  <2>1. c \in unsent \ ghost.doubt /\ c # d
    BY DEF Replaces
  <2>2. c \in Devices
    BY <2>1 DEF Typed, DevicesTyped
  <2> QED  BY <1>2, <2>1, <2>2 DEF Rationed, Undispatched, Replaces
<1>6. ASSUME NEW f \in Docs, f # e, ~Doubted(f)' PROVE Grant(f)'
  <2>1. CASE jobs'[f].mode = "none"
    BY <2>1 DEF Grant
  <2>2. CASE jobs'[f].mode # "none"
    <3>1. /\ jobs'[f].mode = jobs[f].mode /\ jobs'[f].attempts = jobs[f].attempts
          /\ jobs'[f].device = jobs[f].device /\ jobs[f].device # d
      BY <1>2, <1>6, <2>2 DEF Replaces, Doubted
    <3>2. Taken(f)' = Taken(f)
      BY <3>1, Shapes DEF Taken, Replaces, Job
    <3>3. Grant(f)
      BY <1>2, <1>6 DEF Rationed, Granted
    <3>4. Spent(f) => Spent(f)'
      BY <1>6, <2>2 DEF Spent, Replaces
    <3> QED  BY <3>1, <3>2, <3>3, <3>4 DEF Grant
  <2> QED  BY <2>1, <2>2
<1> QED  BY <1>3, <1>4, <1>5, <1>6 DEF Rationed, Granted

(* What the other entries know: nobody else holds the document.            *)
LEMMA KnownReplaced ==
    ASSUME Typed, Once, Rationed, NEW s \in Scanners, NEW e \in Docs, Replaces(e), Knows(s)',
           \A t \in Scanners \ {s} : scan'[t] = scan[t],
           \A t \in Scanners \ {s} :
             scan[t].doc = e /\ ~Doubted(e)' =>
               ~(Reading(t) \/ Deciding(t)) \/ jobs'[e].mode # Expected(t)
    PROVE  Known'
<1> SUFFICES ASSUME NEW t \in Scanners \ {s} PROVE Knows(t)'
  BY DEF Known
<1>1. Knows(t) /\ scan'[t] = scan[t] /\ scan[t].doc \in Docs
  BY Shapes DEF Rationed, Known
<1>2. CASE scan[t].doc = e
  BY <1>1, <1>2 DEF Knows, Reading, Deciding, Expected, Doubted
<1>3. CASE scan[t].doc # e
  BY <1>1, <1>3 DEF Knows, Reading, Deciding, Expected, Replaces, Doubted
<1> QED  BY <1>2, <1>3

(* The dispatch's own message, or its retry: the first job of the device.  *)
LEMMA RationDispatched ==
    ASSUME Typed, Typed', Once, Rationed, NEW d \in Devices,
           DispatchAccepted(d) \/ DispatchDelayed(d)
    PROVE  Rationed'
<1> DEFINE Starts(e) ==
             /\ e \in Docs /\ Fresh(e) /\ jobs'[e].device = d
             /\ \/ jobs'[e].mode = "receipt" /\ ghost'.taken[d] = ghost.taken[d] + 1
                \/ jobs'[e].mode = "retry" /\ jobs'[e].attempts = 1
                   /\ ghost'.taken[d] = ghost.taken[d]
             /\ \A f \in Docs \ {e} : jobs'[f] = jobs[f]
             /\ \A c \in Devices \ {d} : ghost'.taken[c] = ghost.taken[c]
             /\ ghost'.doubt = ghost.doubt
<1>1. d \in unsent /\ unsent' = unsent \ {d} /\ UNCHANGED scan
  BY DEF DispatchAccepted, DispatchDelayed
<1>2. \E e \in Docs : Starts(e)
  <2>1. CASE DispatchAccepted(d)
    <3> DEFINE e == issued + 1
    <3>1. e \in Tickets /\ e > issued
      BY <2>1, Shapes, Limits DEF DispatchAccepted, Tickets
    <3>2. Fresh(e) /\ e \in Docs
      BY <3>1, Shapes DEF Once, Unwritten
    <3>3. jobs' = [jobs EXCEPT ![e] = Receipt(d, 0)]
      BY <2>1 DEF DispatchAccepted
    <3>4. Receipt(d, 0).device = d /\ Receipt(d, 0).mode = "receipt"
      BY DEF Receipt, NoJob
    <3>5. /\ ghost'.doubt = ghost.doubt /\ ghost'.taken[d] = ghost.taken[d] + 1
          /\ \A c \in Devices \ {d} : ghost'.taken[c] = ghost.taken[c]
      BY <2>1, Shapes DEF DispatchAccepted, Ghost
    <3> HIDE DEF e
    <3> QED  BY <3>2, <3>3, <3>4, <3>5, Shapes
  <2>2. CASE DispatchDelayed(d)
    <3> DEFINE retry == [NoJob(d) EXCEPT !.mode = "retry", !.attempts = 1]
    <3>1. Fresh(d) /\ d \in Docs
      BY <1>1, Shapes DEF Once, Unwritten
    <3>2. jobs' = [jobs EXCEPT ![d] = retry] /\ UNCHANGED ghost
      BY <2>2 DEF DispatchDelayed
    <3>3. retry.device = d /\ retry.mode = "retry" /\ retry.attempts = 1
      BY DEF NoJob
    <3> HIDE DEF retry
    <3> QED  BY <3>1, <3>2, <3>3, Shapes
  <2> QED  BY <2>1, <2>2
<1>3. PICK e \in Docs : Starts(e)
  BY <1>2
<1>4. Replaces(e)
  BY <1>1, <1>3 DEF Replaces, Rationed, Undispatched, Live
<1>5. Known'
  <2> SUFFICES ASSUME NEW t \in Scanners PROVE Knows(t)'
    BY DEF Known
  <2>1. Knows(t) /\ scan'[t] = scan[t] /\ scan[t].doc \in Docs
    BY <1>1, Shapes DEF Rationed, Known
  <2>2. CASE scan[t].doc = e
    BY <1>3, <2>1, <2>2 DEF Fresh, Knows, Reading, Deciding
  <2>3. CASE scan[t].doc # e
    BY <1>3, <2>1, <2>3 DEF Knows, Reading, Deciding, Expected, Doubted
  <2> QED  BY <2>2, <2>3
<1>6. ASSUME ~Doubted(e)' PROVE Grant(e)' /\ SendsBounded'
  <2>1. ghost.taken[d] = 0
    BY <1>1, <1>3, <1>6 DEF Rationed, Undispatched, Doubted
  <2>2. jobs'[e].attempts \in Nat /\ jobs'[e].attempts \div 2 \in Nat
    <3>1. jobs'[e].attempts \in Nat
      BY DEF Typed, JobsTyped, Job
    <3> QED  BY <3>1, Halves
  <2>3. Taken(e)' = ghost'.taken[d]
    BY <1>3 DEF Taken
  <2>4. Grant(e)'
    <3>1. CASE jobs'[e].mode = "receipt"
      BY <1>3, <2>1, <2>2, <2>3, <3>1 DEF Grant
    <3>2. CASE jobs'[e].mode = "retry"
      BY <1>3, <2>1, <2>3, <3>2 DEF Grant
    <3> QED  BY <1>3, <3>1, <3>2
  <2>5. SendsBounded'
    <3>1. (MaxAttempts + 1) \div 2 \in Nat
      BY Limits, Halves
    <3>2. ghost'.taken[d] <= 1
      BY <1>3, <2>1
    <3>3. ghost'.taken[d] <= 1 + (MaxAttempts + 1) \div 2
      BY <1>3, <2>1, <3>1
    <3> QED  BY <1>3, <3>3 DEF Rationed, SendsBounded
  <2> QED  BY <2>4, <2>5
<1> QED  BY <1>4, <1>5, <1>6, RationReplaced

(* A job that is there, and not in doubt, is its device's only one.        *)
LEMMA OnlyJob ==
    ASSUME Typed, Rationed, NEW e \in Docs, Live(e), ~Doubted(e)
    PROVE  /\ jobs[e].device \notin unsent
           /\ \A f \in Docs \ {e} : Live(f) => jobs[f].device # jobs[e].device
<1>1. jobs[e].device \notin unsent
  BY DEF Rationed, Undispatched, Live, Doubted
<1>2. \A f \in Docs \ {e} : Live(f) => jobs[f].device # jobs[e].device
  BY DEF Rationed, Lone, Live, Doubted
<1> QED  BY <1>1, <1>2

(* Who works on a retry that another has claimed is in doubt.              *)
LEMMA OneWorks ==
    ASSUME Typed, Once, NEW s \in Scanners, NEW t \in Scanners, s # t,
           jobs[scan[s].doc].token = s, scan[t].doc = scan[s].doc, ~Doubted(scan[s].doc)
    PROVE  scan[t].at \notin Holding /\ scan[t].result # "ok"
<1>1. scan[t].at \notin Holding
  BY OneHolder
<1>2. scan[t].result = "ok" => scan[t].at \in Holding
  BY DEF Once, Ticketed, Holding
<1> QED  BY <1>1, <1>2

LEMMA RationSend ==
    ASSUME Typed, Typed', Once, Rationed, NEW s \in Scanners, SendTaken(s)
    PROVE  Rationed'
<1> DEFINE k == scan[s]
           doc == scan[s].doc
           d == jobs[doc].device
           a == jobs[doc].attempts
<1>1. /\ k.at = "send" /\ k \in Scan /\ doc \in Docs /\ jobs[doc] \in Job /\ k.result # "ok"
      /\ d \in Devices /\ a \in Nat
      /\ UNCHANGED <<jobs, unsent>>
  BY Shapes DEF SendTaken, Once, Ticketed, Job
<1>2. /\ scan'[s].at = "settle" /\ scan'[s].doc = doc /\ scan'[s].result = "ok"
      /\ scan'[s].attempts = k.attempts
      /\ \A t \in Scanners \ {s} : scan'[t] = scan[t]
  BY <1>1, Shapes DEF SendTaken, Goto, Scan
<1>3. /\ ghost'.doubt = ghost.doubt /\ ghost'.taken[d] = ghost.taken[d] + 1
      /\ ghost.taken[d] \in Nat
      /\ \A c \in Devices \ {d} : ghost'.taken[c] = ghost.taken[c]
  BY <1>1, Shapes DEF SendTaken, Target, Doc, Ghost
<1>4. ~Doubted(doc) => jobs[doc].mode = "retry" /\ jobs[doc].token = s
  BY <1>1 DEF Once, Held, Holding
<1>5. Replaces(doc)
  <2>1. ~Doubted(doc) =>
          d \notin unsent /\ \A f \in Docs \ {doc} : Live(f) => jobs[f].device # d
    BY <1>1, <1>4, OnlyJob DEF Live
  <2> QED  BY <1>1, <1>2, <1>3, <2>1 DEF Replaces, Live, Doubted
<1>6. Knows(s)'
  <2>1. Knows(s)
    BY DEF Rationed, Known
  <2> QED  BY <1>1, <1>2, <1>3, <2>1
           DEF Knows, Reading, Deciding, Expected, Doubted, Holding
<1>7. Known'
  <2>1. Doubted(doc) => jobs'[doc].device \in ghost'.doubt
    BY <1>1, <1>3 DEF Doubted
  <2>2. \A t \in Scanners \ {s} : scan[t].doc = doc /\ ~(jobs'[doc].device \in ghost'.doubt)
          => ~(Reading(t) \/ Deciding(t)) \/ jobs'[doc].mode # Expected(t)
    BY <1>1, <1>4, <2>1, OneWorks DEF Expected
  <2>3. ASSUME NEW e \in Docs, e = doc
        PROVE  \A t \in Scanners \ {s} : scan[t].doc = e /\ ~Doubted(e)'
          => ~(Reading(t) \/ Deciding(t)) \/ jobs'[e].mode # Expected(t)
    BY <2>2, <2>3 DEF Doubted
  <2>4. PICK e \in Docs : e = doc
    BY <1>1
  <2> QED  BY <1>2, <1>5, <1>6, <2>3, <2>4, KnownReplaced
<1>8. PICK e \in Docs : e = doc
  BY <1>1
<1>9. ASSUME ~Doubted(e)' PROVE Grant(e)' /\ SendsBounded'
  <2>1. ~Doubted(doc)
    BY <1>1, <1>3, <1>8, <1>9 DEF Doubted
  <2>2. ~Spent(doc)
    BY <1>1, <1>4, <2>1, OneWorks DEF Spent
  <2>3. ghost.taken[d] <= (a + 1) \div 2
    BY <1>1, <1>4, <2>1, <2>2 DEF Rationed, Granted, Grant, Taken
  <2>4. a <= MaxAttempts
    BY <1>1, <1>4, <2>1 DEF Typed, JobsTyped
  <2>5. (a + 1) \div 2 <= (MaxAttempts + 1) \div 2 /\ (a + 1) \div 2 \in Nat
        /\ (MaxAttempts + 1) \div 2 \in Nat
    <3>1. a + 1 \in Nat /\ MaxAttempts + 1 \in Nat /\ a + 1 <= MaxAttempts + 1
      BY <1>1, <2>4, Limits
    <3> QED  BY <3>1, Halves
  <2>6. ghost'.taken[d] <= 1 + (a + 1) \div 2
    BY <1>3, <2>3, <2>5
  <2>7. Spent(e)'
    BY <1>2, <1>8 DEF Spent
  <2>8. Grant(e)'
    BY <1>1, <1>4, <1>8, <2>1, <2>6, <2>7 DEF Grant, Taken
  <2>9. ghost'.taken[d] <= 1 + (MaxAttempts + 1) \div 2
    BY <1>3, <2>3, <2>5
  <2>10. SendsBounded'
    BY <1>3, <2>9 DEF Rationed, SendsBounded
  <2> QED  BY <2>8, <2>10
<1>10. Replaces(e)
  BY <1>5, <1>8
<1> QED  BY <1>7, <1>9, <1>10, RationReplaced

(* The retry that stands is settled: put off, ended, or followed by the    *)
(* receipt of the message it sent.                                         *)
LEMMA RationSettle ==
    ASSUME Typed, Typed', Once, Rationed, NEW s \in Scanners, SettleRetry(s)
    PROVE  Rationed'
<1> DEFINE k == scan[s]
           d == jobs[scan[s].doc].device
           a == jobs[scan[s].doc].attempts
<1>0. PICK doc \in Docs : doc = scan[s].doc
  BY Shapes
<1>1. /\ k.at = "settle" /\ k \in Scan /\ jobs[doc] \in Job /\ k.attempts \in Nat
      /\ d \in Devices /\ a \in Nat
      /\ UNCHANGED <<unsent, ghost>>
  BY <1>0, Shapes DEF SettleRetry, Job
<1>2. scan'[s].at = "idle" /\ \A t \in Scanners \ {s} : scan'[t] = scan[t]
  BY Shapes DEF SettleRetry, Goto, Idle
<1>3. Knows(s)' /\ Knows(s)
  BY <1>2 DEF Knows, Reading, Deciding, Rationed, Known
<1>4. CASE ~HoldsClaim(s)
  <2>1. UNCHANGED jobs /\ Keeps
    BY <1>1, <1>4 DEF SettleRetry, Keeps
  <2>2. Doubted(doc)
    BY <1>0, <1>1, <1>4 DEF HoldsClaim, Doc, Once, Held, Holding
  <2>3. jobs'[scan[s].doc].device \in ghost'.doubt
    BY <1>0, <1>1, <2>1, <2>2 DEF Doubted
  <2> QED  BY <1>2, <1>3, <2>1, <2>3, KnownKept, RationKept
<1>5. CASE HoldsClaim(s)
  <2>1. jobs' = Settled(s) /\ jobs[doc].mode = "retry" /\ jobs[doc].token = s
    BY <1>0, <1>5 DEF SettleRetry, HoldsClaim, Doc
  <2>2. ~Doubted(doc) => \A t \in Scanners \ {s} :
          scan[t].doc = doc => scan[t].at \notin Holding /\ scan[t].result # "ok"
    BY <1>0, <2>1, OneWorks
  <2>3. ~Doubted(doc) =>
          d \notin unsent /\ \A f \in Docs \ {doc} : Live(f) => jobs[f].device # d
    BY <1>0, <2>1, OnlyJob DEF Live
  <2>4. ~Doubted(doc) /\ k.result # "drop" => k.attempts = a
    BY <1>0, <1>1, <1>3, <2>1 DEF Knows, Deciding, Expected, Holding
  <2>5. ~Doubted(doc) => \/ ghost.taken[d] <= (a + 1) \div 2
                         \/ Spent(doc) /\ ghost.taken[d] <= 1 + (a + 1) \div 2
    BY <1>0, <2>1 DEF Rationed, Granted, Grant, Taken
  <2>6. ghost.taken[d] \in Nat /\ (a + 1) \div 2 \in Nat /\ (a + 1 + 1) \div 2 \in Nat
        /\ (a + 1) \div 2 <= (a + 1 + 1) \div 2
    <3>1. ghost.taken[d] \in Nat /\ a + 1 \in Nat /\ a + 1 + 1 \in Nat
          /\ a + 1 <= a + 1 + 1
      BY <1>1, Shapes DEF Ghost
    <3> QED  BY <3>1, Halves
  <2>7. CASE ~Again(s) /\ k.result # "ok"
    <3>1. \A f \in Docs : jobs'[f] = IF f = doc THEN NoJob(d) ELSE jobs[f]
      BY <1>0, <2>1, <2>7 DEF Settled, Doc
    <3>2. NoJob(d).device = d /\ NoJob(d).mode = "none"
      BY DEF NoJob
    <3>3. Keeps
      BY <1>0, <1>1, <3>1, <3>2 DEF Keeps
    <3> QED  BY <1>2, <1>3, <2>7, <3>3, KnownKept, RationKept
  <2>8. CASE Again(s)
    <3>1. k.result = "transient"
      BY <2>8 DEF Again
    <3>2. /\ jobs'[doc].device = d /\ jobs'[doc].mode = "retry"
          /\ jobs'[doc].attempts = k.attempts + 1
          /\ \A f \in Docs \ {doc} : jobs'[f] = jobs[f]
      <4>1. jobs'[doc] = [jobs[doc] EXCEPT !.attempts = k.attempts + 1, !.token = NoOne,
                                           !.leased = FALSE]
        BY <1>0, <2>1, <2>8 DEF Settled, Doc
      <4>2. jobs'[doc].device = d /\ jobs'[doc].mode = "retry"
            /\ jobs'[doc].attempts = k.attempts + 1
        BY <1>0, <1>1, <2>1, <4>1 DEF Job
      <4> QED  BY <1>0, <2>1, <3>1, <4>2 DEF Settled, Doc
    <3>3. Replaces(doc)
      BY <1>0, <1>1, <1>2, <2>3, <3>1, <3>2 DEF Replaces, Live, Doubted
    <3>4. Doubted(doc)' <=> Doubted(doc)
      BY <1>0, <1>1, <3>2 DEF Doubted
    <3>5. Known'
      <4>1. \A t \in Scanners \ {s} : scan[t].doc = doc /\ ~Doubted(doc)'
          => ~(Reading(t) \/ Deciding(t)) \/ jobs'[doc].mode # Expected(t)
        BY <2>2, <3>2, <3>4 DEF Expected
      <4> QED  BY <1>2, <1>3, <3>3, <4>1, KnownReplaced
    <3>6. ASSUME ~Doubted(doc)' PROVE Grant(doc)' /\ SendsBounded'
      <4>1. ~Spent(doc)
        BY <2>2, <3>1, <3>4, <3>6 DEF Spent
      <4>2. ghost.taken[d] <= (a + 1) \div 2 /\ k.attempts = a
        BY <2>4, <2>5, <3>1, <3>4, <3>6, <4>1
      <4>3. ghost.taken[d] <= (a + 1 + 1) \div 2
        BY <2>6, <4>2
      <4>4. Grant(doc)'
        BY <1>1, <3>2, <4>2, <4>3 DEF Grant, Taken
      <4> QED  BY <1>1, <4>4 DEF Rationed, SendsBounded
    <3> QED  BY <3>3, <3>5, <3>6, RationReplaced
  <2>9. CASE k.result = "ok"
    <3>1. PICK e \in Docs : e = k.ticket /\ Fresh(e)
      BY <2>9, Shapes DEF Once, Ticketed
    <3>2. e # doc /\ ~Again(s)
      BY <2>1, <2>9, <3>1 DEF Fresh, Again
    <3>3. /\ jobs'[e] = Receipt(d, k.attempts + 1) /\ jobs'[doc] = NoJob(d)
          /\ \A f \in Docs \ {e, doc} : jobs'[f] = jobs[f]
      BY <1>0, <2>1, <2>9, <3>1, <3>2 DEF Settled, Doc
    <3>4. /\ jobs'[e].device = d /\ jobs'[e].mode = "receipt"
          /\ jobs'[e].attempts = k.attempts + 1
          /\ jobs'[doc].device = d /\ jobs'[doc].mode = "none"
      BY <3>3 DEF Receipt, NoJob
    <3>5. Replaces(e)
      BY <1>0, <1>1, <1>2, <2>3, <3>2, <3>3, <3>4 DEF Replaces, Live, Doubted
    <3>6. Known'
      <4>1. \A t \in Scanners \ {s} : scan[t].doc = e /\ ~Doubted(e)'
          => ~(Reading(t) \/ Deciding(t)) \/ jobs'[e].mode # Expected(t)
        BY <3>1 DEF Fresh, Reading, Deciding
      <4> QED  BY <1>2, <1>3, <3>5, <4>1, KnownReplaced
    <3>7. ASSUME ~Doubted(e)' PROVE Grant(e)' /\ SendsBounded'
      <4>1. ~Doubted(doc)
        BY <1>0, <1>1, <3>4, <3>7 DEF Doubted
      <4>2. ghost.taken[d] <= 1 + (a + 1) \div 2 /\ k.attempts = a
        BY <2>4, <2>5, <2>6, <2>9, <4>1
      <4>3. Grant(e)'
        BY <1>1, <3>4, <4>2 DEF Grant, Taken
      <4> QED  BY <1>1, <4>3 DEF Rationed, SendsBounded
    <3> QED  BY <3>5, <3>6, <3>7, RationReplaced
  <2> QED  BY <2>7, <2>8, <2>9
<1> QED  BY <1>4, <1>5

(* A receipt that asks for its message again becomes a retry.              *)
LEMMA RationReceipt ==
    ASSUME Typed, Typed', Once, Rationed, NEW s \in Scanners, SettleReceipt(s)
    PROVE  Rationed'
<1> DEFINE k == scan[s]
           d == jobs[scan[s].doc].device
           a == jobs[scan[s].doc].attempts
<1>0. PICK doc \in Docs : doc = scan[s].doc
  BY Shapes
<1>1. /\ k.at = "receipt" /\ k \in Scan /\ jobs[doc] \in Job /\ k.attempts \in Nat
      /\ d \in Devices /\ a \in Nat /\ k.result # "ok"
      /\ UNCHANGED <<unsent, ghost>>
  BY <1>0, Shapes DEF SettleReceipt, Job, Once, Ticketed
<1>2. scan'[s].at = "idle" /\ \A t \in Scanners \ {s} : scan'[t] = scan[t]
  BY Shapes DEF SettleReceipt, Goto, Idle
<1>3. Knows(s)' /\ Knows(s)
  BY <1>2 DEF Knows, Reading, Deciding, Rationed, Known
<1>4. CASE UNCHANGED jobs \/ jobs' = [jobs EXCEPT ![doc] = NoJob(d)]
  <2>1. NoJob(d).device = d /\ NoJob(d).mode = "none"
    BY DEF NoJob
  <2>2. Keeps
    BY <1>0, <1>1, <1>4, <2>1, Shapes DEF Keeps
  <2> QED  BY <1>1, <1>2, <1>3, <2>2, KnownKept, RationKept
<1>5. CASE /\ jobs[doc].mode = "receipt" /\ k.result = "transient"
           /\ jobs' = [jobs EXCEPT ![doc] =
                         [jobs[doc] EXCEPT !.mode = "retry", !.attempts = k.attempts + 1,
                                           !.token = NoOne, !.leased = FALSE]]
  <2>1. /\ jobs'[doc].device = d /\ jobs'[doc].mode = "retry"
        /\ jobs'[doc].attempts = k.attempts + 1
        /\ \A f \in Docs \ {doc} : jobs'[f] = jobs[f]
    <3>1. jobs'[doc] = [jobs[doc] EXCEPT !.mode = "retry", !.attempts = k.attempts + 1,
                                         !.token = NoOne, !.leased = FALSE]
      BY <1>5, Shapes
    <3>2. jobs'[doc].device = d /\ jobs'[doc].mode = "retry"
          /\ jobs'[doc].attempts = k.attempts + 1
      BY <1>0, <1>1, <3>1 DEF Job
    <3> QED  BY <1>5, <3>2, Shapes
  <2>2. ~Doubted(doc) =>
          d \notin unsent /\ \A f \in Docs \ {doc} : Live(f) => jobs[f].device # d
    BY <1>0, <1>5, OnlyJob DEF Live
  <2>3. ~Doubted(doc) => k.attempts = a
    BY <1>0, <1>1, <1>3, <1>5 DEF Knows, Deciding, Expected, Holding
  <2>4. Doubted(doc)' <=> Doubted(doc)
    BY <1>0, <1>1, <2>1 DEF Doubted
  <2>5. Replaces(doc)
    BY <1>0, <1>1, <1>2, <2>1, <2>2 DEF Replaces, Live, Doubted
  <2>6. Known'
    <3>1. ~Doubted(doc) => \A t \in Scanners : scan[t].doc = doc => scan[t].at \notin Holding
      BY <1>5 DEF Once, Held
    <3>2. \A t \in Scanners \ {s} : scan[t].doc = doc /\ ~Doubted(doc)'
        => ~(Reading(t) \/ Deciding(t)) \/ jobs'[doc].mode # Expected(t)
      BY <2>1, <2>4, <3>1 DEF Expected
    <3> QED  BY <1>2, <1>3, <2>5, <3>2, KnownReplaced
  <2>7. ASSUME ~Doubted(doc)' PROVE Grant(doc)' /\ SendsBounded'
    <3>1. ghost.taken[d] <= 1 + a \div 2 /\ k.attempts = a
      BY <1>0, <1>5, <2>3, <2>4, <2>7 DEF Rationed, Granted, Grant, Taken
    <3>2. (a + 1 + 1) \div 2 = 1 + a \div 2
      BY <1>1, Halves
    <3>3. Grant(doc)'
      BY <1>1, <2>1, <3>1, <3>2 DEF Grant, Taken
    <3> QED  BY <1>1, <3>3 DEF Rationed, SendsBounded
  <2> QED  BY <2>5, <2>6, <2>7, RationReplaced
<1> QED  BY <1>0, <1>4, <1>5 DEF SettleReceipt, StillReceipt, Doc

LEMMA NextRationed == Typed /\ Typed' /\ Once /\ Rationed /\ [Next]_vars => Rationed'
<1> SUFFICES ASSUME Typed, Typed', Once, Rationed, [Next]_vars PROVE Rationed'
  OBVIOUS
<1>1. CASE UNCHANGED vars
  BY <1>1 DEF vars, Rationed, SendsBounded, Lone, Undispatched, Known, Knows, Granted, Grant,
     Reading, Deciding, Expected, Live, Taken, Spent, Doubted
<1>2. ASSUME NEW s \in Scanners, ScannerStep(s) PROVE Rationed'
  BY <1>2, RationClaim, RationReads, RationSend, RationSettle, RationReceipt DEF ScannerStep
<1>3. ASSUME NEW s \in Scanners, Die(s) \/ \E d \in Docs : Pick(s, d) PROVE Rationed'
  BY <1>3, RationDies, RationPick
<1>4. ASSUME NEW d \in Docs, LeaseLapses(d) \/ GrowsOld(d) PROVE Rationed'
  BY <1>4, RationTime
<1>5. ASSUME NEW d \in Devices, DispatchAccepted(d) \/ DispatchDelayed(d) PROVE Rationed'
  BY <1>5, RationDispatched
<1> QED  BY <1>1, <1>2, <1>3, <1>4, <1>5, RationOutside DEF Next

(* rescheduleMissingReceipt, the conversion in processPendingPushReceipts  *)
(* and settleRetrySendClaim count attempts in the documents they replace:  *)
(* receipts and retries never feed each other, a device is sent at most    *)
(* the dispatch's message and one for every second attempt, unless a       *)
(* scanner died after its send or was slower than its lease                *)
(* (notificationPushService.js:1206-1235, 1433-1486).                      *)
THEOREM SendsStayBounded == Spec => []SendsBounded
<1>1. Rationed => SendsBounded
  BY DEF Rationed
<1> QED  BY <1>1, InitTyped, NextTyped, InitOnce, NextOnce, InitRationed, NextRationed, PTL DEF Spec
=============================================================================
