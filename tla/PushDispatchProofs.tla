------------------------- MODULE PushDispatchProofs -------------------------
(***************************************************************************)
(* What PushDispatch promises for any number of instances, devices,        *)
(* attempts and versions: type correctness; outcomes that stand whatever   *)
(* instance comes back late; no second send without a lapsed lease or a    *)
(* lost answer; and nothing sent that was superseded before its claim.     *)
(***************************************************************************)
EXTENDS PushDispatch, TLAPS

Record == [at : Stages, key : Keys \cup {NoKey}, attempt : 0..MaxDispatchAttempts,
           stale : BOOLEAN, pending : SUBSET Devices, round : 0..MaxSendAttempts,
           tickets : UNION {[D -> Tickets] : D \in SUBSET Devices},
           outcome : {"none"} \cup Final]

Active(w) == worker[w].at # "idle"
Sending == {"row", "eligible", "devices", "send"}

(* TypeOK with the fields it leaves untyped, and the counters' relations.  *)
Typed ==
    /\ TypeOK
    /\ worker \in [Workers -> Record]
    /\ \A w \in Workers :
        /\ worker[w].at \in Sending => worker[w].round < MaxSendAttempts
        /\ worker[w].at = "settle" => worker[w].outcome \in Final
    /\ \A k \in Keys : dispatch[k].status = "none" => dispatch[k].attempts = 0

LEMMA FreeIsTyped == Free \in Record
<1>1. [d \in {} |-> "ok"] \in [{} -> Tickets] /\ {} \in SUBSET Devices
  OBVIOUS
<1>2. [d \in {} |-> "ok"] \in UNION {[D -> Tickets] : D \in SUBSET Devices}
  BY <1>1
<1>3. QED
  BY <1>2, DispatchBounds DEF Free, Record, Stages

LEMMA InitTyped == Init => Typed
<1> SUFFICES ASSUME Init PROVE Typed
  OBVIOUS
<1>1. worker \in [Workers -> Record] /\ Free \in Record
  BY FreeIsTyped DEF Init
<1>2. dispatch \in [Keys -> Dispatch]
  BY DispatchBounds DEF Init, Dispatch
<1>3. accepted \in [Keys -> [Devices -> 0..2]]
  BY DEF Init
<1>4. row \in [generation : 0..MaxGeneration, version : 0..MaxVersion]
  BY DispatchBounds DEF Init, NoKey
<1>5. QED
  BY <1>1, <1>2, <1>3, <1>4, DispatchBounds DEF Init, Typed, TypeOK, Free, Record, Sending

(* An instance that keeps its claim keeps the types.                       *)
LEMMA StillTyped ==
  ASSUME Typed, NEW w \in Workers, NEW r \in Record, worker' = [worker EXCEPT ![w] = r],
         r.at # "idle" => r.key \in Keys,
         r.at \in Sending => r.round < MaxSendAttempts,
         r.at = "settle" => r.outcome \in Final,
         UNCHANGED <<row, wanted>>, announced' \subseteq Keys, devices' \subseteq Devices,
         dispatch' \in [Keys -> Dispatch],
         \A k \in Keys : dispatch'[k].status = "none" => dispatch'[k].attempts = 0,
         jobs' \subseteq Keys \X Devices \X {"receipt", "retry_send"},
         accepted' \in [Keys -> [Devices -> 0..2]], doubtful' \subseteq Keys
  PROVE  Typed'
<1>1. worker' \in [Workers -> Record]
  BY DEF Typed
<1>2. ASSUME NEW v \in Workers
      PROVE  /\ worker'[v].at # "idle" => worker'[v].key \in Keys
             /\ worker'[v].at \in Sending => worker'[v].round < MaxSendAttempts
             /\ worker'[v].at = "settle" => worker'[v].outcome \in Final
  <2>1. CASE v = w
    BY <2>1 DEF Typed
  <2>2. CASE v # w
    <3>1. worker'[v] = worker[v]
      BY <2>2 DEF Typed
    <3>2. worker[v].at # "idle" => worker[v].key \in Keys
      BY DEF Typed, TypeOK
    <3>3. /\ worker[v].at \in Sending => worker[v].round < MaxSendAttempts
          /\ worker[v].at = "settle" => worker[v].outcome \in Final
      BY DEF Typed
    <3>4. QED
      BY <3>1, <3>2, <3>3
  <2>3. QED
    BY <2>1, <2>2
<1>3. \A v \in Workers :
        /\ worker'[v].at \in Stages
        /\ worker'[v].pending \subseteq Devices
        /\ worker'[v].round \in 0..MaxSendAttempts
  BY <1>1 DEF Record
<1>4. QED
  BY <1>1, <1>2, <1>3 DEF Typed, TypeOK

(* A claim that is begun, or skipped because its attempts are used up.     *)
LEMMA BeginTyped ==
  ASSUME Typed, NEW w \in Workers, NEW k \in Keys, Claimable(k), Begin(w, k),
         UNCHANGED <<row, wanted, devices, jobs, accepted, doubtful>>, announced' \subseteq Keys
  PROVE  Typed'
<1>1. /\ dispatch \in [Keys -> Dispatch] /\ dispatch[k] \in Dispatch
      /\ worker \in [Workers -> Record]
  BY DEF Typed, TypeOK
<1>2. CASE Exhausted(k)
  <2>1. dispatch' \in [Keys -> Dispatch] /\ worker' = worker
    BY <1>1, <1>2 DEF Begin, Dispatch, Final
  <2>2. \A j \in Keys : dispatch'[j].status = "none" => dispatch'[j].attempts = 0
    BY <1>1, <1>2 DEF Begin, Typed, Dispatch
  <2>3. QED
    BY <2>1, <2>2 DEF Typed, TypeOK
<1>3. CASE ~Exhausted(k)
  <2> DEFINE r == [Free EXCEPT !.at = "row", !.key = k, !.attempt = dispatch[k].attempts + 1,
                               !.stale = (row # k)]
  <2>1. dispatch[k].attempts + 1 \in 0..MaxDispatchAttempts
    BY <1>1, <1>3, DispatchBounds DEF Exhausted, Unclaimed, Dispatch, Typed
  <2>2. r \in Record /\ r.at = "row" /\ r.key = k /\ r.round < MaxSendAttempts
    <3>1. Free.round < MaxSendAttempts
      BY DispatchBounds DEF Free
    <3>2. QED
      BY <2>1, <3>1, FreeIsTyped DEF Record, Stages
  <2>3. /\ dispatch' = [dispatch EXCEPT ![k].status = "processing", ![k].due = FALSE,
                                        ![k].attempts = @ + 1]
        /\ worker' = [worker EXCEPT ![w] = r]
    BY <1>3 DEF Begin
  <2>4. dispatch' \in [Keys -> Dispatch]
    BY <1>1, <2>1, <2>3 DEF Dispatch
  <2>5. \A j \in Keys : dispatch'[j].status = "none" => dispatch'[j].attempts = 0
    BY <1>1, <2>3 DEF Typed
  <2> HIDE DEF r
  <2>6. QED
    BY <2>2, <2>3, <2>4, <2>5, StillTyped DEF Typed, TypeOK
<1>4. QED
  BY <1>2, <1>3

(* updateClaim.                                                            *)
LEMMA UpdateTyped ==
  ASSUME Typed, NEW w \in Workers, NEW statuses, NEW status \in {"retry", "sent"} \cup Final,
         Active(w), UpdateClaim(w, statuses, status)
  PROVE  /\ dispatch' \in [Keys -> Dispatch]
         /\ \A k \in Keys : dispatch'[k].status = "none" => dispatch'[k].attempts = 0
<1>1. dispatch \in [Keys -> Dispatch] /\ worker[w].key \in Keys
  BY DEF Typed, TypeOK, Active
<1>2. CASE HoldsClaim(w, statuses)
  BY <1>1, <1>2 DEF UpdateClaim, Dispatch, Final, Typed
<1>3. CASE ~HoldsClaim(w, statuses)
  BY <1>1, <1>3 DEF UpdateClaim, Typed
<1>4. QED
  BY <1>2, <1>3

LEMMA TookTyped ==
  ASSUME Typed, NEW k \in Keys, NEW D, Took(k, D)
  PROVE  /\ accepted' \in [Keys -> [Devices -> 0..2]]
         /\ \A j \in Keys \ {k} : accepted'[j] = accepted[j]
         /\ \A d \in Devices : accepted'[k][d] = IF d \in D /\ accepted[k][d] < 2
                                 THEN accepted[k][d] + 1 ELSE accepted[k][d]
<1>1. accepted \in [Keys -> [Devices -> 0..2]]
  BY DEF Typed, TypeOK
<1>2. [d \in Devices |-> IF d \in D /\ accepted[k][d] < 2
                         THEN accepted[k][d] + 1 ELSE accepted[k][d]] \in [Devices -> 0..2]
  BY <1>1
<1>3. QED
  BY <1>1, <1>2 DEF Took

(* The steps of one instance.                                              *)
LEMMA WorkerStepTyped ==
  ASSUME Typed, NEW w \in Workers, WorkerStep(w)
  PROVE  Typed'
<1>1. /\ worker \in [Workers -> Record] /\ worker[w] \in Record /\ Free \in Record
      /\ Free.at = "idle"
      /\ dispatch \in [Keys -> Dispatch] /\ accepted \in [Keys -> [Devices -> 0..2]]
      /\ \A k \in Keys : dispatch[k].status = "none" => dispatch[k].attempts = 0
      /\ announced \subseteq Keys /\ devices \subseteq Devices /\ doubtful \subseteq Keys
      /\ jobs \subseteq Keys \X Devices \X {"receipt", "retry_send"}
      /\ Active(w) => worker[w].key \in Keys
      /\ worker[w].at \in Sending => worker[w].round < MaxSendAttempts
      /\ worker[w].at = "settle" => worker[w].outcome \in Final
  BY FreeIsTyped DEF Typed, TypeOK, Free, Active
<1>2. ASSUME NEW stage \in Stages \ {"idle", "settle"},
             stage \in Sending => worker[w].at \in Sending
      PROVE  /\ [worker[w] EXCEPT !.at = stage] \in Record
             /\ [worker[w] EXCEPT !.at = stage].at = stage
             /\ [worker[w] EXCEPT !.at = stage].key = worker[w].key
             /\ [worker[w] EXCEPT !.at = stage].round = worker[w].round
  BY <1>1, <1>2 DEF Record
<1>3. ASSUME NEW outcome \in Final
      PROVE  /\ [worker[w] EXCEPT !.at = "settle", !.outcome = outcome] \in Record
             /\ [worker[w] EXCEPT !.at = "settle", !.outcome = outcome].at = "settle"
             /\ [worker[w] EXCEPT !.at = "settle", !.outcome = outcome].outcome = outcome
             /\ [worker[w] EXCEPT !.at = "settle", !.outcome = outcome].key = worker[w].key
  BY <1>1, <1>3 DEF Record, Stages
<1>4. ASSUME Active(w), NEW stage \in Stages \ {"idle", "settle"},
             stage \in Sending => worker[w].at \in Sending,
             Goto(w, stage), UNCHANGED <<row, wanted, announced, devices, accepted, doubtful, jobs>>,
             dispatch' \in [Keys -> Dispatch],
             \A k \in Keys : dispatch'[k].status = "none" => dispatch'[k].attempts = 0
      PROVE  Typed'
  BY <1>1, <1>2, <1>4, StillTyped DEF Goto
<1>5. ASSUME Active(w), NEW outcome \in Final, Conclude(w, outcome),
             UNCHANGED <<row, wanted, announced, devices, accepted, doubtful, jobs, dispatch>>
      PROVE  Typed'
  <2> DEFINE r == [worker[w] EXCEPT !.at = "settle", !.outcome = outcome]
  <2>1. r \in Record /\ r.at = "settle" /\ r.outcome = outcome /\ r.key = worker[w].key
    BY <1>3, <1>5
  <2>2. worker' = [worker EXCEPT ![w] = r]
    BY <1>1, <1>5 DEF Conclude
  <2> HIDE DEF r
  <2>3. QED
    BY <1>1, <1>5, <2>1, <2>2, StillTyped DEF Sending
<1>6. ASSUME worker' = [worker EXCEPT ![w] = Free],
             UNCHANGED <<row, wanted, announced, devices, accepted, doubtful, jobs>>,
             dispatch' \in [Keys -> Dispatch],
             \A k \in Keys : dispatch'[k].status = "none" => dispatch'[k].attempts = 0
      PROVE  Typed'
  BY <1>1, <1>6, StillTyped DEF Sending
<1>7. CASE ReadRow(w) \/ ReadEligibility(w) \/ ReadFails(w) \/ PersistDone(w)
  BY <1>1, <1>4, <1>5, <1>7
  DEF ReadRow, ReadEligibility, ReadFails, PersistDone, Stages, Final, Active, Sending
<1>8. CASE ReadDevices(w)
  <2>1. CASE devices = {}
    BY <1>1, <1>5, <1>8, <2>1 DEF ReadDevices, Final, Active
  <2>2. CASE devices # {}
    <3>1. worker' = [worker EXCEPT ![w] = [worker[w] EXCEPT !.at = "send", !.pending = devices]]
      BY <1>1, <1>8, <2>2 DEF ReadDevices
    <3>2. [worker[w] EXCEPT !.at = "send", !.pending = devices] \in Record
      BY <1>1 DEF Record, Stages
    <3>3. worker[w].round < MaxSendAttempts
      BY <1>1, <1>8 DEF ReadDevices, Sending
    <3>4. QED
      BY <1>1, <1>8, <3>1, <3>2, <3>3, StillTyped DEF ReadDevices, Active, Record
  <2>3. QED
    BY <2>1, <2>2
<1>9. CASE SendAnswered(w)
  <2> DEFINE me == worker[w]
             last == me.round + 1 = MaxSendAttempts
  <2>1. PICK answer \in [me.pending -> Tickets] :
          LET retried == IF last THEN {} ELSE SentAgain(answer)
              known == [d \in (DOMAIN me.tickets \cup me.pending) \ retried |->
                          IF d \in me.pending THEN answer[d] ELSE me.tickets[d]]
          IN /\ Took(me.key, {d \in me.pending : answer[d] = "ok"})
             /\ worker' = [worker EXCEPT ![w] = [me EXCEPT
                  !.pending = retried, !.round = @ + 1, !.tickets = known,
                  !.at = IF retried = {} THEN "mark" ELSE "send"]]
    BY <1>9 DEF SendAnswered
  <2> DEFINE retried == IF last THEN {} ELSE SentAgain(answer)
             known == [d \in (DOMAIN me.tickets \cup me.pending) \ retried |->
                         IF d \in me.pending THEN answer[d] ELSE me.tickets[d]]
             r == [me EXCEPT !.pending = retried, !.round = @ + 1, !.tickets = known,
                             !.at = IF retried = {} THEN "mark" ELSE "send"]
  <2>2. /\ me.at = "send" /\ me.key \in Keys
        /\ UNCHANGED <<row, announced, wanted, devices, dispatch, jobs, doubtful>>
    BY <1>1, <1>9 DEF SendAnswered, Active
  <2>3. retried \subseteq me.pending /\ me.pending \subseteq Devices
    BY <1>1 DEF SentAgain, Record
  <2>4. known \in UNION {[D -> Tickets] : D \in SUBSET Devices}
    <3>1. PICK D \in SUBSET Devices : me.tickets \in [D -> Tickets]
      BY <1>1 DEF Record
    <3>2. (DOMAIN me.tickets \cup me.pending) \ retried \in SUBSET Devices
      BY <2>3, <3>1
    <3>3. known \in [(DOMAIN me.tickets \cup me.pending) \ retried -> Tickets]
      BY <3>1
    <3>4. QED
      BY <3>2, <3>3
  <2>5. me.round + 1 \in 0..MaxSendAttempts /\ (~last => me.round + 1 < MaxSendAttempts)
    <3>1. me.round \in 0..MaxSendAttempts /\ me.round < MaxSendAttempts
      BY <1>1, <2>2 DEF Sending, Record
    <3> HIDE DEF me
    <3>2. QED
      BY <3>1, DispatchBounds
  <2> HIDE DEF known
  <2>6. /\ r \in Record /\ r.at \in {"mark", "send"} /\ r.key \in Keys
        /\ r.at = "send" => r.round < MaxSendAttempts
    BY <1>1, <2>2, <2>3, <2>4, <2>5 DEF Record, Stages
  <2>7. worker' = [worker EXCEPT ![w] = r]
    BY <2>1 DEF known
  <2>8. accepted' \in [Keys -> [Devices -> 0..2]]
    BY <2>1, <2>2, TookTyped
  <2> HIDE DEF r
  <2>9. QED
    BY <1>1, <2>2, <2>6, <2>7, <2>8, StillTyped DEF Sending
<1>10. CASE SendFails(w)
  <2> DEFINE last == worker[w].round + 1 = MaxSendAttempts
             r == [worker[w] EXCEPT !.round = @ + 1, !.at = IF last THEN "retry" ELSE "send"]
  <2>1. /\ worker[w].at = "send" /\ Active(w) /\ worker[w].key \in Keys
        /\ UNCHANGED <<row, announced, wanted, devices, dispatch, jobs>>
    BY <1>1, <1>10 DEF SendFails, Active
  <2>2. CASE Conclude(w, "failed") /\ UNCHANGED <<accepted, doubtful>>
    BY <1>5, <2>1, <2>2 DEF Final
  <2>3. CASE ~(Conclude(w, "failed") /\ UNCHANGED <<accepted, doubtful>>)
    <3>1. /\ \E D \in SUBSET worker[w].pending : Took(worker[w].key, D)
          /\ doubtful' \subseteq doubtful \cup {worker[w].key}
          /\ worker' = [worker EXCEPT ![w].round = @ + 1, ![w].at = IF last THEN "retry" ELSE "send"]
      BY <1>10, <2>3 DEF SendFails
    <3>2. accepted' \in [Keys -> [Devices -> 0..2]]
      BY <2>1, <3>1, TookTyped
    <3>3. worker' = [worker EXCEPT ![w] = r]
      BY <1>1, <3>1
    <3>4. worker[w].round + 1 \in 0..MaxSendAttempts /\ (~last => worker[w].round + 1 < MaxSendAttempts)
      <4>1. worker[w].round \in 0..MaxSendAttempts /\ worker[w].round < MaxSendAttempts
        BY <1>1, <2>1 DEF Sending, Record
      <4>2. QED
        BY <4>1, DispatchBounds
    <3>5. /\ r \in Record /\ r.at \in {"retry", "send"} /\ r.key \in Keys
          /\ r.at = "send" => r.round < MaxSendAttempts
      BY <1>1, <2>1, <3>4 DEF Record, Stages
    <3> HIDE DEF r
    <3>6. doubtful' \subseteq Keys
      BY <1>1, <2>1, <3>1
    <3>7. r.at # "idle" /\ r.at # "settle" /\ (r.at \in Sending => r.round < MaxSendAttempts)
      BY <3>5 DEF Sending
    <3>8. QED
      BY <1>1, <2>1, <3>2, <3>3, <3>5, <3>6, <3>7, StillTyped
  <2>4. QED
    BY <2>2, <2>3
<1>11. CASE MarkAccepted(w)
  <2>1. Active(w)
    BY <1>11 DEF MarkAccepted, Active
  <2>2. CASE UpdateClaim(w, {"processing"}, "sent") /\ Goto(w, "persist")
    BY <1>4, <1>11, <2>1, <2>2, UpdateTyped DEF MarkAccepted, Stages, Sending
  <2>3. CASE UNCHANGED dispatch /\ Conclude(w, "complete")
    BY <1>5, <1>11, <2>1, <2>3 DEF MarkAccepted, Final
  <2>4. QED
    BY <1>11, <2>2, <2>3 DEF MarkAccepted
<1>12. ASSUME NEW d \in Devices, Persist(w, d) PROVE Typed'
  <2> DEFINE rest == [e \in DOMAIN worker[w].tickets \ {d} |-> worker[w].tickets[e]]
             r == [worker[w] EXCEPT !.tickets = rest]
  <2>1. /\ worker[w].at = "persist" /\ worker[w].key \in Keys
        /\ worker' = [worker EXCEPT ![w] = r]
        /\ jobs' \subseteq Keys \X Devices \X {"receipt", "retry_send"} /\ devices' \subseteq Devices
        /\ UNCHANGED <<row, announced, wanted, dispatch, accepted, doubtful>>
    BY <1>1, <1>12 DEF Persist, Active
  <2>2. rest \in UNION {[D -> Tickets] : D \in SUBSET Devices}
    <3>1. PICK D \in SUBSET Devices : worker[w].tickets \in [D -> Tickets]
      BY <1>1 DEF Record
    <3>2. rest \in [D \ {d} -> Tickets] /\ D \ {d} \in SUBSET Devices
      BY <3>1
    <3>3. QED
      BY <3>2
  <2> HIDE DEF rest
  <2>3. r \in Record /\ r.at = "persist" /\ r.key = worker[w].key
    BY <1>1, <2>1, <2>2 DEF Record
  <2> HIDE DEF r
  <2>4. QED
    BY <1>1, <2>1, <2>3, StillTyped DEF Sending
<1>13. CASE Settle(w)
  <2>1. /\ Active(w) /\ worker[w].outcome \in Final
        /\ UNCHANGED <<row, announced, wanted, devices, jobs, accepted, doubtful>>
    BY <1>1, <1>13 DEF Settle, Active
  <2>2. CASE /\ UpdateClaim(w, {"processing", "sent"}, worker[w].outcome)
             /\ worker' = [worker EXCEPT ![w] = Free]
    BY <1>6, <2>1, <2>2, UpdateTyped
  <2>3. CASE Goto(w, "retry") /\ UNCHANGED dispatch
    BY <1>1, <1>4, <2>1, <2>3 DEF Stages, Sending
  <2>4. CASE Conclude(w, "failed") /\ UNCHANGED dispatch
    BY <1>5, <2>1, <2>4 DEF Final
  <2>5. QED
    BY <1>13, <2>2, <2>3, <2>4 DEF Settle
<1>14. CASE Retry(w)
  BY <1>6, <1>14, UpdateTyped DEF Retry, Active
<1>15. CASE Crash(w)
  BY <1>1, <1>6, <1>15 DEF Crash
<1>16. QED
  BY <1>7, <1>8, <1>9, <1>10, <1>11, <1>12, <1>13, <1>14, <1>15 DEF WorkerStep

(* The steps that are no instance's, and the claims.                       *)
LEMMA OtherStepTyped ==
  ASSUME Typed,
         \/ Activity \/ RemoveRow \/ ChangePreference
         \/ \E d \in Devices : ChangeDevice(d)
         \/ \E w \in Workers, k \in Keys : HandleEvent(w, k) \/ Scan(w, k)
         \/ \E k \in Keys : TimeRunsOut(k) \/ GrowsOld(k)
  PROVE  Typed'
<1>1. CASE Activity
  BY <1>1 DEF Activity, Typed, TypeOK, Keys
<1>2. CASE RemoveRow
  BY <1>2, DispatchBounds DEF RemoveRow, Typed, TypeOK
<1>3. CASE ChangePreference
  BY <1>3 DEF ChangePreference, Typed, TypeOK
<1>4. ASSUME NEW d \in Devices, ChangeDevice(d) PROVE Typed'
  BY <1>4 DEF ChangeDevice, Typed, TypeOK
<1>5. ASSUME NEW w \in Workers, NEW k \in Keys, HandleEvent(w, k) PROVE Typed'
  <2>1. announced' \subseteq Keys /\ UNCHANGED <<row, wanted, devices, jobs, accepted, doubtful>>
    BY <1>5 DEF HandleEvent, Typed, TypeOK
  <2>2. CASE Claimable(k)
    BY <1>5, <2>1, <2>2, BeginTyped DEF HandleEvent
  <2>3. CASE ~Claimable(k)
    BY <1>5, <2>1, <2>3 DEF HandleEvent, Typed, TypeOK
  <2>4. QED
    BY <2>2, <2>3
<1>6. ASSUME NEW w \in Workers, NEW k \in Keys, Scan(w, k) PROVE Typed'
  BY <1>6, BeginTyped DEF Scan, Typed, TypeOK
<1>7. ASSUME NEW k \in Keys, TimeRunsOut(k) \/ GrowsOld(k) PROVE Typed'
  <2>1. dispatch \in [Keys -> Dispatch] /\ doubtful' \subseteq Keys
    BY <1>7 DEF TimeRunsOut, GrowsOld, Typed, TypeOK
  <2>2. /\ dispatch' \in [Keys -> Dispatch]
        /\ \A j \in Keys : dispatch'[j].status = "none" => dispatch'[j].attempts = 0
    <3>1. \/ dispatch' = [dispatch EXCEPT ![k].due = TRUE]
          \/ dispatch' = [dispatch EXCEPT ![k].old = TRUE]
      BY <1>7 DEF TimeRunsOut, GrowsOld
    <3>2. dispatch[k] \in Dispatch
      BY <2>1
    <3>3. /\ [dispatch[k] EXCEPT !.due = TRUE] \in Dispatch
          /\ [dispatch[k] EXCEPT !.old = TRUE] \in Dispatch
      BY <3>2 DEF Dispatch
    <3>4. dispatch' \in [Keys -> Dispatch]
      BY <2>1, <3>1, <3>3
    <3>5. /\ dispatch'[k].status = dispatch[k].status /\ dispatch'[k].attempts = dispatch[k].attempts
          /\ \A j \in Keys \ {k} : dispatch'[j] = dispatch[j]
      BY <2>1, <3>1, <3>2 DEF Dispatch
    <3>6. QED
      BY <3>4, <3>5 DEF Typed
  <2>3. UNCHANGED <<row, announced, wanted, devices, worker, jobs, accepted>>
    BY <1>7 DEF TimeRunsOut, GrowsOld
  <2>4. TypeOK'
    BY <2>1, <2>2, <2>3 DEF Typed, TypeOK
  <2>5. QED
    BY <2>2, <2>3, <2>4 DEF Typed
<1>8. QED
  BY <1>1, <1>2, <1>3, <1>4, <1>5, <1>6, <1>7

LEMMA TypedInv == Spec => []Typed
<1>1. Typed /\ [Next]_vars => Typed'
  <2>1. Typed /\ UNCHANGED vars => Typed'
    BY DEF Typed, TypeOK, vars
  <2>2. Typed /\ Next => Typed'
    BY WorkerStepTyped, OtherStepTyped DEF Next
  <2>3. QED
    BY <2>1, <2>2
<1>2. QED
  BY <1>1, InitTyped, PTL DEF Spec

(* Every reachable state is well typed; attempts stay within their limit.  *)
THEOREM PushTypeCorrect == Spec => []TypeOK
<1>1. Typed => TypeOK
  BY DEF Typed
<1>2. QED
  BY <1>1, TypedInv, PTL
-----------------------------------------------------------------------------
(* What a step of an instance may do to its own work and to the dispatch.  *)
Fresh == {"eligible", "devices", "send", "mark", "persist"}
Accepted(r) == r.at \in {"mark", "persist"} \/ (r.at = "settle" /\ r.outcome # "skipped")

Moves(w) ==
    /\ Active(w) /\ UNCHANGED <<row, announced>>
    /\ \A v \in Workers \ {w} : worker'[v] = worker[v]
    /\ worker'[w] # Free =>
        /\ worker'[w].at # "idle"
        /\ worker'[w].key = worker[w].key /\ worker'[w].attempt = worker[w].attempt
        /\ worker'[w].stale = worker[w].stale
        /\ worker'[w].at \in Fresh =>
                worker[w].at \in Fresh \/ (worker[w].at = "row" /\ row = worker[w].key)
        /\ worker[w].at = "persist" =>
                worker'[w].at = "persist" \/ (worker'[w].at = "settle" /\ worker'[w].outcome = "complete")
        /\ worker[w].at = "settle" => worker[w].outcome = "skipped"
        /\ Accepted(worker[w]) => Accepted(worker'[w])
    /\ \/ dispatch' = dispatch
       \/ /\ UpdateClaim(w, {"processing"}, "sent")
          /\ worker[w].at = "mark" /\ worker'[w].at = "persist"
       \/ /\ UpdateClaim(w, {"processing", "sent"}, worker[w].outcome)
          /\ worker[w].at = "settle" /\ worker[w].outcome \in Final /\ worker'[w] = Free
       \/ /\ UpdateClaim(w, {"processing"}, "retry")
          /\ worker[w].at = "retry" /\ worker'[w] = Free

LEMMA WorkerStepMoves ==
  ASSUME Typed, NEW w \in Workers, WorkerStep(w)
  PROVE  Moves(w)
<1>1. worker \in [Workers -> Record] /\ worker[w] \in Record
  BY DEF Typed
<1>2. worker[w].at = "settle" => worker[w].outcome \in Final
  BY DEF Typed
<1> USE DEF Moves, Active, Fresh, Accepted
<1>3. CASE ReadRow(w) \/ ReadEligibility(w) \/ ReadDevices(w) \/ ReadFails(w)
  BY <1>1, <1>3
  DEF ReadRow, StillCurrent, ReadEligibility, ReadDevices, ReadFails, Goto, Conclude, Record
<1>4. CASE SendAnswered(w)
  <2>1. /\ worker[w].at = "send" /\ UNCHANGED <<row, announced, dispatch>>
        /\ \E p, t : \E a \in {"mark", "send"} : worker' = [worker EXCEPT ![w] = [worker[w] EXCEPT
              !.pending = p, !.round = @ + 1, !.tickets = t, !.at = a]]
    BY <1>4 DEF SendAnswered
  <2>2. QED
    BY <1>1, <2>1 DEF Record
<1>5. CASE SendFails(w)
  <2>1. /\ worker[w].at = "send" /\ UNCHANGED <<row, announced, dispatch>>
        /\ \/ Conclude(w, "failed")
           \/ \E a \in {"retry", "send"} :
                worker' = [worker EXCEPT ![w].round = @ + 1, ![w].at = a]
    BY <1>5 DEF SendFails
  <2>2. QED
    BY <1>1, <2>1 DEF Record, Conclude
<1>6. CASE MarkAccepted(w)
  BY <1>1, <1>6 DEF MarkAccepted, Goto, Conclude, Record
<1>7. ASSUME NEW d \in Devices, Persist(w, d) PROVE Moves(w)
  BY <1>1, <1>7 DEF Persist, Record
<1>8. CASE PersistDone(w)
  BY <1>1, <1>8 DEF PersistDone, Conclude, Record
<1>9. CASE Settle(w)
  BY <1>1, <1>2, <1>9 DEF Settle, Goto, Conclude, Record
<1>10. CASE Retry(w) \/ Crash(w)
  BY <1>1, <1>10 DEF Retry, Crash, Free
<1>11. QED
  BY <1>3, <1>4, <1>5, <1>6, <1>7, <1>8, <1>9, <1>10 DEF WorkerStep

(* What a claim does.                                                      *)
Begins(w, k) ==
    /\ ~Active(w) /\ Claimable(k)
    /\ \A v \in Workers \ {w} : worker'[v] = worker[v]
    /\ \A j \in Keys \ {k} : dispatch'[j] = dispatch[j]
    /\ \/ worker'[w] = worker[w] /\ dispatch'[k].status = "skipped"
          /\ dispatch'[k].attempts = dispatch[k].attempts
       \/ /\ worker'[w].at = "row" /\ worker'[w].key = k
          /\ worker'[w].attempt = dispatch'[k].attempts /\ worker'[w].stale = (row # k)
          /\ dispatch'[k].attempts = dispatch[k].attempts + 1
          /\ dispatch'[k].status = "processing" /\ ~dispatch'[k].due

LEMMA BeginBegins ==
  ASSUME Typed, NEW w \in Workers, NEW k \in Keys, ~Active(w), Claimable(k), Begin(w, k)
  PROVE  Begins(w, k)
<1>1. /\ dispatch \in [Keys -> Dispatch] /\ dispatch[k] \in Dispatch
      /\ worker \in [Workers -> Record]
  BY DEF Typed, TypeOK
<1>2. CASE Exhausted(k)
  BY <1>1, <1>2 DEF Begin, Begins, Dispatch
<1>3. CASE ~Exhausted(k)
  <2>1. /\ dispatch' = [dispatch EXCEPT ![k].status = "processing", ![k].due = FALSE,
                                        ![k].attempts = @ + 1]
        /\ worker'[w] = [Free EXCEPT !.at = "row", !.key = k,
                                     !.attempt = dispatch[k].attempts + 1, !.stale = (row # k)]
        /\ \A v \in Workers \ {w} : worker'[v] = worker[v]
    BY <1>1, <1>3 DEF Begin
  <2>2. /\ worker'[w].at = "row" /\ worker'[w].key = k
        /\ worker'[w].attempt = dispatch[k].attempts + 1 /\ worker'[w].stale = (row # k)
    BY <2>1 DEF Free
  <2>3. /\ dispatch'[k].attempts = dispatch[k].attempts + 1
        /\ dispatch'[k].status = "processing" /\ ~dispatch'[k].due
        /\ \A j \in Keys \ {k} : dispatch'[j] = dispatch[j]
    BY <1>1, <2>1 DEF Dispatch
  <2>4. QED
    BY <2>1, <2>2, <2>3 DEF Begins
<1>4. QED
  BY <1>2, <1>3

(* The steps of Next, told apart by what they do to claims.                *)
LEMMA StepKinds ==
  ASSUME Typed, [Next]_vars
  PROVE  \/ \E w \in Workers : WorkerStep(w)
         \/ \E w \in Workers, k \in Keys :
              /\ Begins(w, k) /\ UNCHANGED <<row, accepted, doubtful>> /\ announced' \subseteq announced
              /\ k \in announced \/ dispatch[k].status # "none"
         \/ \E k \in Keys : TimeRunsOut(k) \/ GrowsOld(k)
         \/ /\ Activity \/ (row' \in {row, [row EXCEPT !.version = 0]} /\ announced' \subseteq announced)
            /\ UNCHANGED <<worker, dispatch, accepted, doubtful>>
<1>1. CASE Activity \/ RemoveRow \/ ChangePreference \/ (\E d \in Devices : ChangeDevice(d))
  BY <1>1 DEF Activity, RemoveRow, ChangePreference, ChangeDevice
<1>2. ASSUME NEW w \in Workers, NEW k \in Keys, HandleEvent(w, k), Claimable(k)
      PROVE  /\ Begins(w, k) /\ UNCHANGED <<row, accepted, doubtful>> /\ announced' \subseteq announced
             /\ k \in announced
  BY <1>2, BeginBegins DEF HandleEvent, Active
<1>3. ASSUME NEW w \in Workers, NEW k \in Keys, HandleEvent(w, k), ~Claimable(k)
      PROVE  /\ row' = row /\ announced' \subseteq announced
             /\ UNCHANGED <<worker, dispatch, accepted, doubtful>>
  BY <1>3 DEF HandleEvent
<1>4. ASSUME NEW w \in Workers, NEW k \in Keys, Scan(w, k)
      PROVE  /\ Begins(w, k) /\ UNCHANGED <<row, accepted, doubtful>> /\ announced' \subseteq announced
             /\ dispatch[k].status # "none"
  BY <1>4, BeginBegins DEF Scan, Active, Unclaimed
<1>5. CASE UNCHANGED vars
  BY <1>5 DEF vars
<1>6. QED
  BY <1>1, <1>2, <1>3, <1>4, <1>5 DEF Next
-----------------------------------------------------------------------------
(* A claim is held by the instance of the latest attempt, and a dispatch   *)
(* it recorded as sent can only be completed by it.                        *)
Claims ==
    /\ \A w \in Workers : Active(w) =>
        /\ dispatch[worker[w].key].status # "none"
        /\ worker[w].attempt <= dispatch[worker[w].key].attempts
    /\ \A v, w \in Workers :
        Active(v) /\ Active(w) /\ worker[v].key = worker[w].key
            /\ worker[v].attempt = worker[w].attempt => v = w
    /\ \A w \in Workers :
        Active(w) /\ HoldsClaim(w, {"sent"}) =>
            worker[w].at = "persist" \/ (worker[w].at = "settle" /\ worker[w].outcome = "complete")

LEMMA InitClaims == Init => Claims
  BY DEF Init, Claims, Active, Free

LEMMA WorkerStepClaims ==
  ASSUME Typed, Claims, NEW w \in Workers, Moves(w)
  PROVE  Claims'
<1>1. /\ dispatch \in [Keys -> Dispatch] /\ worker[w].key \in Keys
      /\ \A v \in Workers : Active(v) => worker[v].key \in Keys
      /\ Free.at = "idle"
  BY DEF Typed, TypeOK, Moves, Active, Free
<1> DEFINE k == worker[w].key
<1>2. /\ \A v \in Workers : Active(v)' => Active(v) /\ worker'[v].key = worker[v].key
                                       /\ worker'[v].attempt = worker[v].attempt
      /\ \A v \in Workers \ {w} : worker'[v] = worker[v]
  BY <1>1 DEF Moves, Active
<1>3. CASE dispatch' = dispatch
  <2>1. ASSUME Active(w)', HoldsClaim(w, {"sent"})'
        PROVE  \/ worker'[w].at = "persist"
               \/ worker'[w].at = "settle" /\ worker'[w].outcome = "complete"
    <3>1. HoldsClaim(w, {"sent"}) /\ Active(w) /\ worker'[w] # Free
      BY <1>1, <1>2, <1>3, <2>1 DEF HoldsClaim, Active
    <3>2. worker[w].at = "persist" \/ (worker[w].at = "settle" /\ worker[w].outcome = "complete")
      BY <3>1 DEF Claims
    <3>3. QED
      BY <3>1, <3>2 DEF Moves
  <2>2. ASSUME NEW v \in Workers \ {w}, Active(v)', HoldsClaim(v, {"sent"})'
        PROVE  \/ worker'[v].at = "persist"
               \/ worker'[v].at = "settle" /\ worker'[v].outcome = "complete"
    BY <1>2, <1>3, <2>2 DEF HoldsClaim, Active, Claims
  <2>3. QED
    BY <1>2, <1>3, <2>1, <2>2 DEF Claims
<1>4. ASSUME NEW status \in {"retry", "sent"} \cup Final, NEW statuses,
             HoldsClaim(w, statuses),
             dispatch' = [dispatch EXCEPT ![k].status = status, ![k].due = FALSE],
             status = "sent" => worker'[w].at = "persist"
      PROVE  Claims'
  <2>1. /\ dispatch'[k].attempts = dispatch[k].attempts /\ dispatch'[k].status = status
        /\ \A j \in Keys \ {k} : dispatch'[j] = dispatch[j]
        /\ worker[w].attempt = dispatch[k].attempts
    BY <1>1, <1>4 DEF Dispatch, HoldsClaim
  <2>2. ASSUME NEW v \in Workers \ {w}, Active(v)', HoldsClaim(v, {"sent"})'
        PROVE  \/ worker'[v].at = "persist"
               \/ worker'[v].at = "settle" /\ worker'[v].outcome = "complete"
    <3>1. worker[v].key # k
      BY <1>2, <2>1, <2>2 DEF HoldsClaim, Claims, Moves
    <3>2. HoldsClaim(v, {"sent"}) /\ worker'[v] = worker[v]
      BY <1>1, <1>2, <2>1, <2>2, <3>1 DEF HoldsClaim
    <3>3. QED
      BY <2>2, <3>2 DEF Claims, Active
  <2>3. ASSUME Active(w)', HoldsClaim(w, {"sent"})' PROVE worker'[w].at = "persist"
    BY <1>2, <1>4, <2>1, <2>3 DEF HoldsClaim
  <2>4. \A j \in Keys : /\ dispatch'[j].attempts = dispatch[j].attempts
                        /\ dispatch[j].status # "none" => dispatch'[j].status # "none"
    BY <2>1 DEF Final
  <2>5. ASSUME NEW v \in Workers, Active(v)'
        PROVE  /\ dispatch'[worker'[v].key].status # "none"
               /\ worker'[v].attempt <= dispatch'[worker'[v].key].attempts
    <3>1. /\ Active(v) /\ worker'[v].key = worker[v].key /\ worker[v].key \in Keys
          /\ worker'[v].attempt = worker[v].attempt
      BY <1>1, <1>2, <2>5
    <3>2. /\ dispatch[worker[v].key].status # "none"
          /\ worker[v].attempt <= dispatch[worker[v].key].attempts
      BY <3>1 DEF Claims
    <3>3. QED
      BY <2>4, <3>1, <3>2
  <2>6. ASSUME NEW u \in Workers, NEW v \in Workers, Active(u)', Active(v)',
               worker'[u].key = worker'[v].key, worker'[u].attempt = worker'[v].attempt
        PROVE  u = v
    BY <1>2, <2>6 DEF Claims
  <2>7. QED
    BY <2>2, <2>3, <2>5, <2>6 DEF Claims
<1>5. ASSUME dispatch' # dispatch, NEW status \in {"retry", "sent"} \cup Final, NEW statuses,
             UpdateClaim(w, statuses, status), status = "sent" => worker'[w].at = "persist"
      PROVE  Claims'
  BY <1>4, <1>5 DEF UpdateClaim
<1>6. CASE worker[w].at = "mark" /\ worker'[w].at = "persist" /\ UpdateClaim(w, {"processing"}, "sent")
  BY <1>3, <1>5, <1>6
<1>7. CASE worker[w].outcome \in Final /\ UpdateClaim(w, {"processing", "sent"}, worker[w].outcome)
  <2>1. worker[w].outcome # "sent"
    BY <1>7 DEF Final
  <2>2. QED
    BY <1>3, <1>5, <1>7, <2>1
<1>8. CASE UpdateClaim(w, {"processing"}, "retry")
  BY <1>3, <1>5, <1>8
<1>9. QED
  BY <1>3, <1>6, <1>7, <1>8 DEF Moves

LEMMA BeginClaims ==
  ASSUME Typed, Claims, NEW w \in Workers, NEW k \in Keys, Begins(w, k)
  PROVE  Claims'
<1>1. /\ dispatch \in [Keys -> Dispatch] /\ dispatch[k].attempts \in Nat
      /\ \A v \in Workers : Active(v) => worker[v].key \in Keys /\ worker[v].attempt \in Nat
  BY DEF Typed, TypeOK, Dispatch, Active, Record
<1>2. CASE worker'[w] = worker[w] /\ dispatch'[k].status = "skipped"
             /\ dispatch'[k].attempts = dispatch[k].attempts
  <2>1. \A v \in Workers : worker'[v] = worker[v]
    BY <1>2 DEF Begins
  <2>2. QED
    BY <1>1, <1>2, <2>1 DEF Begins, Claims, Active, HoldsClaim
<1>3. CASE ~(worker'[w] = worker[w] /\ dispatch'[k].status = "skipped"
             /\ dispatch'[k].attempts = dispatch[k].attempts)
  <2>1. /\ worker'[w].at = "row" /\ worker'[w].key = k /\ dispatch'[k].status = "processing"
        /\ worker'[w].attempt = dispatch[k].attempts + 1
        /\ dispatch'[k].attempts = dispatch[k].attempts + 1
        /\ \A v \in Workers \ {w} : worker'[v] = worker[v]
        /\ \A j \in Keys \ {k} : dispatch'[j] = dispatch[j]
    BY <1>3 DEF Begins
  <2>2. \A v \in Workers \ {w} : Active(v) /\ worker[v].key = k => worker[v].attempt <= dispatch[k].attempts
    BY DEF Claims
  <2>3. QED
    BY <1>1, <2>1, <2>2 DEF Claims, Active, HoldsClaim
<1>4. QED
  BY <1>2, <1>3

LEMMA ClaimsInv == Spec => [](Typed /\ Claims)
<1>1. ASSUME Typed, Claims, [Next]_vars PROVE Claims'
  <2>1. ASSUME NEW w \in Workers, WorkerStep(w) PROVE Claims'
    BY <1>1, <2>1, WorkerStepMoves, WorkerStepClaims
  <2>2. ASSUME NEW k \in Keys, TimeRunsOut(k) \/ GrowsOld(k) PROVE Claims'
    <3>1. dispatch \in [Keys -> Dispatch] /\ worker' = worker
      BY <1>1, <2>2 DEF Typed, TypeOK, TimeRunsOut, GrowsOld
    <3>2. \A j \in Keys : /\ dispatch'[j].status = dispatch[j].status
                          /\ dispatch'[j].attempts = dispatch[j].attempts
      BY <2>2, <3>1 DEF TimeRunsOut, GrowsOld, Dispatch
    <3>3. \A v \in Workers : Active(v) => worker[v].key \in Keys
      BY <1>1 DEF Typed, TypeOK, Active
    <3>4. QED
      BY <1>1, <3>1, <3>2, <3>3 DEF Claims, Active, HoldsClaim
  <2>3. CASE UNCHANGED <<worker, dispatch>>
    BY <1>1, <2>3 DEF Claims, Active, HoldsClaim
  <2>4. QED
    BY <1>1, <2>1, <2>2, <2>3, StepKinds, BeginClaims
<1>2. QED
  BY <1>1, InitClaims, TypedInv, PTL DEF Spec

(* A final outcome is never rewritten, and what is recorded as sent stays  *)
(* so, by whatever instance comes back after its lease lapsed.             *)
THEOREM OutcomesStand == Spec => OutcomeStands
<1> DEFINE Stands == \A k \in Keys :
        /\ dispatch[k].status \in Final => dispatch'[k].status = dispatch[k].status
        /\ dispatch[k].status = "sent" => dispatch'[k].status \in {"sent", "complete"}
<1>1. ASSUME Typed, Claims, [Next]_vars PROVE Stands
  <2>0. dispatch \in [Keys -> Dispatch]
    BY <1>1 DEF Typed, TypeOK
  <2>1. ASSUME NEW w \in Workers, WorkerStep(w) PROVE Stands
    <3> DEFINE k == worker[w].key
    <3>1. Moves(w) /\ Active(w) /\ k \in Keys
      BY <1>1, <2>1, WorkerStepMoves DEF Typed, TypeOK, Moves, Active
    <3>2. CASE dispatch' = dispatch
      BY <3>2
    <3>3. CASE HoldsClaim(w, {"processing"})
      <4>1. dispatch[k].status = "processing" /\ \A j \in Keys \ {k} : dispatch'[j] = dispatch[j]
        BY <2>0, <3>1, <3>3 DEF Moves, UpdateClaim, HoldsClaim
      <4>2. QED
        BY <4>1 DEF Final
    <3>4. CASE HoldsClaim(w, {"sent"}) /\ ~HoldsClaim(w, {"processing"}) /\ dispatch' # dispatch
      <4>1. /\ UpdateClaim(w, {"processing", "sent"}, worker[w].outcome)
            /\ worker[w].at = "settle"
        BY <3>1, <3>4 DEF Moves, UpdateClaim
      <4>2. worker[w].outcome = "complete"
        BY <1>1, <3>1, <3>4, <4>1 DEF Claims
      <4>3. dispatch[k].status = "sent" /\ dispatch'[k].status = "complete"
            /\ \A j \in Keys \ {k} : dispatch'[j] = dispatch[j]
        BY <2>0, <3>1, <3>4, <4>1, <4>2 DEF UpdateClaim, HoldsClaim, Dispatch
      <4>4. QED
        BY <4>3 DEF Final
    <3>5. QED
      BY <3>1, <3>2, <3>3, <3>4 DEF Moves, UpdateClaim, HoldsClaim
  <2>2. ASSUME NEW w \in Workers, NEW k \in Keys, Begins(w, k) PROVE Stands
    BY <2>2 DEF Begins, Claimable, Unclaimed, Final
  <2>3. ASSUME NEW k \in Keys, TimeRunsOut(k) \/ GrowsOld(k) PROVE Stands
    BY <2>0, <2>3 DEF TimeRunsOut, GrowsOld, Dispatch
  <2>4. QED
    BY <1>1, <2>1, <2>2, <2>3, StepKinds
<1>2. QED
  BY <1>1, ClaimsInv, PTL DEF Spec, OutcomeStands
-----------------------------------------------------------------------------
(* While neither a lease has lapsed nor an answer been lost, one instance  *)
(* at most works on a version; a version that may be claimed again has     *)
(* reached nobody; and what a device took is not in the next round.        *)
Sound(k) ==
    /\ \A v, w \in Workers :
        Active(v) /\ Active(w) /\ worker[v].key = k /\ worker[w].key = k => v = w
    /\ dispatch[k].status \in {"none", "retry"} =>
        /\ \A w \in Workers : Active(w) => worker[w].key # k
        /\ \A d \in Devices : accepted[k][d] = 0
    /\ dispatch[k].status = "processing" => ~dispatch[k].due
    /\ \A d \in Devices : accepted[k][d] <= 1
    /\ \A w \in Workers, d \in Devices :
        Active(w) /\ worker[w].key = k /\ accepted[k][d] = 1 =>
            \/ Accepted(worker[w])
            \/ /\ worker[w].at = "send" /\ d \notin worker[w].pending
               /\ d \in DOMAIN worker[w].tickets /\ worker[w].tickets[d] = "ok"

Undoubted == \A k \in Keys \ doubtful : Sound(k)

LEMMA InitUndoubted == Init => Undoubted
  BY DEF Init, Undoubted, Sound, Active, Free

(* A step that sends nothing.                                              *)
LEMMA QuietStepSound ==
  ASSUME Typed, NEW w \in Workers, Moves(w), NEW k \in Keys, Sound(k),
         accepted'[k] = accepted[k],
         worker[w].key = k /\ worker[w].at = "send" => worker'[w] = Free \/ Accepted(worker'[w])
  PROVE  Sound(k)'
<1>1. /\ dispatch \in [Keys -> Dispatch] /\ Active(w) /\ worker[w].key \in Keys
      /\ Free.at = "idle" /\ accepted \in [Keys -> [Devices -> 0..2]]
  BY DEF Typed, TypeOK, Moves, Active, Free
<1>2. /\ \A v \in Workers : Active(v)' => Active(v) /\ worker'[v].key = worker[v].key
      /\ \A v \in Workers \ {w} : worker'[v] = worker[v]
  BY <1>1 DEF Moves, Active
<1>3. CASE worker[w].key # k
  <2>1. dispatch'[k] = dispatch[k]
    BY <1>1, <1>3 DEF Moves, UpdateClaim
  <2>2. QED
    BY <1>2, <1>3, <2>1 DEF Sound, Active
<1>4. CASE worker[w].key = k
  <2>1. \A v \in Workers : Active(v)' /\ worker'[v].key = k => v = w
    BY <1>1, <1>2, <1>4 DEF Sound
  <2>2. ASSUME NEW d \in Devices, Active(w)', accepted[k][d] = 1 PROVE Accepted(worker'[w])
    <3>1. worker'[w] # Free
      BY <1>1, <2>2 DEF Active
    <3>2. Accepted(worker[w]) \/ worker[w].at = "send"
      BY <1>1, <1>4, <2>2 DEF Sound
    <3>3. QED
      BY <1>4, <3>1, <3>2 DEF Moves
  <2>3. CASE dispatch' = dispatch
    <3>1. dispatch[k].status \notin {"none", "retry"}
      BY <1>1, <1>4 DEF Sound
    <3>2. QED
      BY <1>1, <1>2, <2>1, <2>2, <2>3, <3>1 DEF Sound
  <2>4. CASE worker[w].at = "retry" /\ worker'[w] = Free /\ UpdateClaim(w, {"processing"}, "retry")
             /\ dispatch' # dispatch
    <3>1. dispatch'[k].status = "retry" /\ ~Active(w)'
      BY <1>1, <1>4, <2>4 DEF UpdateClaim, Dispatch, Active
    <3>2. \A d \in Devices : accepted[k][d] = 0
      <4>1. \A d \in Devices : accepted[k][d] <= 1 /\ accepted[k][d] # 1 /\ accepted[k][d] \in 0..2
        BY <1>1, <1>4, <2>4 DEF Sound, Accepted
      <4>2. QED
        BY <4>1
    <3>3. QED
      BY <1>2, <2>1, <3>1, <3>2 DEF Sound
  <2>5. ASSUME NEW status \in Final \cup {"sent"}, NEW statuses,
               UpdateClaim(w, statuses, status), dispatch' # dispatch
        PROVE  Sound(k)'
    <3>1. dispatch'[k].status \notin {"none", "retry", "processing"}
      BY <1>1, <1>4, <2>5 DEF UpdateClaim, Dispatch, Final
    <3>2. QED
      BY <1>2, <2>1, <2>2, <3>1 DEF Sound
  <2>6. QED
    BY <2>3, <2>4, <2>5 DEF Moves
<1>5. QED
  BY <1>3, <1>4

LEMMA SendAnsweredSound ==
  ASSUME Typed, NEW w \in Workers, SendAnswered(w), NEW k \in Keys, Sound(k), worker[w].key = k
  PROVE  Sound(k)'
<1> DEFINE me == worker[w]
           last == me.round + 1 = MaxSendAttempts
<1>1. PICK answer \in [me.pending -> Tickets] :
        LET retried == IF last THEN {} ELSE SentAgain(answer)
            known == [d \in (DOMAIN me.tickets \cup me.pending) \ retried |->
                        IF d \in me.pending THEN answer[d] ELSE me.tickets[d]]
        IN /\ Took(me.key, {d \in me.pending : answer[d] = "ok"})
           /\ worker' = [worker EXCEPT ![w] = [me EXCEPT
                !.pending = retried, !.round = @ + 1, !.tickets = known,
                !.at = IF retried = {} THEN "mark" ELSE "send"]]
  BY DEF SendAnswered
<1> DEFINE retried == IF last THEN {} ELSE SentAgain(answer)
           known == [d \in (DOMAIN me.tickets \cup me.pending) \ retried |->
                       IF d \in me.pending THEN answer[d] ELSE me.tickets[d]]
           taken == {d \in me.pending : answer[d] = "ok"}
<1>2. /\ worker \in [Workers -> Record] /\ me \in Record /\ Active(w) /\ me.at = "send"
      /\ accepted \in [Keys -> [Devices -> 0..2]] /\ dispatch' = dispatch
  BY DEF Typed, TypeOK, SendAnswered, Active
<1>3. \A d \in Devices : accepted'[k][d] = IF d \in taken /\ accepted[k][d] < 2
                            THEN accepted[k][d] + 1 ELSE accepted[k][d]
  BY <1>1, TookTyped
<1>4. /\ worker'[w].key = k /\ worker'[w].pending = retried /\ worker'[w].tickets = known
      /\ worker'[w].at = IF retried = {} THEN "mark" ELSE "send"
      /\ \A v \in Workers \ {w} : worker'[v] = worker[v]
  BY <1>1, <1>2 DEF Record
<1>5. retried \subseteq me.pending /\ retried \cap taken = {}
  BY DEF SentAgain
<1>6. ASSUME NEW d \in Devices
      PROVE  /\ accepted'[k][d] <= 1
             /\ accepted'[k][d] = 1 =>
                    d \notin retried /\ d \in DOMAIN known /\ known[d] = "ok"
  <2>1. accepted[k][d] = 1 => /\ d \notin me.pending /\ d \in DOMAIN me.tickets
                             /\ me.tickets[d] = "ok"
    BY <1>2 DEF Sound, Accepted
  <2>2. accepted[k][d] \in 0..1
    BY <1>2 DEF Sound
  <2>3. CASE d \in taken
    BY <1>3, <1>5, <2>1, <2>2, <2>3
  <2>4. CASE d \notin taken
    <3>1. accepted'[k][d] = accepted[k][d]
      BY <1>3, <2>4
    <3>2. QED
      BY <1>5, <2>1, <2>2, <3>1
  <2>5. QED
    BY <2>3, <2>4
<1> HIDE DEF known, retried
<1>7. \A v \in Workers : Active(v)' /\ worker'[v].key = k => v = w
  BY <1>2, <1>4 DEF Sound, Active
<1>8. dispatch[k].status \notin {"none", "retry"}
  BY <1>2 DEF Sound
<1>9. QED
  BY <1>2, <1>4, <1>6, <1>7, <1>8 DEF Sound, Accepted

LEMMA SendFailsSound ==
  ASSUME Typed, NEW w \in Workers, SendFails(w), NEW k \in Keys, Sound(k), worker[w].key = k,
         k \notin doubtful'
  PROVE  Sound(k)'
<1> DEFINE last == worker[w].round + 1 = MaxSendAttempts
<1>1. /\ worker \in [Workers -> Record] /\ worker[w] \in Record /\ Active(w)
      /\ worker[w].at = "send" /\ dispatch' = dispatch
      /\ accepted \in [Keys -> [Devices -> 0..2]]
  BY DEF Typed, TypeOK, SendFails, Active
<1>2. CASE Conclude(w, "failed") /\ accepted' = accepted
  <2>1. Accepted(worker'[w])
    BY <1>1, <1>2 DEF Conclude, Accepted, Record
  <2>2. Moves(w)
    BY WorkerStepMoves DEF WorkerStep
  <2>3. QED
    BY <1>2, <2>1, <2>2, QuietStepSound
<1>3. CASE ~(Conclude(w, "failed") /\ accepted' = accepted)
  <2>1. /\ Took(k, {})
        /\ last => \A d \in DOMAIN worker[w].tickets : worker[w].tickets[d] # "ok"
        /\ worker' = [worker EXCEPT ![w].round = @ + 1, ![w].at = IF last THEN "retry" ELSE "send"]
    BY <1>3 DEF SendFails
  <2>2. \A d \in Devices : accepted'[k][d] = accepted[k][d]
    BY <2>1, TookTyped
  <2>3. /\ \A v \in Workers \ {w} : worker'[v] = worker[v]
        /\ worker'[w].key = k /\ worker'[w].pending = worker[w].pending
        /\ worker'[w].tickets = worker[w].tickets
        /\ worker'[w].at = IF last THEN "retry" ELSE "send"
    BY <1>1, <2>1 DEF Record
  <2>4. \A d \in Devices : accepted[k][d] = 1 =>
            /\ d \notin worker[w].pending
            /\ d \in DOMAIN worker[w].tickets /\ worker[w].tickets[d] = "ok"
    BY <1>1 DEF Sound, Accepted
  <2> HIDE DEF last
  <2>5. ASSUME NEW d \in Devices, accepted'[k][d] = 1
        PROVE  /\ worker'[w].at = "send" /\ d \notin worker'[w].pending
               /\ d \in DOMAIN worker'[w].tickets /\ worker'[w].tickets[d] = "ok"
    BY <2>1, <2>2, <2>3, <2>4, <2>5
  <2>6. \A v \in Workers : Active(v)' /\ worker'[v].key = k => v = w
    BY <1>1, <2>3 DEF Sound, Active
  <2>7. dispatch[k].status \notin {"none", "retry"}
    BY <1>1 DEF Sound
  <2>8. \A d \in Devices : accepted'[k][d] <= 1
    BY <2>2 DEF Sound
  <2>9. QED
    BY <1>1, <2>5, <2>6, <2>7, <2>8 DEF Sound
<1>4. QED
  BY <1>2, <1>3

LEMMA WorkerStepSound ==
  ASSUME Typed, NEW w \in Workers, WorkerStep(w), NEW k \in Keys, Sound(k), k \notin doubtful'
  PROVE  Sound(k)'
<1>1. Moves(w) /\ worker[w].key \in Keys
  BY WorkerStepMoves DEF Moves, Typed, TypeOK, Active
<1>2. CASE SendAnswered(w) \/ SendFails(w)
  <2>1. CASE worker[w].key = k
    BY <1>2, <2>1, SendAnsweredSound, SendFailsSound
  <2>2. CASE worker[w].key # k
    <3>1. accepted'[k] = accepted[k]
      <4>1. (\E D : Took(worker[w].key, D)) \/ accepted' = accepted
        BY <1>2 DEF SendAnswered, SendFails
      <4>2. QED
        BY <1>1, <2>2, <4>1, TookTyped
    <3>2. QED
      BY <1>1, <2>2, <3>1, QuietStepSound
  <2>3. QED
    BY <2>1, <2>2
<1>3. CASE ~(SendAnswered(w) \/ SendFails(w))
  <2>1. \/ accepted' = accepted /\ worker[w].at # "send"
        \/ Crash(w)
    BY <1>3 DEF WorkerStep, ReadRow, ReadEligibility, ReadDevices, ReadFails, MarkAccepted,
                Persist, PersistDone, Settle, Retry
  <2>2. Crash(w) => accepted' = accepted /\ worker'[w] = Free
    BY DEF Crash, Typed
  <2>3. QED
    BY <1>1, <2>1, <2>2, QuietStepSound
<1>4. QED
  BY <1>2, <1>3

(* No device is sent a version twice unless a lease lapsed or an answer    *)
(* was lost or thrown away: the claim alone excludes it.                   *)
THEOREM SentOnceUnlessInDoubt == Spec => []SentTwiceOnlyInDoubt
<1>1. ASSUME Typed, Undoubted, [Next]_vars PROVE Undoubted'
  <2> SUFFICES ASSUME NEW k \in Keys, k \notin doubtful' PROVE Sound(k)'
    BY DEF Undoubted
  <2>1. /\ dispatch \in [Keys -> Dispatch]
        /\ \A v \in Workers : Active(v) => worker[v].key \in Keys
    BY <1>1 DEF Typed, TypeOK, Active
  <2>2. ASSUME NEW w \in Workers, WorkerStep(w) PROVE Sound(k)'
    <3>1. k \notin doubtful
      BY <2>2 DEF WorkerStep, ReadRow, ReadEligibility, ReadDevices, ReadFails, SendAnswered,
                  SendFails, MarkAccepted, Persist, PersistDone, Settle, Retry, Crash
    <3>2. QED
      BY <1>1, <2>2, <3>1, WorkerStepSound DEF Undoubted
  <2>3. ASSUME NEW w \in Workers, NEW j \in Keys, Begins(w, j), UNCHANGED <<accepted, doubtful>>
        PROVE  Sound(k)'
    <3>1. Sound(k)
      BY <1>1, <2>3 DEF Undoubted
    <3>2. CASE j # k
      <4>1. \A v \in Workers \ {w} : worker'[v] = worker[v]
        BY <2>3 DEF Begins
      <4>2. Active(w)' => worker'[w].key # k
        BY <2>3, <3>2 DEF Begins, Active
      <4>3. dispatch'[k] = dispatch[k] /\ ~Active(w)
        BY <2>3, <3>2 DEF Begins
      <4>4. QED
        BY <2>3, <3>1, <4>1, <4>2, <4>3 DEF Sound, Active
    <3>3. CASE j = k
      <4>1. dispatch[k].status \in {"none", "retry"}
        BY <2>3, <3>1, <3>3 DEF Begins, Claimable, Unclaimed, Sound
      <4>2. /\ \A v \in Workers \ {w} : worker'[v] = worker[v]
            /\ dispatch'[k].status = "skipped" \/ (dispatch'[k].status = "processing" /\ ~dispatch'[k].due)
        BY <2>3, <3>3 DEF Begins
      <4>3. \A v \in Workers : Active(v)' /\ worker'[v].key = k => v = w
        BY <3>1, <4>1, <4>2 DEF Sound, Active
      <4>4. \A d \in Devices : accepted'[k][d] = 0
        BY <2>3, <3>1, <4>1 DEF Sound
      <4>5. QED
        BY <4>2, <4>3, <4>4 DEF Sound
    <3>4. QED
      BY <3>2, <3>3
  <2>4. ASSUME NEW j \in Keys, TimeRunsOut(j) \/ GrowsOld(j) PROVE Sound(k)'
    <3>1. k \notin doubtful /\ UNCHANGED <<worker, accepted>>
      BY <2>4 DEF TimeRunsOut, GrowsOld
    <3>2. Sound(k)
      BY <1>1, <3>1 DEF Undoubted
    <3>3. /\ dispatch'[k].status = dispatch[k].status
          /\ dispatch[k].status = "processing" => dispatch'[k].due = dispatch[k].due
      BY <2>1, <2>4 DEF TimeRunsOut, GrowsOld, Dispatch
    <3>4. QED
      BY <3>1, <3>2, <3>3 DEF Sound, Active
  <2>5. CASE UNCHANGED <<worker, dispatch, accepted, doubtful>>
    BY <1>1, <2>5 DEF Undoubted, Sound, Active
  <2>6. QED
    BY <1>1, <2>2, <2>3, <2>4, <2>5, StepKinds
<1>2. Typed /\ Undoubted => SentTwiceOnlyInDoubt
  <2> SUFFICES ASSUME Typed, Undoubted, NEW k \in Keys, NEW d \in Devices, accepted[k][d] > 1,
                      k \notin doubtful
               PROVE  FALSE
    BY DEF SentTwiceOnlyInDoubt
  <2>1. accepted[k][d] <= 1 /\ accepted[k][d] \in 0..2
    BY DEF Undoubted, Sound, Typed, TypeOK
  <2>2. QED
    BY <2>1
<1>3. QED
  BY <1>1, <1>2, InitUndoubted, TypedInv, PTL DEF Spec
-----------------------------------------------------------------------------
(* When a re-created row takes a new generation, keys are never used again:*)
(* k is the row's key or an earlier one.                                   *)
Past(k) == \/ k.generation < row.generation
           \/ k.generation = row.generation /\ (row.version = 0 \/ k.version <= row.version)

Ordered ==
    /\ \A k \in announced : Past(k)
    /\ \A k \in Keys : dispatch[k].status # "none" => Past(k)
    /\ \A w \in Workers : Active(w) =>
        /\ Past(worker[w].key)
        /\ worker[w].stale => row # worker[w].key
        /\ worker[w].at \in Fresh => ~worker[w].stale

LEMMA PastStays ==
  ASSUME RenewsGeneration = TRUE, Typed, NEW k \in Keys, Past(k),
         Activity \/ row' \in {row, [row EXCEPT !.version = 0]}
  PROVE  Past(k)' /\ (row # k => row' # k)
<1>1. /\ row.generation \in Nat /\ row.version \in Nat
      /\ row \in [generation : 0..MaxGeneration, version : 0..MaxVersion]
      /\ k.generation \in Nat /\ k.version \in Nat /\ k.version > 0
  BY DispatchBounds DEF Typed, TypeOK, Keys
<1>2. CASE Activity /\ row.version > 0
  <2>1. row'.generation = row.generation /\ row'.version = row.version + 1
    BY <1>1, <1>2 DEF Activity, NextKey
  <2>2. QED
    BY <1>1, <1>2, <2>1 DEF Past
<1>3. CASE Activity /\ row.version = 0
  <2>1. row'.generation = row.generation + 1 /\ row'.version = 1
    BY <1>1, <1>3 DEF Activity, NextKey
  <2>2. QED
    BY <1>1, <2>1 DEF Past
<1>4. CASE row' \in {row, [row EXCEPT !.version = 0]}
  <2>1. row' = row \/ (row'.generation = row.generation /\ row'.version = 0)
    BY <1>1, <1>4
  <2>2. QED
    BY <1>1, <2>1 DEF Past
<1>5. QED
  BY <1>1, <1>2, <1>3, <1>4

LEMMA NewKeyNotPast ==
  ASSUME RenewsGeneration = TRUE, Typed, Activity
  PROVE  ~Past(row') /\ row' \in Keys /\ Past(row)' /\ announced' = announced \cup {row'}
<1>1. /\ row.generation \in Nat /\ row.version \in Nat
  BY DispatchBounds DEF Typed, TypeOK
<1>2. /\ row' \in Keys /\ announced' = announced \cup {row'}
      /\ row.version > 0 => row'.generation = row.generation /\ row'.version = row.version + 1
      /\ row.version = 0 => row'.generation = row.generation + 1
  BY <1>1 DEF Activity, NextKey, Typed, TypeOK
<1>3. row'.generation \in Nat /\ row'.version \in Nat
  BY <1>2, DispatchBounds DEF Keys
<1>4. QED
  BY <1>1, <1>2, <1>3 DEF Past

LEMMA OrderedInv ==
  ASSUME RenewsGeneration = TRUE
  PROVE  Spec => [](Typed /\ Ordered)
<1>1. Init => Ordered
  BY DEF Init, Ordered, Active, Free
<1>2. ASSUME Typed, Ordered, [Next]_vars PROVE Ordered'
  <2>0. /\ dispatch \in [Keys -> Dispatch] /\ announced \subseteq Keys
        /\ \A v \in Workers : Active(v) => worker[v].key \in Keys
        /\ Free.at = "idle"
    BY <1>2 DEF Typed, TypeOK, Active, Free
  <2>1. ASSUME NEW w \in Workers, WorkerStep(w) PROVE Ordered'
    <3>1. Moves(w) /\ worker[w].key \in Keys
      BY <1>2, <2>0, <2>1, WorkerStepMoves DEF Moves
    <3>2. \A k \in Keys : Past(k)' <=> Past(k)
      BY <3>1 DEF Moves, Past
    <3>3. \A k \in Keys : dispatch'[k].status # "none" => dispatch[k].status # "none"
      BY <2>0, <3>1 DEF Moves, UpdateClaim, HoldsClaim
    <3>4. ASSUME NEW v \in Workers, Active(v)'
          PROVE  /\ Past(worker[v].key)'
                 /\ worker'[v].stale => row' # worker'[v].key
                 /\ worker'[v].at \in Fresh => ~worker'[v].stale
      <4>1. CASE v # w
        BY <1>2, <2>0, <3>1, <3>2, <3>4, <4>1 DEF Moves, Ordered, Active
      <4>2. CASE v = w
        BY <1>2, <2>0, <3>1, <3>2, <3>4, <4>2 DEF Moves, Ordered, Active
      <4>3. QED
        BY <4>1, <4>2
    <3>5. QED
      BY <1>2, <2>0, <3>1, <3>2, <3>3, <3>4 DEF Ordered, Moves
  <2>2. ASSUME NEW w \in Workers, NEW k \in Keys, Begins(w, k), row' = row,
               announced' \subseteq announced, k \in announced \/ dispatch[k].status # "none"
        PROVE  Ordered'
    <3>1. Past(k) /\ \A j \in Keys : Past(j)' <=> Past(j)
      BY <1>2, <2>2 DEF Ordered, Past
    <3>2. \A j \in Keys : dispatch'[j].status # "none" => Past(j)
      BY <1>2, <2>2, <3>1 DEF Ordered, Begins
    <3>3. ASSUME NEW v \in Workers, Active(v)'
          PROVE  /\ Past(worker[v].key)'
                 /\ worker'[v].stale => row' # worker'[v].key
                 /\ worker'[v].at \in Fresh => ~worker'[v].stale
      <4>1. CASE worker'[v] = worker[v]
        BY <1>2, <2>0, <2>2, <3>1, <3>3, <4>1 DEF Ordered, Active
      <4>2. CASE worker'[v] # worker[v]
        BY <2>2, <3>1, <4>2 DEF Begins, Fresh
      <4>3. QED
        BY <4>1, <4>2
    <3>4. QED
      BY <1>2, <2>0, <2>2, <3>1, <3>2, <3>3 DEF Ordered
  <2>3. ASSUME NEW k \in Keys, TimeRunsOut(k) \/ GrowsOld(k) PROVE Ordered'
    <3>1. \A j \in Keys : dispatch'[j].status = dispatch[j].status
      BY <2>0, <2>3 DEF TimeRunsOut, GrowsOld, Dispatch
    <3>2. UNCHANGED <<row, worker, announced>>
      BY <2>3 DEF TimeRunsOut, GrowsOld
    <3>3. QED
      BY <1>2, <2>0, <3>1, <3>2 DEF Ordered, Past, Active
  <2>4. ASSUME Activity \/ (row' \in {row, [row EXCEPT !.version = 0]} /\ announced' \subseteq announced),
               UNCHANGED <<worker, dispatch>>
        PROVE  Ordered'
    <3>1. \A k \in Keys : Past(k) => Past(k)' /\ (row # k => row' # k)
      BY <1>2, <2>4, PastStays
    <3>2. \A k \in announced' : k \in announced \/ (k = row' /\ Past(row)')
      BY <1>2, <2>4, NewKeyNotPast
    <3>3. QED
      BY <1>2, <2>0, <2>4, <3>1, <3>2 DEF Ordered, Active, Past
  <2>5. QED
    BY <1>2, <2>1, <2>2, <2>3, <2>4, StepKinds
<1>3. QED
  BY <1>1, <1>2, TypedInv, PTL DEF Spec

(* A version that was superseded, or whose row was deleted, before its     *)
(* dispatch was claimed is not sent, provided that a row that is created   *)
(* again takes a new generation, as grouped likes do.                      *)
THEOREM NothingSupersededIsSent ==
  ASSUME RenewsGeneration = TRUE
  PROVE  Spec => []SupersededNeverSent
<1>1. Ordered => SupersededNeverSent
  BY DEF Ordered, SupersededNeverSent, Active, Fresh
<1>2. QED
  BY <1>1, OrderedInv, PTL

(* Under the same condition no activity meets the dispatch of an earlier   *)
(* one.                                                                    *)
THEOREM EveryActivityIsFresh ==
  ASSUME RenewsGeneration = TRUE
  PROVE  Spec => FreshActivityFreshDispatch
<1>1. ASSUME Typed, Ordered, [Next]_vars, row' # row, row'.version > 0 PROVE Unclaimed(row')
  <2>1. Activity
    <3>1. row.version \in Nat
      BY <1>1, DispatchBounds DEF Typed, TypeOK
    <3>2. [row EXCEPT !.version = 0].version = 0
      BY <1>1 DEF Typed, TypeOK
    <3>3. \A w \in Workers : WorkerStep(w) => row' = row
      BY <1>1, WorkerStepMoves DEF Moves
    <3>4. \A k \in Keys : TimeRunsOut(k) \/ GrowsOld(k) => row' = row
      BY DEF TimeRunsOut, GrowsOld
    <3>5. QED
      <4>1. Activity \/ row' \in {row, [row EXCEPT !.version = 0]}
        BY <1>1, <3>3, <3>4, StepKinds
      <4>2. row' # [row EXCEPT !.version = 0]
        <5>1. ~(0 > 0)
          OBVIOUS
        <5>2. row' = [row EXCEPT !.version = 0] => row'.version = 0
          BY <3>2
        <5>3. QED
          BY <1>1, <5>1, <5>2
      <4>3. QED
        BY <1>1, <4>1, <4>2
  <2>2. QED
    BY <1>1, <2>1, NewKeyNotPast DEF Ordered, Unclaimed
<1>2. QED
  BY <1>1, OrderedInv, PTL DEF Spec, FreshActivityFreshDispatch
=============================================================================
