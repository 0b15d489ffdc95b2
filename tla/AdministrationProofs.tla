------------------------- MODULE AdministrationProofs -------------------------
(***************************************************************************)
(* What administrators do, for any number of accounts, calls, documents    *)
(* and workers.  AdminRoster: type correctness, that a former              *)
(* administrator keeps no admin row, and that claim and registry agree     *)
(* when nothing went wrong.                                                *)
(*                                                                         *)
(* DestinationRename: a checkpoint cannot rewind because a generation      *)
(* fixes the stage and the cursor of a job, so the copy an instance holds  *)
(* is current exactly when the generations agree.  When administrators ask *)
(* for one name only and no cache refresh runs, the documents behind the   *)
(* checkpoint, and those behind the page an instance is about to check     *)
(* off, show that name or none of this destination's.                      *)
(***************************************************************************)
EXTENDS AdminRoster, DestinationRename, FiniteSetTheorems, TLAPS

(* Every action keeps the state well typed; in particular no call ever     *)
(* names its own caller.                                                   *)
THEOREM RosterTypeCorrect == RosterSpec => []RosterTypeOK
<1>1. RosterInit => RosterTypeOK
  <2> SUFFICES ASSUME RosterInit PROVE RosterTypeOK
    OBVIOUS
  <2>1. Free \in Call /\ Free.at = "idle"
    BY DEF Free, Call
  <2>2. calls \in [Calls -> Call] /\ UnderWay = {}
    BY <2>1 DEF RosterInit, UnderWay
  <2>3. QED
    BY <2>2, RosterAssumptions DEF RosterInit, RosterTypeOK
<1>2. RosterTypeOK /\ [RosterNext]_rosterVars => RosterTypeOK'
  <2> SUFFICES ASSUME RosterTypeOK, [RosterNext]_rosterVars PROVE RosterTypeOK'
    OBVIOUS
  <2>1. ASSUME NEW c \in Calls, NEW m \in Users, NEW u \in Users,
               NEW enabled \in BOOLEAN, Begin(c, m, u, enabled)
        PROVE RosterTypeOK'
    <3>1. calls' \in [Calls -> Call]
      BY <2>1 DEF RosterTypeOK, Begin, Call
    <3>2. \A d \in UnderWay' : calls'[d].user \in Users \ {calls'[d].caller}
      BY <2>1 DEF RosterTypeOK, Begin, UnderWay, MayName
    <3>3. QED
      BY <2>1, <3>1, <3>2 DEF RosterTypeOK, Begin
  <2>2. ASSUME NEW c \in Calls, CallStep(c)
        PROVE RosterTypeOK'
    <3>1. calls[c] \in Call
      BY DEF RosterTypeOK
    <3>2. ASSUME NEW written \in {"claim", "registry", "purge"}, AdvanceCall(c, written),
                 c \in UnderWay
          PROVE /\ calls' \in [Calls -> Call]
                /\ \A d \in UnderWay' : calls'[d].user \in Users \ {calls'[d].caller}
      <4>1. After(c, written) \in {"idle", "registry", "purge"}
        BY <3>1 DEF After, Call
      <4>2. calls' \in [Calls -> Call]
        BY <3>1, <3>2, <4>1, RosterAssumptions DEF RosterTypeOK, AdvanceCall, Call, Free
      <4>3. \A d \in UnderWay' : calls'[d].user \in Users \ {calls'[d].caller}
        BY <3>1, <3>2, <4>1 DEF RosterTypeOK, AdvanceCall, UnderWay, Call, Free
      <4>4. QED
        BY <4>2, <4>3
    <3>3. CASE CountAdmins(c)
      <4>1. calls' \in [Calls -> Call]
        BY <3>1, <3>3 DEF RosterTypeOK, CountAdmins, Call, Free
      <4>2. \A d \in UnderWay' : calls'[d].user \in Users \ {calls'[d].caller}
        BY <3>1, <3>3 DEF RosterTypeOK, CountAdmins, UnderWay, Call, Free
      <4>3. QED
        BY <3>3, <4>1, <4>2 DEF RosterTypeOK, CountAdmins
    <3>4. CASE WriteClaim(c)
      BY <3>2, <3>4, RosterAssumptions DEF RosterTypeOK, WriteClaim, ClaimsSet, UnderWay
    <3>5. CASE WriteRegistry(c)
      BY <3>2, <3>5 DEF RosterTypeOK, WriteRegistry, UnderWay
    <3>6. CASE PurgeRows(c)
      BY <3>2, <3>6 DEF RosterTypeOK, PurgeRows, UnderWay
    <3>7. CASE CallDies(c)
      <4>1. calls' \in [Calls -> Call]
        BY <3>7 DEF RosterTypeOK, CallDies, Call, Free
      <4>2. \A d \in UnderWay' : calls'[d].user \in Users \ {calls'[d].caller}
        BY <3>1, <3>7 DEF RosterTypeOK, CallDies, UnderWay, Call, Free
      <4>3. QED
        BY <3>7, <4>1, <4>2 DEF RosterTypeOK, CallDies
    <3>8. QED
      BY <2>2, <3>3, <3>4, <3>5, <3>6, <3>7 DEF CallStep
  <2>3. ASSUME NEW u \in Users,
               SignIn(u) \/ Fanout(u) \/ MarkAccount(u) \/ EmptyAccount(u) \/ DeleteAuthUser(u)
        PROVE RosterTypeOK'
    BY <2>3 DEF RosterTypeOK, SignIn, Fanout, MarkAccount, EmptyAccount, DeleteAuthUser, UnderWay
  <2>4. CASE UNCHANGED rosterVars
    BY <2>4 DEF RosterTypeOK, rosterVars, UnderWay
  <2>5. QED
    BY <2>1, <2>2, <2>3, <2>4 DEF RosterNext
<1>3. QED
  BY <1>1, <1>2, PTL DEF RosterSpec

(* No admin row outlives the role once its purge is through.  The property *)
(* is inductive with the types: a row comes only to an active entry of the *)
(* registry, and an entry goes only with a purge, or a deletion, behind it.*)
THEOREM FormerAdminsAreCleared == RosterSpec => []FormerAdminSeesNothing
<1>1. RosterInit => FormerAdminSeesNothing
  BY DEF RosterInit, FormerAdminSeesNothing
<1>2. RosterTypeOK /\ RosterTypeOK' /\ FormerAdminSeesNothing /\ [RosterNext]_rosterVars => FormerAdminSeesNothing'
  <2> SUFFICES ASSUME RosterTypeOK, RosterTypeOK', FormerAdminSeesNothing, [RosterNext]_rosterVars,
                      NEW u \in Users, u \in rows', u \notin registry'
               PROVE \/ u \in abandoned'
                     \/ account'[u] = "deleting"
                     \/ \E c \in UnderWay' : calls'[c].user = u /\ calls'[c].at = "purge"
    BY DEF FormerAdminSeesNothing, RosterTypeOK
  <2>1. ASSUME NEW c \in Calls, NEW m \in Users, NEW v \in Users,
               NEW enabled \in BOOLEAN, Begin(c, m, v, enabled)
        PROVE \/ u \in abandoned'
              \/ account'[u] = "deleting"
              \/ \E d \in UnderWay' : calls'[d].user = u /\ calls'[d].at = "purge"
    BY <2>1 DEF RosterTypeOK, FormerAdminSeesNothing, Begin, UnderWay
  <2>2. ASSUME NEW c \in Calls, CountAdmins(c) \/ WriteClaim(c)
        PROVE \/ u \in abandoned'
              \/ account'[u] = "deleting"
              \/ \E d \in UnderWay' : calls'[d].user = u /\ calls'[d].at = "purge"
    BY <2>2 DEF RosterTypeOK, FormerAdminSeesNothing, CountAdmins, WriteClaim, AdvanceCall, After, UnderWay
  <2>3. ASSUME NEW c \in Calls, WriteRegistry(c)
        PROVE \/ u \in abandoned'
              \/ account'[u] = "deleting"
              \/ \E d \in UnderWay' : calls'[d].user = u /\ calls'[d].at = "purge"
    <3>1. CASE u \in registry
      <4>1. ~calls[c].enabled /\ calls[c].user = u
        BY <2>3, <3>1 DEF WriteRegistry
      <4>2. calls'[c].at = "purge" /\ calls'[c].user = u
        BY <2>3, <4>1 DEF RosterTypeOK, WriteRegistry, AdvanceCall, After, Call
      <4>3. QED
        BY <4>2 DEF UnderWay
    <3>2. CASE u \notin registry
      BY <2>3, <3>2 DEF RosterTypeOK, FormerAdminSeesNothing, WriteRegistry, AdvanceCall, After, UnderWay
    <3>3. QED
      BY <3>1, <3>2
  <2>4. ASSUME NEW c \in Calls, PurgeRows(c)
        PROVE \/ u \in abandoned'
              \/ account'[u] = "deleting"
              \/ \E d \in UnderWay' : calls'[d].user = u /\ calls'[d].at = "purge"
    BY <2>4 DEF RosterTypeOK, FormerAdminSeesNothing, PurgeRows, AdvanceCall, After, UnderWay
  <2>5. ASSUME NEW c \in Calls, CallDies(c)
        PROVE \/ u \in abandoned'
              \/ account'[u] = "deleting"
              \/ \E d \in UnderWay' : calls'[d].user = u /\ calls'[d].at = "purge"
    BY <2>5 DEF RosterTypeOK, FormerAdminSeesNothing, CallDies, UnderWay
  <2>6. ASSUME NEW v \in Users,
               SignIn(v) \/ Fanout(v) \/ MarkAccount(v) \/ EmptyAccount(v) \/ DeleteAuthUser(v)
        PROVE \/ u \in abandoned'
              \/ account'[u] = "deleting"
              \/ \E d \in UnderWay' : calls'[d].user = u /\ calls'[d].at = "purge"
    BY <2>6 DEF RosterTypeOK, FormerAdminSeesNothing, SignIn, Fanout, IsActiveAdmin, MarkAccount,
                EmptyAccount, DeleteAuthUser, UnderWay
  <2>7. CASE UNCHANGED rosterVars
    BY <2>7 DEF FormerAdminSeesNothing, rosterVars, UnderWay
  <2>8. QED
    BY <2>1, <2>2, <2>3, <2>4, <2>5, <2>6, <2>7 DEF RosterNext, CallStep
<1>3. QED
  BY <1>1, <1>2, RosterTypeCorrect, PTL DEF RosterSpec
-----------------------------------------------------------------------------
(* The strengthening.  As long as no call died or overlapped, at most one  *)
(* call runs, for an account that stays active, and claim and registry     *)
(* differ only for the account whose claim it has written and whose        *)
(* registry entry it has not.                                              *)
Alone == \A c, d \in UnderWay : c = d
AmidActive == \A c \in UnderWay : account[calls[c].user] = "active"
NoneLeaving == UnderWay # {} => \A u \in Users : ~Leaving(u)
Between(u) == \E c \in UnderWay : calls[c].user = u /\ calls[c].at = "registry"
Agree == \A u \in Active :
    /\ ~Between(u) => (u \in claim <=> u \in registry)
    /\ \A c \in UnderWay : calls[c].user = u /\ calls[c].at = "registry" =>
         (u \in claim <=> calls[c].enabled)
Orderly == ~disturbed => Alone /\ AmidActive /\ NoneLeaving /\ Agree /\ registry \subseteq Active

(* A step of a call that is neither its last nor its death keeps the call  *)
(* busy for the same account, and starts no other.                         *)
Onward(c, stage) ==
    /\ c \in UnderWay /\ UnderWay' = UnderWay
    /\ calls'[c].at = stage /\ calls'[c].user = calls[c].user /\ calls'[c].enabled = calls[c].enabled
    /\ \A d \in UnderWay \ {c} : calls'[d] = calls[d]
CallEnded(c) == c \in UnderWay /\ UnderWay' = UnderWay \ {c} /\ \A d \in UnderWay \ {c} : calls'[d] = calls[d]

LEMMA AdvanceMoves ==
    ASSUME RosterTypeOK, NEW c \in UnderWay, NEW written \in {"claim", "registry", "purge"}, AdvanceCall(c, written)
    PROVE  IF After(c, written) = "idle" THEN CallEnded(c) ELSE Onward(c, After(c, written))
<1>1. calls[c] \in Call /\ c \in Calls /\ calls[c].at # "idle"
  BY DEF RosterTypeOK, UnderWay
<1>2. After(c, written) \in {"idle", "registry", "purge"}
  BY <1>1 DEF After, Call
<1>3. CASE After(c, written) = "idle"
  BY <1>1, <1>3 DEF AdvanceCall, CallEnded, UnderWay, Free, RosterTypeOK
<1>4. CASE After(c, written) # "idle"
  <2>1. calls' = [calls EXCEPT ![c].at = After(c, written)]
    BY <1>4 DEF AdvanceCall
  <2>2. /\ calls'[c].at = After(c, written) /\ calls'[c].user = calls[c].user
        /\ calls'[c].enabled = calls[c].enabled /\ \A d \in Calls \ {c} : calls'[d] = calls[d]
    BY <1>1, <2>1 DEF RosterTypeOK, Call
  <2> QED  BY <1>1, <1>2, <1>4, <2>2 DEF Onward, UnderWay
<1> QED  BY <1>3, <1>4

(* The parts that do not speak of claims, for a step of one call.          *)
LEMMA StillAlone ==
    ASSUME RosterTypeOK, Alone, AmidActive, NoneLeaving, NEW c \in UnderWay,
           account' = account, CallEnded(c) \/ \E stage : Onward(c, stage)
    PROVE  Alone' /\ AmidActive' /\ NoneLeaving' /\ Active' = Active
<1>1. UnderWay' \subseteq UnderWay /\ \A d \in UnderWay' : calls'[d].user = calls[d].user
  BY DEF CallEnded, Onward
<1> QED  BY <1>1 DEF Alone, AmidActive, NoneLeaving, Active, Leaving

LEMMA StepOrderly ==
    ASSUME RosterTypeOK, Orderly, NEW c \in Calls, CallStep(c)
    PROVE  Orderly'
<1>1. CASE CallDies(c)
  BY <1>1 DEF CallDies, Orderly
<1>2. CASE ~CallDies(c) /\ disturbed
  BY <1>2 DEF CallStep, CountAdmins, WriteClaim, WriteRegistry, PurgeRows, Orderly
<1>3. CASE ~CallDies(c) /\ ~disturbed
  <2> USE <1>3
  <2>1. c \in UnderWay /\ account' = account /\ disturbed' = disturbed
    BY DEF CallStep, CountAdmins, WriteClaim, WriteRegistry, PurgeRows, UnderWay
  <2>2. calls[c] \in Call /\ calls[c].user \in Active /\ UnderWay = {c} /\ registry \subseteq Active
    BY <2>1 DEF Orderly, RosterTypeOK, Alone, AmidActive, Active
  <2>3. ASSUME CallEnded(c) \/ \E stage : Onward(c, stage)
        PROVE  Alone' /\ AmidActive' /\ NoneLeaving' /\ Active' = Active
    BY <2>1, <2>3, StillAlone DEF Orderly
  <2>4. CASE CountAdmins(c)
    <3>1. CallEnded(c) \/ Onward(c, "claim")
      BY <2>1, <2>2, <2>4 DEF CountAdmins, RosterTypeOK, CallEnded, Onward, UnderWay, Free, Call
    <3>2. UNCHANGED <<claim, registry>> /\ calls[c].at = "count"
      BY <2>4 DEF CountAdmins
    <3>3. \A u \in Active : ~Between(u) /\ ~Between(u)'
      BY <2>2, <3>1, <3>2 DEF Between, CallEnded, Onward
    <3> QED  BY <2>1, <2>2, <2>3, <3>1, <3>2, <3>3 DEF Orderly, Agree, Between
  <2>5. CASE WriteClaim(c)
    <3>1. Onward(c, "registry") /\ claim' = ClaimsSet(c) /\ registry' = registry /\ calls[c].at = "claim"
      BY <2>1, <2>5, AdvanceMoves DEF WriteClaim, After
    <3>2. \A u \in Active : ~Between(u) /\ (u \in claim <=> u \in registry)
      BY <2>2, <3>1 DEF Between, Orderly, Agree
    <3>3. \A u \in Active : Between(u)' <=> u = calls[c].user
      BY <2>2, <3>1 DEF Between, Onward
    <3>4. \A u \in Active \ {calls[c].user} : u \in claim' <=> u \in registry'
      BY <3>1, <3>2 DEF ClaimsSet
    <3>5. calls[c].user \in claim' <=> calls'[c].enabled
      BY <2>2, <3>1 DEF ClaimsSet, Onward
    <3>6. UnderWay' = {c}
      BY <2>2, <3>1 DEF Onward
    <3>7. Alone' /\ AmidActive' /\ NoneLeaving' /\ Active' = Active
      BY <2>3, <3>1
    <3>8. Agree'
      BY <3>1, <3>3, <3>4, <3>5, <3>6, <3>7 DEF Agree, Onward
    <3> QED  BY <2>2, <3>1, <3>7, <3>8 DEF Orderly
  <2>6. CASE WriteRegistry(c)
    <3>1. /\ IF calls[c].enabled THEN CallEnded(c) ELSE Onward(c, "purge")
          /\ registry' = IF calls[c].enabled THEN registry \cup {calls[c].user} ELSE registry \ {calls[c].user}
          /\ claim' = claim /\ calls[c].at = "registry"
      BY <2>1, <2>6, AdvanceMoves DEF WriteRegistry, After
    <3>2. \A u \in Active \ {calls[c].user} : ~Between(u) /\ (u \in claim <=> u \in registry)
      BY <2>2 DEF Between, Orderly, Agree
    <3>3. calls[c].user \in claim <=> calls[c].enabled
      BY <2>1, <2>2, <3>1 DEF Orderly, Agree
    <3>4. \A u \in Active : ~Between(u)' /\ (u \in claim' <=> u \in registry')
      BY <2>2, <3>1, <3>2, <3>3 DEF Between, CallEnded, Onward
    <3>5. registry' \subseteq Active
      BY <2>2, <3>1
    <3>6. Alone' /\ AmidActive' /\ NoneLeaving' /\ Active' = Active
      BY <2>3, <3>1
    <3>7. Agree'
      BY <3>4, <3>6 DEF Agree, Between
    <3> QED  BY <3>5, <3>6, <3>7 DEF Orderly
  <2>7. CASE PurgeRows(c)
    <3>1. CallEnded(c) /\ UNCHANGED <<claim, registry>> /\ calls[c].at = "purge"
      BY <2>1, <2>7, AdvanceMoves DEF PurgeRows, After
    <3>2. \A u \in Active : ~Between(u) /\ ~Between(u)'
      BY <2>2, <3>1 DEF Between, CallEnded
    <3> QED  BY <2>2, <2>3, <3>1, <3>2 DEF Orderly, Agree, Between
  <2> QED  BY <2>4, <2>5, <2>6, <2>7 DEF CallStep
<1> QED  BY <1>1, <1>2, <1>3

LEMMA BeginOrderly ==
    ASSUME RosterTypeOK, Orderly, NEW c \in Calls, NEW m \in Users, NEW u \in Users, NEW enabled \in BOOLEAN,
           Begin(c, m, u, enabled)
    PROVE  Orderly'
<1> SUFFICES ASSUME ~disturbed' PROVE Alone' /\ AmidActive' /\ NoneLeaving' /\ Agree' /\ registry' \subseteq Active'
  BY DEF Orderly
<1>1. ~disturbed /\ UnderWay = {} /\ \A x \in Users : ~Leaving(x)
  BY DEF Begin
<1>2. UnderWay' = {c} /\ calls'[c].user = u /\ calls'[c].at \in {"claim", "count"}
  BY <1>1 DEF Begin, RosterTypeOK, UnderWay
<1>3. account[u] = "active"
  BY <1>1 DEF Begin, RosterTypeOK, Leaving
<1>4. UNCHANGED <<claim, registry, account>> /\ Active' = Active
  BY DEF Begin, Active
<1>5. \A x \in Active : ~Between(x) /\ ~Between(x)'
  BY <1>1, <1>2 DEF Between
<1>6. Agree'
  BY <1>1, <1>2, <1>4, <1>5 DEF Orderly, Agree
<1> QED  BY <1>1, <1>2, <1>3, <1>4, <1>6 DEF Orderly, Alone, AmidActive, NoneLeaving, Leaving

(* An account is deleted beside no call, or the time is disturbed.         *)
LEMMA DeletionOrderly ==
    ASSUME RosterTypeOK, Orderly, NEW u \in Users, MarkAccount(u) \/ EmptyAccount(u) \/ DeleteAuthUser(u)
    PROVE  Orderly'
<1> SUFFICES ASSUME ~disturbed' PROVE Alone' /\ AmidActive' /\ NoneLeaving' /\ Agree' /\ registry' \subseteq Active'
  BY DEF Orderly
<1>1. ~disturbed /\ UnderWay = {} /\ calls' = calls
  BY DEF MarkAccount, EmptyAccount, DeleteAuthUser
<1>2. UnderWay' = {}
  BY <1>1 DEF UnderWay
<1>3. \A x \in Active : x \in claim <=> x \in registry
  BY <1>1 DEF Orderly, Agree, Between
<1>4. Active' = Active \ {u}
  BY DEF MarkAccount, EmptyAccount, DeleteAuthUser, RosterTypeOK, Active
<1>5. registry' \subseteq registry /\ u \notin registry' /\ registry \ {u} \subseteq registry'
  BY <1>1 DEF MarkAccount, EmptyAccount, DeleteAuthUser, Orderly, Active
<1>6. \A x \in Active' : x \in claim' <=> x \in claim
  BY <1>4 DEF MarkAccount, EmptyAccount, DeleteAuthUser
<1>7. registry' \subseteq Active'
  BY <1>1, <1>4, <1>5 DEF Orderly
<1>8. Agree'
  BY <1>2, <1>3, <1>4, <1>5, <1>6 DEF Agree
<1> QED  BY <1>2, <1>7, <1>8 DEF Alone, AmidActive, NoneLeaving

(* Claim and registry say the same of every active account once nothing is *)
(* in flight, if no call died or overlapped with another or a deletion.    *)
THEOREM RostersAgree == RosterSpec => []RosterAgrees
<1>1. RosterInit => Orderly
  <2> SUFFICES ASSUME RosterInit PROVE Orderly
    OBVIOUS
  <2>1. UnderWay = {} /\ registry \subseteq Active /\ claim = registry
    BY RosterAssumptions DEF RosterInit, UnderWay, Free, Active
  <2> QED  BY <2>1 DEF Orderly, Alone, AmidActive, NoneLeaving, Agree, Between
<1>2. RosterTypeOK /\ Orderly /\ [RosterNext]_rosterVars => Orderly'
  <2> SUFFICES ASSUME RosterTypeOK, Orderly, [RosterNext]_rosterVars PROVE Orderly'
    OBVIOUS
  <2>1. ASSUME UNCHANGED <<registry, account, calls, disturbed>>, claim' = claim PROVE Orderly'
    BY <2>1 DEF Orderly, Alone, AmidActive, NoneLeaving, Agree, Active, UnderWay, Between, Leaving
  <2>2. ASSUME NEW u \in Users, SignIn(u) \/ Fanout(u) PROVE Orderly'
    BY <2>1, <2>2 DEF SignIn, Fanout
  <2>3. CASE UNCHANGED rosterVars
    BY <2>1, <2>3 DEF rosterVars
  <2> QED  BY <2>2, <2>3, StepOrderly, BeginOrderly, DeletionOrderly DEF RosterNext
<1>3. Orderly => RosterAgrees
  BY DEF Orderly, RosterAgrees, Agree, Between
<1> QED  BY <1>1, <1>2, <1>3, RosterTypeCorrect, PTL DEF RosterSpec
-----------------------------------------------------------------------------
Busy(w) == workers[w].at # "idle"

(* The job an instance read was queued, and its generation is the job's or *)
(* an older one; the same generation stands for the same checkpoint.       *)
Copies ==
    \A w \in Workers : Busy(w) =>
        LET copy == workers[w].job
            job == jobs[workers[w].name] IN
        /\ copy.status = "queued" /\ copy.stage # 4
        /\ copy.generation <= job.generation
        /\ copy.generation = job.generation => copy.stage = job.stage /\ copy.cursor = job.cursor

(* A page lies behind the cursor it was read at.                           *)
Pages ==
    \A w \in Workers : workers[w].at \in {"write", "advance"} =>
        \A c \in workers[w].page : c > workers[w].job.cursor

(* A job that went through every stage has no cursor; a complete one has.  *)
Ended ==
    \A n \in Names : /\ jobs[n].status = "complete" => jobs[n].stage = 4
                     /\ jobs[n].stage = 4 => jobs[n].cursor = 0

Checkpoints == TypeOK /\ Copies /\ Pages /\ Ended

(* What one step of advanceJob makes of a well-typed job.                  *)
LEMMA AdvancedJob ==
    ASSUME NEW job \in Job, job.stage # 4, NEW page \in SUBSET Contents,
           NEW next \in NextCursors(page)
    PROVE  /\ Advanced(job, page, next) \in Job
           /\ Advanced(job, page, next).generation = job.generation + 1
           /\ Advanced(job, page, next).status \in {"queued", "complete"}
           /\ Advanced(job, page, next).status = "queued" <=> Advanced(job, page, next).stage # 4
           /\ Advanced(job, page, next).stage = 4 => Advanced(job, page, next).cursor = 0
           /\ next \in Nat
<1>1. next \in Nat
  BY RenameAssumptions DEF NextCursors
<1>2. NextStage(job, page) \in Stages /\ NextStage(job, page) \in {job.stage, job.stage + 1}
  BY DEF NextStage, Job, Stages
<1>3. NextStage(job, page) = 4 => next = 0
  BY DEF NextStage, NextCursors
<1> QED  BY <1>1, <1>2, <1>3 DEF Advanced, Job

(* A job that is queued again stands before some stage.                    *)
LEMMA QueuedJob ==
    ASSUME NEW job \in Job
    PROVE  /\ Queued(job) \in Job
           /\ Queued(job).status = "queued" /\ Queued(job).stage # 4
           /\ Queued(job).generation = job.generation + 1
           /\ \/ Queued(job).stage = job.stage /\ Queued(job).cursor = job.cursor
              \/ /\ Queued(job).stage = 1 /\ Queued(job).cursor \in {0, job.cursor}
                 /\ job.status = "complete" \/ job.stage = 4
<1> DEFINE again == Restarted(job)
<1>1. /\ again \in Job /\ again.stage # 4 /\ again.generation = job.generation
      /\ \/ again.stage = job.stage /\ again.cursor = job.cursor
         \/ /\ again.stage = 1 /\ again.cursor \in {0, job.cursor}
            /\ job.status = "complete" \/ job.stage = 4
  <2>1. CASE job.status = "complete"
    <3>1. again = [status |-> job.status, stage |-> 1, cursor |-> 0,
                   generation |-> job.generation]
      BY <2>1 DEF Restarted, Job
    <3> HIDE DEF again
    <3> QED  BY <3>1, <2>1 DEF Job, Stages
  <2>2. CASE job.status # "complete"
    <3>1. again = [job EXCEPT !.stage = IF job.stage = 4 THEN 1 ELSE job.stage]
      BY <2>2 DEF Restarted
    <3> QED  BY <3>1 DEF Job, Stages
  <2> QED  BY <2>1, <2>2
<1> HIDE DEF again
<1>2. Queued(job) = [status |-> "queued", stage |-> again.stage, cursor |-> again.cursor,
                     generation |-> again.generation + 1]
  <2>1. Queued(job) = [again EXCEPT !.status = "queued", !.generation = again.generation + 1]
    BY DEF Queued, again
  <2> QED  BY <1>1, <2>1 DEF Job
<1> QED  BY <1>1, <1>2 DEF Job

(* A batch of documents is a page of this destination's contents.          *)
LEMMA PageOfContents ==
    ASSUME NEW job \in Job, NEW page \in SUBSET Remaining(job)
    PROVE  page \in SUBSET Contents /\ \A c \in page : c > job.cursor
BY DEF Remaining, OfStage, Contents

LEMMA InitCheckpoints == Init => Checkpoints
BY RenameAssumptions DEF Init, Checkpoints, TypeOK, Copies, Pages, Ended, Busy, City, Job,
   NoJob, Worker, Idle, Stages

LEMMA CheckpointsKept == Checkpoints /\ [Next]_vars => Checkpoints'
<1> SUFFICES ASSUME Checkpoints, [Next]_vars PROVE Checkpoints'
  OBVIOUS
<1> USE RenameAssumptions
<1>n. NoJob \in Job /\ Idle \in Worker
  BY DEF NoJob, Job, Idle, Worker, Stages
<1>1. ASSUME NEW n \in Names, Rename(n) PROVE Checkpoints'
  <2>1. /\ Queued(jobs[n]) \in Job /\ Queued(jobs[n]).status = "queued"
        /\ Queued(jobs[n]).stage # 4
        /\ Queued(jobs[n]).generation = jobs[n].generation + 1
    BY QueuedJob DEF Checkpoints, TypeOK
  <2>2. jobs' \in [Names -> Job] /\ city' \in City /\ requests' \in 0..MaxRequests
    BY <1>1, <2>1 DEF Checkpoints, TypeOK, Rename, City
  <2>3. \A m \in Names : jobs'[m] = jobs[m] \/ (m = n /\ jobs'[m] = Queued(jobs[n]))
    BY <1>1 DEF Rename, Checkpoints, TypeOK
  <2>4. TypeOK'
    BY <1>1, <2>1, <2>2, <2>3 DEF Checkpoints, TypeOK, Rename
  <2>5. Copies'
    BY <1>1, <2>1, <2>3 DEF Checkpoints, TypeOK, Rename, Copies, Busy, Worker, Job
  <2>6. Pages' /\ Ended'
    BY <1>1, <2>1, <2>3 DEF Checkpoints, TypeOK, Rename, Pages, Ended
  <2> QED  BY <2>4, <2>5, <2>6 DEF Checkpoints
<1>2. ASSUME UNCHANGED <<jobs, workers>>, TypeOK' PROVE Checkpoints'
  BY <1>2 DEF Checkpoints, Copies, Pages, Ended, Busy
<1>3. ASSUME NEW c \in Contents, SaveContent(c) \/ LeaveCity(c) PROVE Checkpoints'
  <2>1. TypeOK'
    BY <1>3 DEF Checkpoints, TypeOK, SaveContent, LeaveCity, NameAtSave, City
  <2> QED  BY <1>2, <1>3, <2>1 DEF SaveContent, LeaveCity
<1>4. ASSUME StartRefresh \/ FinishRefresh PROVE Checkpoints'
  <2>1. TypeOK'
    BY <1>4 DEF Checkpoints, TypeOK, StartRefresh, FinishRefresh, Refreshed, City
  <2> QED  BY <1>2, <1>4, <2>1 DEF StartRefresh, FinishRefresh
<1>5. ASSUME NEW w \in Workers, NEW n \in Names, Take(w, n) PROVE Checkpoints'
  <2>1. TypeOK'
    BY <1>5 DEF Checkpoints, TypeOK, Take, Worker
  <2>2. Copies'
    BY <1>5 DEF Checkpoints, TypeOK, Copies, Busy, Take, Worker, Job
  <2>3. Pages' /\ Ended'
    BY <1>5 DEF Checkpoints, TypeOK, Pages, Ended, Take
  <2> QED  BY <2>1, <2>2, <2>3 DEF Checkpoints
<1>6. ASSUME NEW w \in Workers, workers' = [workers EXCEPT ![w] = Idle], jobs' = jobs, TypeOK'
      PROVE  Checkpoints'
  <2>1. workers'[w].at = "idle" /\ \A v \in Workers : v # w => workers'[v] = workers[v]
    BY <1>6 DEF Checkpoints, TypeOK, Idle
  <2>2. Copies' /\ Pages'
    BY <1>6, <2>1 DEF Checkpoints, Copies, Pages, Busy
  <2> QED  BY <1>6, <2>2 DEF Checkpoints, Ended
<1>7. ASSUME NEW w \in Workers, NEW at, workers' = [workers EXCEPT ![w].at = at],
             Busy(w), at \in {"write", "advance"} => workers[w].at \in {"write", "advance"},
             jobs' = jobs, TypeOK'
      PROVE  Checkpoints'
  <2>1. /\ workers'[w].job = workers[w].job /\ workers'[w].name = workers[w].name
        /\ workers'[w].page = workers[w].page /\ workers'[w].at = at
        /\ \A v \in Workers : v # w => workers'[v] = workers[v]
    BY <1>7 DEF Checkpoints, TypeOK, Worker
  <2>2. Copies'
    BY <1>7, <2>1 DEF Checkpoints, Copies, Busy
  <2>3. Pages'
    BY <1>7, <2>1 DEF Checkpoints, Pages
  <2> QED  BY <1>7, <2>2, <2>3 DEF Checkpoints, Ended
<1>8. ASSUME NEW w \in Workers, CheckCity(w) PROVE Checkpoints'
  <2>1. TypeOK' /\ AfterCheck(workers[w].name) \in {"query", "supersede"}
    BY <1>8 DEF Checkpoints, TypeOK, CheckCity, Goto, Worker, AfterCheck
  <2> QED  BY <1>7, <1>8, <2>1 DEF CheckCity, Goto, Busy
<1>9. ASSUME NEW w \in Workers, Supersede(w) PROVE Checkpoints'
  <2>1. workers[w].name \in Names
    BY DEF Checkpoints, TypeOK, Worker
  <2>2. \A m \in Names : /\ jobs'[m].stage = jobs[m].stage /\ jobs'[m].cursor = jobs[m].cursor
                         /\ jobs'[m].generation = jobs[m].generation
                         /\ jobs'[m].status \in {jobs[m].status, "superseded"}
                         /\ jobs'[m] \in Job
    BY <1>9, <2>1 DEF Supersede, Checkpoints, TypeOK, Job
  <2>3. TypeOK'
    BY <1>9, <1>n, <2>1, <2>2 DEF Supersede, Checkpoints, TypeOK
  <2>4. workers'[w].at = "idle" /\ \A v \in Workers : v # w => workers'[v] = workers[v]
    BY <1>9 DEF Supersede, Checkpoints, TypeOK, Idle
  <2>5. Copies'
    BY <2>2, <2>4 DEF Checkpoints, TypeOK, Worker, Copies, Busy
  <2>6. Pages' /\ Ended'
    BY <2>2, <2>4 DEF Checkpoints, Pages, Ended
  <2> QED  BY <2>3, <2>5, <2>6 DEF Checkpoints
<1>10. ASSUME NEW w \in Workers, ReadPage(w) PROVE Checkpoints'
  <2>1. PICK page \in SUBSET Remaining(workers[w].job) :
          workers' = [workers EXCEPT ![w].page = page, ![w].at = "write"]
    BY <1>10 DEF ReadPage
  <2>2. workers[w].job \in Job /\ page \in SUBSET Contents
        /\ \A c \in page : c > workers[w].job.cursor
    BY <2>1, PageOfContents DEF Checkpoints, TypeOK, Worker
  <2>3. /\ workers'[w].job = workers[w].job /\ workers'[w].name = workers[w].name
        /\ workers'[w].page = page /\ workers'[w].at = "write"
        /\ \A v \in Workers : v # w => workers'[v] = workers[v]
    BY <2>1 DEF Checkpoints, TypeOK, Worker
  <2>4. TypeOK'
    BY <1>10, <2>1, <2>2 DEF ReadPage, Checkpoints, TypeOK, Worker
  <2>5. workers[w].at = "query" /\ jobs' = jobs
    BY <1>10 DEF ReadPage
  <2>6. Copies'
    BY <2>3, <2>5 DEF Checkpoints, Copies, Busy
  <2>7. Pages'
    BY <2>2, <2>3 DEF Checkpoints, Pages
  <2>8. Ended'
    BY <2>5 DEF Checkpoints, Ended
  <2> QED  BY <2>4, <2>6, <2>7, <2>8 DEF Checkpoints
<1>11. ASSUME NEW w \in Workers, WritePage(w) PROVE Checkpoints'
  <2>1. TypeOK'
    BY <1>11 DEF WritePage, Goto, Checkpoints, TypeOK, Worker
  <2> QED  BY <1>7, <1>11, <2>1 DEF WritePage, Goto, Busy
<1>12. ASSUME NEW w \in Workers, PageFails(w) PROVE Checkpoints'
  <2>1. TypeOK'
    BY <1>12 DEF PageFails, Goto, Checkpoints, TypeOK, Worker
  <2> QED  BY <1>7, <1>12, <2>1 DEF PageFails, Goto, Busy
<1>13. ASSUME NEW w \in Workers, Advance(w) PROVE Checkpoints'
  <2>1. PICK next \in NextCursors(workers[w].page) :
          jobs' = IF SameJob(w)
                  THEN [jobs EXCEPT ![workers[w].name] =
                          Advanced(workers[w].job, workers[w].page, next)]
                  ELSE jobs
    BY <1>13 DEF Advance
  <2>2. workers' = [workers EXCEPT ![w] = Idle]
    BY <1>13 DEF Advance
  <2>3. CASE ~SameJob(w)
    <3>1. jobs' = jobs
      BY <2>1, <2>3
    <3>2. TypeOK'
      BY <1>13, <1>n, <2>2, <3>1 DEF Advance, Checkpoints, TypeOK
    <3> QED  BY <1>6, <2>2, <3>1, <3>2
  <2>4. CASE SameJob(w)
    <3> DEFINE n == workers[w].name
               new == Advanced(workers[w].job, workers[w].page, next)
    <3>1. n \in Names /\ workers[w].job \in Job /\ workers[w].page \in SUBSET Contents
          /\ workers[w].job.stage # 4
      BY <1>13 DEF Checkpoints, TypeOK, Worker, Copies, Busy, Advance
    <3>2. /\ new \in Job /\ new.generation = workers[w].job.generation + 1
          /\ new.status \in {"queued", "complete"}
          /\ new.status = "queued" <=> new.stage # 4
          /\ new.stage = 4 => new.cursor = 0
      BY <3>1, AdvancedJob
    <3>3. jobs' = [jobs EXCEPT ![n] = new] /\ jobs[n].generation = workers[w].job.generation
      BY <2>1, <2>4 DEF SameJob
    <3> HIDE DEF new
    <3>4. jobs'[n] = new /\ \A m \in Names : m # n => jobs'[m] = jobs[m]
      BY <3>1, <3>3 DEF Checkpoints, TypeOK
    <3>5. TypeOK'
      BY <1>13, <1>n, <2>2, <3>1, <3>2, <3>3, <3>4 DEF Advance, Checkpoints, TypeOK
    <3>6. workers'[w].at = "idle" /\ \A v \in Workers : v # w => workers'[v] = workers[v]
      BY <2>2 DEF Checkpoints, TypeOK, Idle
    <3>7. ASSUME NEW v \in Workers, Busy(v)'
          PROVE  /\ workers'[v].job.status = "queued" /\ workers'[v].job.stage # 4
                 /\ workers'[v].job.generation <= jobs'[workers'[v].name].generation
                 /\ workers'[v].job.generation = jobs'[workers'[v].name].generation =>
                      /\ workers'[v].job.stage = jobs'[workers'[v].name].stage
                      /\ workers'[v].job.cursor = jobs'[workers'[v].name].cursor
      <4>1. v # w /\ workers'[v] = workers[v] /\ Busy(v)
        BY <3>6, <3>7 DEF Busy
      <4>2. /\ workers[v].job \in Job /\ workers[v].name \in Names
            /\ jobs[workers[v].name] \in Job
        BY DEF Checkpoints, TypeOK, Worker
      <4>3. CASE workers[v].name = n
        BY <4>1, <4>2, <4>3, <3>1, <3>2, <3>3, <3>4 DEF Checkpoints, Copies, Job
      <4>4. CASE workers[v].name # n
        BY <4>1, <4>2, <4>4, <3>4 DEF Checkpoints, Copies
      <4> QED  BY <4>3, <4>4
    <3>8. Copies'
      BY <3>7 DEF Copies
    <3>9. Pages' /\ Ended'
      BY <3>1, <3>2, <3>4, <3>6 DEF Checkpoints, Pages, Ended
    <3> QED  BY <3>5, <3>8, <3>9 DEF Checkpoints
  <2> QED  BY <2>3, <2>4
<1>14. ASSUME NEW w \in Workers, Fail(w) PROVE Checkpoints'
  <2>1. workers[w].name \in Names
    BY DEF Checkpoints, TypeOK, Worker
  <2>2. \A m \in Names : /\ jobs'[m].stage = jobs[m].stage /\ jobs'[m].cursor = jobs[m].cursor
                         /\ jobs'[m].generation = jobs[m].generation
                         /\ jobs'[m].status \in {jobs[m].status, "failed"}
                         /\ jobs'[m] \in Job
    BY <1>14, <2>1 DEF Fail, Checkpoints, TypeOK, Job
  <2>3. jobs' \in [Names -> Job] /\ workers' \in [Workers -> Worker]
    BY <1>14, <1>n, <2>1, <2>2 DEF Fail, Checkpoints, TypeOK
  <2>4. TypeOK'
    BY <1>14, <2>2, <2>3 DEF Fail, Checkpoints, TypeOK
  <2>5. workers'[w].at = "idle" /\ \A v \in Workers : v # w => workers'[v] = workers[v]
    BY <1>14 DEF Fail, Checkpoints, TypeOK, Idle
  <2>6. Copies'
    BY <2>2, <2>5 DEF Checkpoints, TypeOK, Worker, Copies, Busy
  <2>7. Pages' /\ Ended'
    BY <2>2, <2>5 DEF Checkpoints, Pages, Ended
  <2> QED  BY <2>4, <2>6, <2>7 DEF Checkpoints
<1>15. ASSUME NEW w \in Workers, Die(w) PROVE Checkpoints'
  <2>1. TypeOK'
    BY <1>15, <1>n DEF Die, Checkpoints, TypeOK
  <2> QED  BY <1>6, <1>15, <2>1 DEF Die
<1>16. CASE UNCHANGED vars
  <2>1. TypeOK'
    BY <1>16 DEF vars, Checkpoints, TypeOK
  <2> QED  BY <1>2, <1>16, <2>1 DEF vars
<1> QED
  BY <1>1, <1>3, <1>4, <1>5, <1>8, <1>9, <1>10, <1>11, <1>12, <1>13, <1>14, <1>15, <1>16
     DEF Next, WorkerStep

LEMMA CheckpointsHold == Spec => []Checkpoints
BY InitCheckpoints, CheckpointsKept, PTL DEF Spec

(* Every reachable state is well typed, and a queued job stands before a   *)
(* stage that is still to be done.                                         *)
THEOREM RenameTypeCorrect == Spec => []TypeOK
<1>1. Checkpoints => TypeOK
  BY DEF Checkpoints
<1> QED  BY <1>1, CheckpointsHold, PTL

(* A checkpoint moves to the last document of the page, which lies behind  *)
(* the cursor, or to the next stage.                                       *)
LEMMA AdvanceMovesOn ==
    ASSUME Checkpoints, NEW w \in Workers, Advance(w), NEW n \in Names
    PROVE  ~Before(jobs'[n], jobs[n])
<1>1. PICK next \in NextCursors(workers[w].page) :
        jobs' = IF SameJob(w)
                THEN [jobs EXCEPT ![workers[w].name] =
                        Advanced(workers[w].job, workers[w].page, next)]
                ELSE jobs
  BY DEF Advance
<1>2. workers[w].job \in Job /\ workers[w].name \in Names /\ jobs[n] \in Job
  BY DEF Checkpoints, TypeOK, Worker
<1>3. CASE SameJob(w) /\ n = workers[w].name
  <2>1. jobs'[n] = Advanced(workers[w].job, workers[w].page, next)
    BY <1>1, <1>2, <1>3 DEF Checkpoints, TypeOK
  <2>2. workers[w].job.stage = jobs[n].stage /\ workers[w].job.cursor = jobs[n].cursor
    BY <1>3 DEF Checkpoints, Copies, Busy, Advance, SameJob
  <2>3. CASE LastPage(workers[w].page)
    BY <2>1, <2>2, <2>3, <1>2 DEF Advanced, NextStage, Before, Job, Stages
  <2>4. CASE ~LastPage(workers[w].page)
    <3>1. next > workers[w].job.cursor /\ next \in Nat
      BY <2>4, RenameAssumptions DEF NextCursors, Checkpoints, Pages, Advance, TypeOK, Worker
    <3> QED  BY <2>1, <2>2, <2>4, <3>1, <1>2 DEF Advanced, NextStage, Before, Job, Stages
  <2> QED  BY <2>3, <2>4
<1>4. CASE ~SameJob(w) \/ n # workers[w].name
  <2>1. jobs'[n] = jobs[n]
    BY <1>1, <1>2, <1>4 DEF Checkpoints, TypeOK
  <2> QED  BY <2>1, <1>2 DEF Before, Job, Stages
<1> QED  BY <1>3, <1>4

(* Of the steps of the specification only a rename may put a job back, and *)
(* only one that went through every stage.                                 *)
LEMMA OnlyRenameGoesBack ==
    ASSUME Checkpoints, Next, NEW n \in Names, Before(jobs'[n], jobs[n])
    PROVE  jobs[n].stage = 4
<1>1. jobs[n] \in Job
  BY DEF Checkpoints, TypeOK
<1>2. ASSUME NEW m \in Names, Rename(m) PROVE jobs[n].stage = 4
  <2>1. jobs'[n] \in {jobs[n], Queued(jobs[n])}
    BY <1>2 DEF Rename, Checkpoints, TypeOK
  <2>2. \/ Queued(jobs[n]).stage = jobs[n].stage /\ Queued(jobs[n]).cursor = jobs[n].cursor
        \/ jobs[n].status = "complete" \/ jobs[n].stage = 4
    BY <1>1, QueuedJob
  <2> QED  BY <1>1, <2>1, <2>2 DEF Before, Job, Stages, Checkpoints, Ended
<1>3. ASSUME \A m \in Names : jobs'[m].stage = jobs[m].stage /\ jobs'[m].cursor = jobs[m].cursor
      PROVE  jobs[n].stage = 4
  BY <1>1, <1>3 DEF Before, Job, Stages
<1>4. ASSUME NEW w \in Workers, Supersede(w) \/ Fail(w) PROVE jobs[n].stage = 4
  <2>1. \A m \in Names : jobs'[m].stage = jobs[m].stage /\ jobs'[m].cursor = jobs[m].cursor
    <3>1. workers[w].name \in Names /\ \A m \in Names : jobs[m] \in Job
      BY DEF Checkpoints, TypeOK, Worker
    <3>2. CASE Supersede(w)
      BY <3>1, <3>2 DEF Supersede, Checkpoints, TypeOK, Job
    <3>3. CASE Fail(w)
      BY <3>1, <3>3 DEF Fail, Checkpoints, TypeOK, Job
    <3> QED  BY <1>4, <3>2, <3>3
  <2> QED  BY <1>3, <2>1
<1> QED
  BY <1>2, <1>3, <1>4, AdvanceMovesOn
     DEF Next, WorkerStep, SaveContent, LeaveCity, StartRefresh, FinishRefresh, Take,
         CheckCity, ReadPage, WritePage, PageFails, Die

(* However many instances hold old copies of a job, its checkpoint moves   *)
(* forward only.                                                           *)
THEOREM CheckpointsAdvance == Spec => CheckpointNeverRewinds
<1>1. Checkpoints /\ [Next]_vars =>
        [\A n \in Names : Before(jobs'[n], jobs[n]) => jobs[n].stage = 4]_vars
  BY OnlyRenameGoesBack
<1> QED  BY <1>1, CheckpointsHold, PTL DEF Spec, CheckpointNeverRewinds
-----------------------------------------------------------------------------
(***************************************************************************)
(* One requested name and no cache refresh.                                *)
(***************************************************************************)
StageOf(c) == IF c \in Recommendations THEN 1 ELSE IF c \in Routes THEN 2 ELSE 3
Passed(c, stage, cursor) == StageOf(c) < stage \/ (StageOf(c) = stage /\ c <= cursor)
Shows(c, n) == content[c] \in Names => content[c] = n

(* Only the job of that name exists, and then the name is canonical.       *)
OneName(n) ==
    /\ \A m \in Names : m # n => jobs[m].status = "none"
    /\ jobs[n].status # "none" => StillCanonical(n)
    /\ jobs[n].status = "none" => jobs[n] = NoJob
    /\ refresh = {}
    /\ \A w \in Workers : Busy(w) => workers[w].name = n /\ jobs[n].status # "none"

(* Documents behind the checkpoint show the name.                          *)
PassedShow(n) ==
    jobs[n].status # "none" =>
        \A c \in Contents : Passed(c, jobs[n].stage, jobs[n].cursor) => Shows(c, n)

(* So do those an instance skipped with its page, and, once it is written, *)
(* those of the page.                                                      *)
PageShows(n) ==
    \A w \in Workers : workers[w].at \in {"write", "advance"} =>
        /\ \A c \in OfStage(workers[w].job.stage) :
            c > workers[w].job.cursor /\ c \notin workers[w].page =>
                \/ Shows(c, n)
                \/ /\ ~LastPage(workers[w].page)
                   /\ \A d \in workers[w].page : d < c
        /\ workers[w].at = "advance" => \A c \in workers[w].page : Shows(c, n)

Carried(n) == Checkpoints /\ OneName(n) /\ PassedShow(n) /\ PageShows(n)

LEMMA InitCarried ==
    ASSUME NEW n \in Names, Init
    PROVE  Carried(n)
BY InitCheckpoints, RenameAssumptions
   DEF Init, Carried, OneName, PassedShow, PageShows, Busy, NoJob, Idle

(* Content only takes the name or leaves the destination: whatever shows   *)
(* the name goes on showing it.                                            *)
LEMMA ContentKeeps ==
    ASSUME NEW n \in Names, Carried(n), jobs' = jobs,
           \A v \in Workers : /\ workers'[v].at = workers[v].at
                             /\ workers'[v].name = workers[v].name
                             /\ workers'[v].job = workers[v].job
                             /\ workers'[v].page = workers[v].page,
           \A c \in Contents : Shows(c, n) => Shows(c, n)'
    PROVE  PassedShow(n)' /\ PageShows(n)'
<1>1. PassedShow(n)'
  BY DEF Carried, PassedShow
<1>2. \A w \in Workers : OfStage(workers[w].job.stage) \subseteq Contents
                         /\ workers[w].page \subseteq Contents
  BY DEF Carried, Checkpoints, TypeOK, Worker, OfStage, Contents
<1>3. PageShows(n)'
  BY <1>2 DEF Carried, PageShows
<1> QED  BY <1>1, <1>3

LEMMA SaveCarried ==
    ASSUME NEW n \in Names, Carried(n), NEW c \in Contents, SaveContent(c) \/ LeaveCity(c)
    PROVE  Carried(n)'
<1>1. Checkpoints'
  BY CheckpointsKept DEF Carried, Next
<1>2. UNCHANGED <<city, jobs, workers, refresh>>
  BY DEF SaveContent, LeaveCity
<1>3. OneName(n)'
  BY <1>2 DEF Carried, OneName, StillCanonical, Busy
<1>4. CASE jobs[n].status = "none"
  BY <1>1, <1>2, <1>3, <1>4 DEF Carried, OneName, PassedShow, PageShows, Busy
<1>5. CASE jobs[n].status # "none"
  <2>1. city.name = n
    BY <1>5 DEF Carried, OneName, StillCanonical
  <2>2. content'[c] \in {n, Elsewhere, Gone} /\ \A d \in Contents : d # c => content'[d] = content[d]
    BY <2>1 DEF SaveContent, LeaveCity, NameAtSave, Carried, Checkpoints, TypeOK
  <2>3. \A d \in Contents : Shows(d, n) => Shows(d, n)'
    BY <2>2, RenameAssumptions DEF Shows
  <2> QED  BY <1>1, <1>2, <1>3, <2>3, ContentKeeps DEF Carried
<1> QED  BY <1>4, <1>5

LEMMA RenameCarried ==
    ASSUME NEW n \in Names, Carried(n), Rename(n)
    PROVE  Carried(n)'
<1>1. Checkpoints'
  BY CheckpointsKept DEF Carried, Next
<1>2. /\ city' = [name |-> n, source |-> "admin"] /\ UNCHANGED <<content, workers, refresh>>
      /\ jobs'[n] \in {jobs[n], Queued(jobs[n])}
      /\ \A m \in Names : m # n => jobs'[m] = jobs[m]
      /\ jobs'[n].status # "none"
  <2>1. jobs[n] \in Job
    BY DEF Carried, Checkpoints, TypeOK
  <2>2. Queued(jobs[n]).status = "queued"
    BY <2>1, QueuedJob
  <2> QED  BY <2>2 DEF Rename, Carried, Checkpoints, TypeOK
<1>3. OneName(n)'
  BY <1>2 DEF Carried, OneName, StillCanonical, Busy
<1>4. PageShows(n)'
  BY <1>2 DEF Carried, PageShows, Shows, OfStage
<1>5. PassedShow(n)'
  <2>1. CASE jobs'[n].stage = jobs[n].stage /\ jobs'[n].cursor = jobs[n].cursor
             /\ jobs[n].status # "none"
    BY <1>2, <2>1 DEF Carried, PassedShow, Shows, Passed, StageOf
  <2>2. CASE jobs'[n].stage = 1 /\ jobs'[n].cursor = 0
    <3>1. \A c \in Contents : ~Passed(c, 1, 0)
      BY RenameAssumptions DEF Passed, StageOf
    <3> QED  BY <2>2, <3>1 DEF PassedShow
  <2>3. \/ jobs'[n].stage = jobs[n].stage /\ jobs'[n].cursor = jobs[n].cursor
           /\ jobs[n].status # "none"
        \/ jobs'[n].stage = 1 /\ jobs'[n].cursor = 0
    <3>1. jobs[n] \in Job
      BY DEF Carried, Checkpoints, TypeOK
    <3>2. CASE jobs[n].status = "none"
      <4>1. jobs[n] = NoJob
        BY <3>2 DEF Carried, OneName
      <4>2. jobs'[n].stage = 1 /\ jobs'[n].cursor = 0
        BY <4>1, <3>1, <1>2, QueuedJob DEF NoJob
      <4> QED  BY <4>2
    <3>3. CASE jobs[n].status # "none"
      BY <3>1, <3>3, <1>2, QueuedJob DEF Carried, Checkpoints, Ended
    <3> QED  BY <3>2, <3>3
  <2> QED  BY <2>1, <2>2, <2>3
<1> QED  BY <1>1, <1>3, <1>4, <1>5 DEF Carried

(* Steps that leave the checkpoints and the content alone, and put no      *)
(* worker before the write or the check-off of a page.                     *)
LEMMA IdleCarried ==
    ASSUME NEW n \in Names, Carried(n), Checkpoints',
           UNCHANGED <<city, content, refresh>>,
           \A m \in Names : /\ jobs'[m].stage = jobs[m].stage
                            /\ jobs'[m].cursor = jobs[m].cursor
                            /\ jobs'[m].status = "none" <=> jobs[m].status = "none",
           jobs[n].status = "none" => jobs'[n] = jobs[n],
           \A v \in Workers :
                /\ Busy(v)' => workers'[v].name = n /\ jobs[n].status # "none"
                /\ workers'[v] = workers[v] \/ workers'[v].at \notin {"write", "advance"}
    PROVE  Carried(n)'
<1>1. OneName(n)'
  BY DEF Carried, OneName, StillCanonical
<1>2. PassedShow(n)'
  BY DEF Carried, PassedShow, Shows
<1>3. PageShows(n)'
  BY DEF Carried, PageShows, Shows, OfStage
<1> QED  BY <1>1, <1>2, <1>3 DEF Carried

LEMMA ReadCarried ==
    ASSUME NEW n \in Names, Carried(n), NEW w \in Workers, ReadPage(w)
    PROVE  Carried(n)'
<1>1. Checkpoints'
  BY CheckpointsKept DEF Carried, Next, WorkerStep
<1>2. PICK page \in SUBSET Remaining(workers[w].job) :
        /\ IsPage(page, Remaining(workers[w].job))
        /\ workers' = [workers EXCEPT ![w].page = page, ![w].at = "write"]
  BY DEF ReadPage
<1>3. /\ workers'[w].job = workers[w].job /\ workers'[w].name = workers[w].name
      /\ workers'[w].page = page /\ workers'[w].at = "write"
      /\ \A v \in Workers : v # w => workers'[v] = workers[v]
      /\ workers[w].at = "query" /\ UNCHANGED <<city, jobs, content, refresh>>
  BY <1>2 DEF ReadPage, Carried, Checkpoints, TypeOK, Worker
<1>4. OneName(n)' /\ PassedShow(n)'
  BY <1>3 DEF Carried, OneName, StillCanonical, Busy, PassedShow, Shows
<1>5. ASSUME NEW c \in OfStage(workers[w].job.stage), c > workers[w].job.cursor, c \notin page
      PROVE  Shows(c, n) \/ (~LastPage(page) /\ \A d \in page : d < c)
  <2>1. CASE content[c] \notin Names
    BY <2>1 DEF Shows
  <2>2. CASE content[c] \in Names
    <3>1. c \in Remaining(workers[w].job)
      BY <1>5, <2>2 DEF Remaining
    <3>2. ~LastPage(page)
      BY <1>2, <1>5, <3>1 DEF LastPage, IsPage
    <3>3. ASSUME NEW d \in page PROVE d < c
      <4>1. ~(c < d) /\ d # c
        BY <1>2, <1>5, <3>1 DEF IsPage
      <4>2. c \in Nat /\ d \in Nat
        BY <1>2, RenameAssumptions DEF Remaining, OfStage, Contents
      <4> QED  BY <4>1, <4>2
    <3> QED  BY <3>2, <3>3
  <2> QED  BY <2>1, <2>2
<1>6. PageShows(n)'
  BY <1>3, <1>5 DEF Carried, PageShows, Shows, OfStage
<1> QED  BY <1>1, <1>4, <1>6 DEF Carried

LEMMA WriteCarried ==
    ASSUME NEW n \in Names, Carried(n), NEW w \in Workers, WritePage(w)
    PROVE  Carried(n)'
<1>1. Checkpoints'
  BY CheckpointsKept DEF Carried, Next, WorkerStep
<1>2. /\ workers'[w].job = workers[w].job /\ workers'[w].name = workers[w].name
      /\ workers'[w].page = workers[w].page /\ workers'[w].at = "advance"
      /\ \A v \in Workers : v # w => workers'[v] = workers[v]
      /\ workers[w].at = "write" /\ UNCHANGED <<city, jobs, refresh>>
  BY DEF WritePage, Goto, Carried, Checkpoints, TypeOK, Worker
<1>3. workers[w].name = n /\ workers[w].page \subseteq Contents
  BY <1>2 DEF Carried, OneName, Busy, Checkpoints, TypeOK, Worker
<1>4. \A c \in Contents : content'[c] = IF c \in workers[w].page THEN n ELSE content[c]
  BY <1>3 DEF WritePage
<1>5. /\ \A c \in Contents : Shows(c, n) => Shows(c, n)'
      /\ \A c \in workers[w].page : Shows(c, n)'
  BY <1>3, <1>4 DEF Shows
<1>6. OneName(n)'
  BY <1>2 DEF Carried, OneName, StillCanonical, Busy
<1>7. PassedShow(n)'
  BY <1>2, <1>5 DEF Carried, PassedShow
<1>8. \A v \in Workers : OfStage(workers[v].job.stage) \subseteq Contents
                         /\ workers[v].page \subseteq Contents
  BY DEF Carried, Checkpoints, TypeOK, Worker, OfStage, Contents
<1>9. PageShows(n)'
  BY <1>2, <1>5, <1>8 DEF Carried, PageShows
<1> QED  BY <1>1, <1>6, <1>7, <1>9 DEF Carried

LEMMA AdvanceCarried ==
    ASSUME NEW n \in Names, Carried(n), NEW w \in Workers, Advance(w)
    PROVE  Carried(n)'
<1>1. Checkpoints'
  BY CheckpointsKept DEF Carried, Next, WorkerStep
<1>2. PICK next \in NextCursors(workers[w].page) :
        jobs' = IF SameJob(w)
                THEN [jobs EXCEPT ![workers[w].name] =
                        Advanced(workers[w].job, workers[w].page, next)]
                ELSE jobs
  BY DEF Advance
<1>3. /\ workers'[w] = Idle /\ \A v \in Workers : v # w => workers'[v] = workers[v]
      /\ workers[w].at = "advance" /\ UNCHANGED <<city, content, refresh>>
  BY DEF Advance, Carried, Checkpoints, TypeOK
<1>4. /\ workers[w].name = n /\ jobs[n].status # "none" /\ workers[w].job \in Job
      /\ workers[w].job.stage # 4 /\ workers[w].page \subseteq Contents
  BY <1>3 DEF Carried, OneName, Busy, Checkpoints, TypeOK, Worker, Copies
<1>5. CASE ~SameJob(w)
  <2>1. jobs' = jobs
    BY <1>2, <1>5
  <2> QED  BY <1>1, <1>3, <2>1, IdleCarried DEF Idle, Busy, Carried, OneName
<1>6. CASE SameJob(w)
  <2> DEFINE new == Advanced(workers[w].job, workers[w].page, next)
  <2>1. jobs'[n] = new /\ \A m \in Names : m # n => jobs'[m] = jobs[m]
    BY <1>2, <1>4, <1>6 DEF Carried, Checkpoints, TypeOK
  <2>2. new.status # "none"
    BY <1>4, AdvancedJob
  <2>3. workers[w].job.stage = jobs[n].stage /\ workers[w].job.cursor = jobs[n].cursor
    BY <1>3, <1>4, <1>6 DEF Carried, Checkpoints, Copies, Busy, SameJob
  <2>4. new.stage = NextStage(workers[w].job, workers[w].page) /\ new.cursor = next
    BY DEF Advanced
  <2> HIDE DEF new
  <2>5. OneName(n)'
    BY <1>3, <2>1, <2>2 DEF Carried, OneName, StillCanonical, Busy, Idle
  <2>6. PageShows(n)'
    BY <1>3 DEF Carried, PageShows, Shows, OfStage, Idle
  <2>7. ASSUME NEW c \in Contents, Passed(c, new.stage, new.cursor) PROVE Shows(c, n)
    <3>1. /\ StageOf(c) \in 1..3 /\ c \in OfStage(StageOf(c)) /\ c \in Nat \ {0}
          /\ jobs[n].stage \in Nat /\ jobs[n].cursor \in Nat /\ next \in Nat
      BY <1>4, AdvancedJob, RenameAssumptions
         DEF StageOf, OfStage, Contents, Carried, Checkpoints, TypeOK, Job, Stages
    <3>2. CASE Passed(c, jobs[n].stage, jobs[n].cursor)
      BY <1>4, <3>2 DEF Carried, PassedShow
    <3>3. CASE ~Passed(c, jobs[n].stage, jobs[n].cursor)
      <4>1. StageOf(c) = workers[w].job.stage /\ c > workers[w].job.cursor
            /\ (LastPage(workers[w].page) \/ c <= next)
        <5>1. CASE LastPage(workers[w].page)
          BY <2>3, <2>4, <2>7, <3>1, <3>3, <5>1 DEF Passed, NextStage, NextCursors
        <5>2. CASE ~LastPage(workers[w].page)
          BY <2>3, <2>4, <2>7, <3>1, <3>3, <5>2 DEF Passed, NextStage
        <5> QED  BY <5>1, <5>2
      <4>2. CASE c \in workers[w].page
        BY <1>3, <4>2 DEF Carried, PageShows
      <4>3. CASE c \notin workers[w].page
        <5>1. \/ Shows(c, n)
              \/ ~LastPage(workers[w].page) /\ \A d \in workers[w].page : d < c
          BY <1>3, <3>1, <4>1, <4>3 DEF Carried, PageShows
        <5>2. ~LastPage(workers[w].page) => next \in workers[w].page
          BY DEF NextCursors
        <5> QED  BY <3>1, <4>1, <5>1, <5>2
      <4> QED  BY <4>2, <4>3
    <3> QED  BY <3>2, <3>3
  <2>8. PassedShow(n)'
    BY <1>3, <2>1, <2>7 DEF PassedShow, Shows
  <2> QED  BY <1>1, <2>5, <2>6, <2>8 DEF Carried
<1> QED  BY <1>5, <1>6

LEMMA CarriedKept ==
    ASSUME NEW n \in Names, Requested = {n}, MayRefresh = FALSE, Carried(n), [Next]_vars
    PROVE  Carried(n)'
<1>1. Checkpoints'
  BY CheckpointsKept DEF Carried
<1>2. \A m \in Names : Rename(m) => m = n
  BY DEF Rename
<1>3. ~StartRefresh /\ ~FinishRefresh
  BY DEF StartRefresh, FinishRefresh, Carried, OneName
<1>4. ASSUME NEW w \in Workers, NEW m \in Names, Take(w, m) PROVE Carried(n)'
  <2>1. m = n /\ jobs[n].status # "none"
    BY <1>4 DEF Take, Carried, OneName
  <2> QED  BY <1>1, <1>4, <2>1, IdleCarried DEF Take, Carried, OneName, Busy, Checkpoints, TypeOK
<1>5. ASSUME NEW w \in Workers, NEW at, at \notin {"write", "advance"}, Busy(w),
             workers' = [workers EXCEPT ![w].at = at], UNCHANGED <<city, jobs, content, refresh>>
      PROVE  Carried(n)'
  <2>1. /\ workers'[w].name = workers[w].name /\ workers'[w].at = at
        /\ \A v \in Workers : v # w => workers'[v] = workers[v]
    BY <1>5 DEF Carried, Checkpoints, TypeOK, Worker
  <2> QED  BY <1>1, <1>5, <2>1, IdleCarried DEF Carried, OneName, Busy
<1>6. ASSUME NEW w \in Workers, workers' = [workers EXCEPT ![w] = Idle],
             UNCHANGED <<city, content, refresh>>,
             \A m \in Names : /\ jobs'[m].stage = jobs[m].stage
                              /\ jobs'[m].cursor = jobs[m].cursor
                              /\ jobs'[m].status = "none" <=> jobs[m].status = "none",
             jobs[n].status = "none" => jobs'[n] = jobs[n]
      PROVE  Carried(n)'
  <2>1. /\ workers'[w].at = "idle"
        /\ \A v \in Workers : v # w => workers'[v] = workers[v]
    BY <1>6 DEF Carried, Checkpoints, TypeOK, Idle
  <2> QED  BY <1>1, <1>6, <2>1, IdleCarried DEF Carried, OneName, Busy
<1>7. ASSUME NEW w \in Workers, CheckCity(w) \/ PageFails(w) PROVE Carried(n)'
  <2>1. CASE CheckCity(w)
    <3> DEFINE next == AfterCheck(workers[w].name)
    <3>1. next \notin {"write", "advance"}
      BY DEF AfterCheck
    <3>2. /\ Busy(w)
          /\ workers' = [workers EXCEPT ![w].at = next]
          /\ UNCHANGED <<city, jobs, content, refresh>>
      BY <2>1 DEF CheckCity, Goto, Busy
    <3> HIDE DEF next
    <3> QED  BY <1>5, <3>1, <3>2
  <2>2. CASE PageFails(w)
    BY <1>5, <2>2 DEF PageFails, Goto, Busy
  <2> QED  BY <1>7, <2>1, <2>2
<1>8. ASSUME NEW w \in Workers, Supersede(w) \/ Fail(w) PROVE Carried(n)'
  <2>1. workers[w].name = n /\ jobs[n].status # "none" /\ \A m \in Names : jobs[m] \in Job
    BY <1>8 DEF Supersede, Fail, Carried, OneName, Busy, Checkpoints, TypeOK
  <2>2. \A m \in Names : /\ jobs'[m].stage = jobs[m].stage
                         /\ jobs'[m].cursor = jobs[m].cursor
                         /\ jobs'[m].status = "none" <=> jobs[m].status = "none"
    <3>1. CASE Supersede(w)
      BY <2>1, <3>1 DEF Supersede, Carried, Checkpoints, TypeOK, Job
    <3>2. CASE Fail(w)
      BY <2>1, <3>2 DEF Fail, Carried, Checkpoints, TypeOK, Job
    <3> QED  BY <1>8, <3>1, <3>2
  <2> QED  BY <1>6, <1>8, <2>1, <2>2 DEF Supersede, Fail
<1>9. ASSUME NEW w \in Workers, Die(w) PROVE Carried(n)'
  BY <1>6, <1>9 DEF Die
<1>10. CASE UNCHANGED vars
  BY <1>1, <1>10, IdleCarried DEF vars, Carried, OneName, Busy
<1> QED
  BY <1>2, <1>3, <1>4, <1>7, <1>8, <1>9, <1>10, SaveCarried, RenameCarried, ReadCarried,
     WriteCarried, AdvanceCarried
     DEF Next, WorkerStep

(* With one requested name and no cache refresh, a complete job of the     *)
(* canonical name leaves no content of the destination under another: for  *)
(* any number of documents, instances, requests and failures.              *)
THEOREM OneNameIsCarried ==
    ASSUME NEW n \in Names, Requested = {n}, MayRefresh = FALSE
    PROVE  Spec => []CanonicalNameEverywhere
<1>1. Init => Carried(n)
  BY InitCarried
<1>2. Carried(n) /\ [Next]_vars => Carried(n)'
  BY CarriedKept
<1>3. Carried(n) => CanonicalNameEverywhere
  <2> SUFFICES ASSUME Carried(n), NEW m \in Names, jobs[m].status = "complete",
                      NEW c \in Contents, content[c] \in Names
               PROVE  content[c] = m
    BY DEF CanonicalNameEverywhere
  <2>1. m = n /\ jobs[n].stage = 4 /\ jobs[n].status # "none"
    BY DEF Carried, OneName, Checkpoints, Ended
  <2>2. Passed(c, 4, jobs[n].cursor)
    BY DEF Passed, StageOf
  <2> QED  BY <2>1, <2>2 DEF Carried, PassedShow, Shows
<1> QED  BY <1>1, <1>2, <1>3, PTL DEF Spec
=============================================================================
