------------------------- MODULE CommentThreadsProofs -------------------------
(***************************************************************************)
(* Theorems about CommentThreads, for any thread shapes, page size, number *)
(* of calls and deaths: a reply never outlives its root, a hold by name is *)
(* not lifted by the moderation of a thread, an account deletion that went *)
(* through leaves nothing of its author, a thread follows its root after a *)
(* moderation that ran alone, and both counters settle.                    *)
(***************************************************************************)
EXTENDS CommentThreads, FiniteSetTheorems, TLAPS

(* The strengthening.  A job is ready exactly as long as its root is       *)
(* marked, and complete only when the root is gone.                        *)
Marked == \A r \in Roots :
    /\ job[r].state = "ready" <=> comment[r].status = "deleting"
    /\ job[r].state = "complete" => comment[r].status = "gone"

(* What a running call knows.  No page holds a root; the job that a thread *)
(* call works for is not older than the call; once the call has found the  *)
(* thread empty, and unless it is superseded, nothing joins the thread; a  *)
(* call that deletes an account still has to visit each comment that it    *)
(* has not deleted or marked.                                              *)
Owed(c) == c \in Leaver \ ghost.overlooked /\ Exists(c) /\ ~(IsRoot(c) /\ comment[c].status = "deleting")
CallSound(k) ==
    /\ k.page \cap Roots = {}
    /\ k.at \in Thread => /\ k.target \in Roots
                          /\ k.version <= job[k.target].version
                          /\ job[k.target].state # "none"
    /\ k.at \in {"tally", "finish"} /\ Due(k) => Undeleted(k.target) = {}
    /\ k.op = "leave" => leaving /\ \A c \in Comments : Owed(c) => c \in k.todo
    /\ k.at \in {"next", "storeAll"} => k.op = "leave"
    /\ k.at = "storeAll" => k.todo = {}
EventsSound == \A e \in events : e[2] <= job[e[1]].version /\ job[e[1]].state # "none"
Departed == ghost.left => leaving /\ \A c \in Comments : ~Owed(c)

(* A reply that a moderator holds by name is not held for its thread, so a *)
(* restore of the thread passes it by.                                     *)
NamedHeld == \A c \in ghost.named \ ghost.crossed :
    /\ comment[c].status \notin {"unborn", "active"}
    /\ IsRoot(c) \/ ~comment[c].byThread

IInv == /\ TypeOK /\ Marked /\ EventsSound /\ Departed /\ NamedHeld /\ RepliesHaveRoot
        /\ \A w \in Workers : CallSound(calls[w])

LEMMA Counts == \A S \in SUBSET Comments : Cardinality(S) \in Nat
BY FS_Subset, FS_CardinalityType, ThreadAssumptions

LEMMA IdleTyped == Idle \in Call /\ Idle.at = "idle" /\ Idle.page = {}
<1>1. (CHOOSE c \in Comments : TRUE) \in Comments
  BY ThreadAssumptions
<1> QED  BY <1>1 DEF Idle, Call

LEMMA RootTyped ==
    ASSUME NEW c \in Comments
    PROVE  RootOf[c] \in Roots
BY ThreadAssumptions DEF Roots, IsRoot

LEMMA InitTyped == Init => TypeOK
<1> SUFFICES ASSUME Init PROVE TypeOK
  OBVIOUS
<1>1. PICK shape \in [Comments -> {"unborn", "active", "held", "heldByThread"}] :
         /\ comment = [c \in Comments |-> Document(shape, c)]
         /\ count = Cardinality(Published(shape))
         /\ ghost = [named |-> {c \in Comments : shape[c] = "held"}, crossed |-> {},
                     doubt |-> FALSE, doubtful |-> {}, tidy |-> Roots,
                     left |-> FALSE, overlooked |-> {}]
  BY DEF Init
<1>2. ASSUME NEW c \in Comments PROVE Document(shape, c) \in Comment
  <2>1. Cardinality(Replies(c) \cap Published(shape)) \in Nat
    BY Counts DEF Replies
  <2> QED  BY <2>1 DEF Document, Comment
<1>3. comment \in [Comments -> Comment] /\ count \in Nat
  BY <1>1, <1>2, Counts DEF Published
<1>4. ghost \in Ghost
  BY <1>1 DEF Ghost, Roots
<1>5. job \in [Roots -> Job] /\ events \subseteq Roots \X Nat /\ leaving \in BOOLEAN
  BY DEF Init, Job
<1>6. calls \in [Workers -> Call]
  BY IdleTyped DEF Init
<1>7. used \in [calls : 0..MaxCalls, deaths : 0..MaxDeaths]
  BY ThreadAssumptions DEF Init
<1> QED  BY <1>3, <1>4, <1>5, <1>6, <1>7 DEF TypeOK
-----------------------------------------------------------------------------
(* What the shared transactions do to the types.                           *)
LEMMA RemovingTyped ==
    ASSUME TypeOK, NEW c \in Comments, RemoveReply(c)
    PROVE  comment' \in [Comments -> Comment] /\ count' \in Nat /\ UNCHANGED <<job, events>>
BY DEF TypeOK, RemoveReply, Less, Comment

LEMMA MarkingTyped ==
    ASSUME TypeOK, NEW r \in Roots, MarkRoot(r)
    PROVE  /\ comment' \in [Comments -> Comment] /\ count' = count
           /\ job' \in [Roots -> Job] /\ events' \subseteq Roots \X Nat
<1>1. r \in Comments /\ job[r].version + 1 \in Nat
  BY DEF TypeOK, Roots, Job
<1>2. comment' \in [Comments -> Comment]
  BY <1>1 DEF TypeOK, MarkRoot, Comment
<1>3. job' \in [Roots -> Job]
  BY <1>1 DEF TypeOK, MarkRoot, Job
<1> QED  BY <1>1, <1>2, <1>3 DEF TypeOK, MarkRoot

LEMMA ThreadCallTyped ==
    ASSUME TypeOK, NEW r \in Roots, NEW op \in {"delete", "remove"}
    PROVE  ThreadCall(r, op) \in Call
<1>1. r \in Comments /\ job[r].version + 1 \in Nat /\ "page" \in Thread
  BY DEF TypeOK, Roots, Job, Thread
<1> QED  BY <1>1, IdleTyped DEF ThreadCall, Call

LEMMA CallTyped ==
    ASSUME TypeOK, NEW w \in Workers, NEW k \in Call, Goto(w, k)
    PROVE  calls' \in [Workers -> Call]
BY DEF TypeOK, Goto

LEMMA StartTyped ==
    ASSUME TypeOK, NEW w \in Workers, NEW k \in Call, StartCall(w, k)
    PROVE  calls' \in [Workers -> Call] /\ used' \in [calls : 0..MaxCalls, deaths : 0..MaxDeaths]
BY ThreadAssumptions DEF TypeOK, StartCall

LEMMA FinishedTyped ==
    ASSUME TypeOK, NEW w \in Workers, Finished(w)
    PROVE  calls' \in [Workers -> Call] /\ events' \subseteq Roots \X Nat
<1>1. AfterThread(calls[w]) \in Call
  BY IdleTyped DEF TypeOK, AfterThread, Call, Leaving, Counting
<1> QED  BY <1>1, CallTyped DEF TypeOK, Finished

LEMMA AbandonedTyped ==
    ASSUME TypeOK, NEW k \in Call
    PROVE  Abandoned(k) \in Ghost
BY RootTyped DEF TypeOK, Abandoned, Ghost, Call, Roots

(* Readers and authors.                                                    *)
LEMMA SaveTyped == ASSUME TypeOK, NEW c \in Comments, Save(c) PROVE TypeOK'
<1>1. comment' \in [Comments -> Comment]
  BY DEF Save, TypeOK, Comment
<1>2. ghost' \in Ghost
  BY DEF Save, TypeOK, Ghost
<1> QED  BY <1>1, <1>2 DEF Save, TypeOK

LEMMA DeleteRootTyped == ASSUME TypeOK, NEW w \in Workers, NEW r \in Roots, DeleteRoot(w, r) PROVE TypeOK'
BY ThreadCallTyped, MarkingTyped, StartTyped DEF DeleteRoot, TypeOK

LEMMA EventTyped == ASSUME TypeOK, NEW w \in Workers, HandleEvent(w) PROVE TypeOK'
<1>1. PICK e \in events :
        Goto(w, [Idle EXCEPT !.at = "page", !.op = "event", !.target = e[1], !.version = e[2]])
  BY DEF HandleEvent
<1>2. [Idle EXCEPT !.at = "page", !.op = "event", !.target = e[1], !.version = e[2]] \in Call
  <2>1. e[1] \in Comments /\ e[2] \in Nat
    BY DEF TypeOK, Roots
  <2> QED  BY <2>1, IdleTyped DEF Call, Thread
<1> QED  BY <1>1, <1>2, CallTyped DEF HandleEvent, TypeOK

(* The moderator's transactions.                                           *)
LEMMA ModerateTyped ==
    ASSUME TypeOK, NEW w \in Workers, NEW c \in Comments, NEW op \in {"hold", "restore"}, Moderate(w, c, op)
    PROVE  TypeOK'
<1>1. comment' \in [Comments -> Comment]
  <2>1. comment[c] \in Comment
    BY DEF TypeOK
  <2>2. AfterHold(c) \in Comment /\ [comment[c] EXCEPT !.status = "active", !.last = "restore"] \in Comment
    BY <2>1 DEF AfterHold, Comment
  <2>3. PICK document \in Comment : comment' = [comment EXCEPT ![c] = document]
    BY <2>2 DEF Moderate
  <2> QED  BY <2>3 DEF TypeOK
<1>2. calls' \in [Workers -> Call]
  <2>1. ASSUME NEW b \in BOOLEAN, NEW at \in {"sync", "count"}
        PROVE  [Idle EXCEPT !.at = at, !.op = op, !.target = c, !.alone = b] \in Call
    BY IdleTyped DEF Call, Syncing, Counting
  <2>2. ASSUME NEW v \in Workers PROVE [calls[v] EXCEPT !.alone = FALSE] \in Call
    BY DEF TypeOK, Call
  <2> QED  BY <2>1, <2>2 DEF Moderate, Moderated, TypeOK
<1>3. used' \in [calls : 0..MaxCalls, deaths : 0..MaxDeaths]
  BY ThreadAssumptions DEF Moderate, TypeOK
<1>4. ghost' \in Ghost
  BY DEF Moderate, TypeOK, Ghost
<1> QED  BY <1>1, <1>2, <1>3, <1>4 DEF Moderate, TypeOK

LEMMA RemoveTyped == ASSUME TypeOK, NEW w \in Workers, NEW c \in Comments, ModerateRemove(w, c) PROVE TypeOK'
<1>1. CASE IsRoot(c)
  <2>1. c \in Roots /\ ThreadCall(c, "remove") \in Call
    BY <1>1, ThreadCallTyped DEF Roots
  <2> QED  BY <1>1, <2>1, MarkingTyped, StartTyped DEF ModerateRemove, TypeOK
<1>2. CASE ~IsRoot(c)
  <2>1. [Idle EXCEPT !.at = "count", !.op = "remove", !.target = c] \in Call
    BY IdleTyped DEF Call, Counting
  <2> QED  BY <1>2, <2>1, RemovingTyped, StartTyped DEF ModerateRemove, TypeOK
<1> QED  BY <1>1, <1>2

LEMMA LeaveTyped == ASSUME TypeOK, NEW w \in Workers, Leave(w) PROVE TypeOK'
<1>1. [Idle EXCEPT !.at = "next", !.op = "leave", !.todo = Authored] \in Call
  BY IdleTyped, ThreadAssumptions DEF Call, Leaving, Authored
<1> QED  BY <1>1, StartTyped DEF Leave, TypeOK

LEMMA DieTyped == ASSUME TypeOK, NEW w \in Workers, Die(w) PROVE TypeOK'
<1>1. used' \in [calls : 0..MaxCalls, deaths : 0..MaxDeaths]
  BY ThreadAssumptions DEF Die, TypeOK
<1>2. calls[w] \in Call
  BY DEF TypeOK
<1> QED  BY <1>1, <1>2, IdleTyped, CallTyped, AbandonedTyped DEF Die, TypeOK

(* The steps of a running call.                                            *)
LEMMA StepTyped == ASSUME TypeOK, NEW w \in Workers, WorkerStep(w) PROVE TypeOK'
<1> DEFINE k == calls[w]
<1>0. k \in Call
  BY DEF TypeOK
<1> USE DEF Thread, Syncing, Counting, Leaving
<1> HIDE DEF k
<1>1. CASE ReadPage(w)
  <2>1. PICK S \in SUBSET Comments :
          Goto(w, [k EXCEPT !.at = IF S = {} THEN "tally" ELSE "batch", !.page = S])
    BY <1>1 DEF ReadPage, k, Undeleted, Replies
  <2>2. [k EXCEPT !.at = IF S = {} THEN "tally" ELSE "batch", !.page = S] \in Call
    BY <1>0 DEF Call
  <2> QED  BY <1>1, <2>1, <2>2, CallTyped DEF ReadPage, TypeOK
<1>2. CASE NotDue(w)
  BY <1>2, FinishedTyped DEF NotDue, TypeOK
<1>3. CASE DeletePage(w)
  <2>1. comment' \in [Comments -> Comment]
    BY <1>3 DEF DeletePage, TypeOK, Comment
  <2>2. AfterBatch(k) \in Call
    BY <1>0 DEF AfterBatch, Call
  <2> QED  BY <1>3, <2>1, <2>2, CallTyped DEF DeletePage, TypeOK, k
<1>4. CASE TallyShown(w)
  <2>1. [k EXCEPT !.at = "finish", !.counted = Cardinality(Shown)] \in Call
    BY <1>0, Counts DEF Call, Shown
  <2> QED  BY <1>4, <2>1, CallTyped DEF TallyShown, TypeOK, k
<1>5. CASE FinishThread(w)
  <2>1. calls' \in [Workers -> Call] /\ events' \subseteq Roots \X Nat
    BY <1>5, FinishedTyped DEF FinishThread
  <2>2. CASE Due(k)
    <3>1. comment' \in [Comments -> Comment]
      BY <1>0, <1>5, <2>2 DEF FinishThread, TypeOK, k, Call, Comment
    <3>2. count' \in Nat
      BY <1>0, <1>5, <2>2 DEF FinishThread, k, Call
    <3>3. job' \in [Roots -> Job]
      BY <1>0, <1>5, <2>2 DEF FinishThread, TypeOK, k, Job
    <3>4. ghost' \in Ghost
      BY <1>0, <1>5, <2>2 DEF FinishThread, TypeOK, k, Ghost
    <3> QED  BY <1>5, <2>1, <3>1, <3>2, <3>3, <3>4 DEF FinishThread, TypeOK
  <2>3. CASE ~Due(k)
    BY <1>5, <2>1, <2>3 DEF FinishThread, TypeOK, k
  <2> QED  BY <2>2, <2>3
<1>6. CASE ReadReplies(w)
  <2>1. PICK S \in SUBSET Comments :
          Goto(w, [k EXCEPT !.at = "write", !.seen = @ \cup S, !.page = {c \in S : Qualifies(c, k.op)}])
    BY <1>6 DEF ReadReplies, k, Undeleted, Replies
  <2>2. [k EXCEPT !.at = "write", !.seen = @ \cup S, !.page = {c \in S : Qualifies(c, k.op)}] \in Call
    BY <1>0 DEF Call
  <2> QED  BY <1>6, <2>1, <2>2, CallTyped DEF ReadReplies, TypeOK
<1>7. CASE WriteReplies(w)
  <2>1. comment' \in [Comments -> Comment]
    <3>1. (k.op = "hold") \in BOOLEAN
      OBVIOUS
    <3> QED  BY <3>1, <1>7 DEF WriteReplies, TypeOK, Comment, k
  <2>2. [k EXCEPT !.at = "sync", !.page = {}] \in Call
    BY <1>0 DEF Call
  <2>3. ghost' \in Ghost
    <3>1. {c \in k.page : ~Qualifies(c, k.op)} \subseteq Comments
      BY <1>0 DEF Call
    <3> QED  BY <3>1, <1>7 DEF WriteReplies, TypeOK, Ghost, k
  <2> QED  BY <1>7, <2>1, <2>2, <2>3, CallTyped DEF WriteReplies, TypeOK, k
<1>8. CASE WriteFails(w)
  BY <1>0, <1>8, IdleTyped, CallTyped, AbandonedTyped DEF WriteFails, TypeOK, k
<1>9. CASE EndSync(w)
  <2>1. [k EXCEPT !.at = "count", !.seen = {}] \in Call
    BY <1>0 DEF Call
  <2>2. ghost' \in Ghost
    BY <1>0, <1>9 DEF EndSync, TypeOK, Ghost, k, Call
  <2> QED  BY <1>9, <2>1, <2>2, CallTyped DEF EndSync, TypeOK, k
<1>10. CASE CountShown(w)
  <2>1. [k EXCEPT !.at = "store", !.counted = Cardinality(Shown)] \in Call
    BY <1>0, Counts DEF Call, Shown
  <2> QED  BY <1>10, <2>1, CallTyped DEF CountShown, TypeOK, k
<1>11. CASE StoreCount(w)
  <2>1. AfterCount(k) \in Call
    BY <1>0, IdleTyped DEF AfterCount, Call
  <2>2. count' \in Nat
    BY <1>0, <1>11 DEF StoreCount, k, Call
  <2>3. ghost' \in Ghost
    BY <1>11 DEF StoreCount, TypeOK, Ghost
  <2> QED  BY <1>11, <2>1, <2>2, <2>3, CallTyped DEF StoreCount, TypeOK, k
<1>12. CASE CountReplies(w)
  <2>1. [k EXCEPT !.at = "storeReplies", !.counted = Cardinality(ShownReplies(RootOf[k.target]))] \in Call
    BY <1>0, Counts DEF Call, ShownReplies, Replies
  <2> QED  BY <1>12, <2>1, CallTyped DEF CountReplies, TypeOK, k
<1>13. CASE StoreReplies(w)
  <2>1. RootOf[k.target] \in Roots /\ RootOf[k.target] \in Comments /\ k.counted \in Nat
    BY <1>0, RootTyped DEF Call, Roots
  <2>2. comment' \in [Comments -> Comment]
    BY <1>13, <2>1 DEF StoreReplies, TypeOK, Comment, k
  <2>3. ghost' \in Ghost
    BY <1>13, <2>1 DEF StoreReplies, TypeOK, Ghost, k
  <2> QED  BY <1>13, <2>2, <2>3, IdleTyped, CallTyped DEF StoreReplies, TypeOK
<1>14. CASE LeaveNext(w)
  <2>1. PICK c \in Comments :
          LET rest == [k EXCEPT !.todo = @ \ {c}] IN
          \/ Goto(w, rest) /\ UNCHANGED <<comment, count, job, events>>
          \/ RemoveReply(c) /\ Goto(w, rest)
          \/ /\ IsRoot(c) /\ MarkRoot(c)
             /\ Goto(w, [rest EXCEPT !.at = "page", !.target = c, !.version = job[c].version + 1])
    <3>1. PICK c \in Following(k) :
            LET rest == [k EXCEPT !.todo = @ \ {c}] IN
            CASE ~Exists(c) -> Goto(w, rest) /\ UNCHANGED <<comment, count, job, events>>
              [] Exists(c) /\ ~IsRoot(c) -> RemoveReply(c) /\ Goto(w, rest)
              [] Exists(c) /\ IsRoot(c) ->
                   /\ MarkRoot(c)
                   /\ Goto(w, [rest EXCEPT !.at = "page", !.target = c, !.version = job[c].version + 1])
      BY <1>14 DEF LeaveNext, k
    <3>2. c \in Comments
      BY <1>0 DEF Following, Call, Roots
    <3> QED  BY <3>1, <3>2
  <2> DEFINE rest == [k EXCEPT !.todo = @ \ {c}]
  <2>2. rest \in Call
    BY <1>0 DEF Call
  <2>3. CASE Goto(w, rest) /\ UNCHANGED <<comment, count, job, events>>
    BY <1>14, <2>2, <2>3, CallTyped DEF LeaveNext, TypeOK
  <2>4. CASE RemoveReply(c) /\ Goto(w, rest)
    BY <1>14, <2>2, <2>4, CallTyped, RemovingTyped DEF LeaveNext, TypeOK
  <2>5. CASE /\ IsRoot(c) /\ MarkRoot(c)
             /\ Goto(w, [rest EXCEPT !.at = "page", !.target = c, !.version = job[c].version + 1])
    <3>1. c \in Roots
      BY <2>5 DEF Roots
    <3>2. job[c].version + 1 \in Nat
      BY <3>1 DEF TypeOK, Job
    <3>3. [rest EXCEPT !.at = "page", !.target = c, !.version = job[c].version + 1] \in Call
      BY <2>2, <3>2 DEF Call
    <3> QED  BY <1>14, <2>5, <3>1, <3>3, CallTyped, MarkingTyped DEF LeaveNext, TypeOK
  <2> QED  BY <2>1, <2>3, <2>4, <2>5
<1>15. CASE LeaveCount(w)
  <2>1. [k EXCEPT !.at = "storeAll", !.counted = Cardinality({c \in Comments : Exists(c)})] \in Call
    BY <1>0, Counts DEF Call
  <2> QED  BY <1>15, <2>1, CallTyped DEF LeaveCount, TypeOK, k
<1>16. CASE LeaveStore(w)
  <2>1. count' \in Nat
    BY <1>0, <1>16 DEF LeaveStore, k, Call
  <2>2. ghost' \in Ghost
    BY <1>16 DEF LeaveStore, TypeOK, Ghost
  <2> QED  BY <1>16, <2>1, <2>2, IdleTyped, CallTyped DEF LeaveStore, TypeOK
<1> QED  BY <1>1, <1>2, <1>3, <1>4, <1>5, <1>6, <1>7, <1>8, <1>9, <1>10, <1>11,
            <1>12, <1>13, <1>14, <1>15, <1>16 DEF WorkerStep

LEMMA ReplyTyped == ASSUME TypeOK, NEW c \in Comments, DeleteReply(c) PROVE TypeOK'
BY RemovingTyped DEF DeleteReply, TypeOK

LEMMA NextTyped == TypeOK /\ [Next]_vars => TypeOK'
<1> SUFFICES ASSUME TypeOK, [Next]_vars PROVE TypeOK'
  OBVIOUS
<1>1. CASE UNCHANGED vars
  BY <1>1 DEF vars, TypeOK
<1>2. CASE Next
  BY <1>2, SaveTyped, ReplyTyped, DeleteRootTyped, ModerateTyped, RemoveTyped, LeaveTyped,
     EventTyped, StepTyped, DieTyped DEF Next
<1> QED  BY <1>1, <1>2

(* Every document, job, call and bound keeps its type.                     *)
THEOREM ThreadTypeCorrect == Spec => []TypeOK
BY InitTyped, NextTyped, PTL DEF Spec
-----------------------------------------------------------------------------
(* What every step leaves in place.  Comments appear in open threads only, *)
(* and once an account deletion has begun those of the leaver are known to *)
(* come late; a root goes when its thread is empty; a job moves with its   *)
(* root's mark.                                                            *)
Standing(c) == leaving /\ c \in Leaver => c \in ghost'.overlooked
Steady ==
    /\ \A c \in Comments : Exists(c)' => Exists(c) \/ (OpenThread(c) /\ Standing(c))
    /\ \A c \in Comments : ~IsRoot(c) /\ Exists(RootOf[c]) /\ ~Exists(RootOf[c])' => ~Exists(c)'
    /\ \A r \in Roots :
         \/ /\ job'[r] = job[r]
            /\ comment[r].status = "deleting" <=> comment'[r].status = "deleting"
            /\ comment[r].status = "gone" => comment'[r].status = "gone"
         \/ /\ job'[r].state = "ready" /\ job'[r].version = job[r].version + 1
            /\ comment'[r].status = "deleting"
         \/ /\ job'[r].state = "complete" /\ job'[r].version = job[r].version
            /\ comment'[r].status = "gone"
    /\ leaving => leaving'
    /\ ghost.overlooked \subseteq ghost'.overlooked

(* A step that brings nothing to life and leaves roots what they are, or   *)
(* holds or shows them, is steady.                                         *)
LEMMA MildSteady ==
    ASSUME TypeOK,
           \A c \in Comments : Exists(c)' => Exists(c),
           \A r \in Roots : \/ comment'[r].status = comment[r].status
                            \/ {comment[r].status, comment'[r].status} \subseteq {"active", "hold"},
           job' = job, leaving => leaving', ghost'.overlooked = ghost.overlooked
    PROVE  Steady
<1>1. ASSUME NEW c \in Comments PROVE Exists(RootOf[c]) => Exists(RootOf[c])'
  BY RootTyped DEF Exists
<1>2. \A c \in Comments : Exists(c)' => Exists(c) \/ (OpenThread(c) /\ Standing(c))
  OBVIOUS
<1>3. \A c \in Comments : ~IsRoot(c) /\ Exists(RootOf[c]) /\ ~Exists(RootOf[c])' => ~Exists(c)'
  BY <1>1
<1>4. \A r \in Roots : /\ comment[r].status = "deleting" <=> comment'[r].status = "deleting"
                       /\ comment[r].status = "gone" => comment'[r].status = "gone"
  OBVIOUS
<1> QED  BY <1>2, <1>3, <1>4 DEF Steady

LEMMA MarkSteady ==
    ASSUME TypeOK, NEW r \in Roots, Exists(r), MarkRoot(r), leaving => leaving',
           ghost'.overlooked = ghost.overlooked
    PROVE  Steady
<1>1. \A c \in Comments : Exists(c)' <=> Exists(c)
  BY DEF TypeOK, MarkRoot, Exists, Comment, Roots
<1>2. \A c \in Comments : Exists(RootOf[c])' <=> Exists(RootOf[c])
  BY <1>1, RootTyped DEF Roots
<1>3. \A q \in Roots : q # r => job'[q] = job[q] /\ comment'[q] = comment[q]
  BY DEF TypeOK, MarkRoot, Roots
<1>4. /\ job'[r].state = "ready" /\ job'[r].version = job[r].version + 1
      /\ comment'[r].status = "deleting"
  BY DEF TypeOK, MarkRoot, Roots, Comment
<1> QED  BY <1>1, <1>2, <1>3, <1>4 DEF Steady

LEMMA RemoveSteady ==
    ASSUME TypeOK, NEW c \in Comments, ~IsRoot(c), RemoveReply(c), leaving => leaving',
           ghost'.overlooked = ghost.overlooked
    PROVE  Steady
<1>1. \A d \in Comments : d # c => comment'[d].status = comment[d].status
  BY DEF TypeOK, RemoveReply, Comment
<1>2. comment'[c].status = "gone" /\ c \notin Roots
  BY DEF TypeOK, RemoveReply, Comment, Roots
<1>3. \A d \in Comments : Exists(d)' => Exists(d)
  BY <1>1, <1>2 DEF Exists
<1>4. job' = job
  BY DEF RemoveReply
<1> QED  BY <1>1, <1>2, <1>3, <1>4, MildSteady DEF Roots

LEMMA SaveSteady == ASSUME TypeOK, NEW c \in Comments, Save(c) PROVE Steady
<1>1. \A d \in Comments : d # c => comment'[d].status = comment[d].status
  BY DEF TypeOK, Save, Comment
<1>2. comment[c].status = "unborn" /\ comment'[c].status = "active" /\ OpenThread(c)
  BY DEF TypeOK, Save, Comment
<1>3. ghost.overlooked \subseteq ghost'.overlooked /\ Standing(c)
  BY DEF TypeOK, Ghost, Save, Standing
<1>4. job' = job /\ leaving' = leaving
  BY DEF Save
<1>5. ASSUME NEW d \in Comments, Exists(d) PROVE Exists(d)'
  BY <1>1, <1>2, <1>5 DEF Exists
<1>6. \A d \in Comments : Exists(RootOf[d]) => Exists(RootOf[d])'
  BY <1>5, RootTyped DEF Roots
<1>7. \A d \in Comments : Exists(d)' => Exists(d) \/ (OpenThread(d) /\ Standing(d))
  BY <1>1, <1>2, <1>3 DEF Exists
<1>8. \A r \in Roots : /\ comment[r].status = "deleting" <=> comment'[r].status = "deleting"
                       /\ comment[r].status = "gone" => comment'[r].status = "gone"
  BY <1>1, <1>2 DEF Roots
<1> QED  BY <1>3, <1>4, <1>6, <1>7, <1>8 DEF Steady

LEMMA ModerateSteady ==
    ASSUME TypeOK, NEW w \in Workers, NEW c \in Comments, NEW op \in {"hold", "restore"}, Moderate(w, c, op)
    PROVE  Steady
<1>1. \A d \in Comments : d # c => comment'[d] = comment[d]
  BY DEF TypeOK, Moderate
<1>2. comment[c].status \in {"active", "hold"} /\ comment'[c].status \in {"active", "hold"}
  BY DEF TypeOK, Moderate, MayHold, MayRestore, AfterHold, Comment
<1>3. job' = job /\ leaving' = leaving /\ ghost'.overlooked = ghost.overlooked
  BY DEF Moderate, TypeOK, Ghost
<1>4. \A d \in Comments : Exists(d)' => Exists(d)
  BY <1>1, <1>2 DEF Exists
<1> QED  BY <1>1, <1>2, <1>3, <1>4, MildSteady DEF Roots

LEMMA FinishSteady == ASSUME IInv, NEW w \in Workers, FinishThread(w) PROVE Steady
<1> DEFINE r == calls[w].target
<1>1. leaving' = leaving /\ ghost'.overlooked = ghost.overlooked
  BY DEF IInv, TypeOK, Ghost, FinishThread
<1>2. CASE Due(calls[w])
  <2>1. r \in Roots /\ r \in Comments /\ Undeleted(r) = {}
    BY <1>2 DEF IInv, FinishThread, CallSound, Thread, Roots
  <2>2. \A c \in Comments : c # r => comment'[c] = comment[c]
    BY <1>2 DEF IInv, TypeOK, FinishThread
  <2>3. \A q \in Roots : q # r => job'[q] = job[q]
    BY <1>2 DEF IInv, TypeOK, FinishThread
  <2>4. comment'[r].status = "gone" /\ job'[r].state = "complete" /\ job'[r].version = job[r].version
    BY <1>2, <2>1 DEF IInv, TypeOK, FinishThread, Comment, Job
  <2>5. \A c \in Comments : Exists(c)' => Exists(c)
    BY <2>2, <2>4 DEF Exists
  <2>6. ASSUME NEW c \in Comments, ~IsRoot(c), Exists(RootOf[c]), ~Exists(RootOf[c])' PROVE ~Exists(c)'
    <3>1. RootOf[c] = r
      BY <2>2, <2>6, RootTyped DEF Exists, Roots
    <3>2. ~Exists(c)
      BY <2>1, <2>6, <3>1 DEF Undeleted, Replies, IsRoot
    <3> QED  BY <2>5, <3>2
  <2> QED  BY <1>1, <2>1, <2>2, <2>3, <2>4, <2>5, <2>6 DEF Steady, Roots
<1>3. CASE ~Due(calls[w])
  <2>1. comment' = comment /\ job' = job
    BY <1>3 DEF FinishThread
  <2> QED  BY <1>1, <2>1, MildSteady DEF IInv, Exists
<1> QED  BY <1>2, <1>3

LEMMA StepSteady == ASSUME IInv, NEW w \in Workers, WorkerStep(w) PROVE Steady
<1>1. CASE FinishThread(w)
  BY <1>1, FinishSteady
<1>2. CASE DeletePage(w)
  <2>1. calls[w].page \cap Roots = {}
    BY DEF IInv, CallSound
  <2>2. \A c \in Comments : comment'[c].status \in {comment[c].status, "gone"}
    BY <1>2 DEF DeletePage, IInv, TypeOK, Comment
  <2>3. \A c \in Comments : Exists(c)' => Exists(c)
    BY <2>2 DEF Exists
  <2>4. \A r \in Roots : comment'[r].status = comment[r].status
    BY <1>2, <2>1 DEF DeletePage, Roots
  <2> QED  BY <1>2, <2>3, <2>4, MildSteady DEF DeletePage, IInv
<1>3. CASE WriteReplies(w)
  <2>1. calls[w].page \cap Roots = {}
    BY DEF IInv, CallSound
  <2>2. \A c \in Comments : Exists(c)' => Exists(c)
    BY <1>3 DEF WriteReplies, Exists
  <2>3. \A r \in Roots : comment'[r].status = comment[r].status
    BY <1>3, <2>1 DEF WriteReplies, Roots
  <2>4. job' = job /\ leaving' = leaving /\ ghost'.overlooked = ghost.overlooked
    BY <1>3 DEF WriteReplies, IInv, TypeOK, Ghost
  <2> QED  BY <2>2, <2>3, <2>4, MildSteady DEF IInv
<1>4. CASE StoreReplies(w)
  <2>1. \A c \in Comments : comment'[c].status = comment[c].status
    BY <1>4 DEF StoreReplies, IInv, TypeOK, Comment
  <2>2. job' = job /\ leaving' = leaving /\ ghost'.overlooked = ghost.overlooked
    BY <1>4 DEF StoreReplies, IInv, TypeOK, Ghost
  <2> QED  BY <2>1, <2>2, MildSteady DEF IInv, Exists, Roots
<1>5. CASE LeaveNext(w)
  <2>1. leaving' = leaving /\ ghost' = ghost
    BY <1>5 DEF LeaveNext
  <2>2. PICK c \in Comments :
          \/ UNCHANGED <<comment, count, job, events>>
          \/ Exists(c) /\ ~IsRoot(c) /\ RemoveReply(c)
          \/ Exists(c) /\ IsRoot(c) /\ MarkRoot(c)
    <3>1. \A c \in Following(calls[w]) : c \in Comments
      BY DEF Following, IInv, TypeOK, Call, Roots
    <3> QED  BY <1>5, <3>1 DEF LeaveNext
  <2>3. CASE UNCHANGED <<comment, count, job, events>>
    BY <2>1, <2>3, MildSteady DEF IInv, Exists
  <2>4. CASE Exists(c) /\ ~IsRoot(c) /\ RemoveReply(c)
    BY <2>1, <2>4, RemoveSteady DEF IInv
  <2>5. CASE Exists(c) /\ IsRoot(c) /\ MarkRoot(c)
    BY <2>1, <2>5, MarkSteady DEF IInv, Roots
  <2> QED  BY <2>2, <2>3, <2>4, <2>5
<1>6. ASSUME UNCHANGED <<comment, job, leaving>>, ghost'.overlooked = ghost.overlooked PROVE Steady
  BY <1>6, MildSteady DEF IInv, Exists
<1>7. CASE WriteFails(w)
  BY <1>6, <1>7 DEF WriteFails, Abandoned, IInv, TypeOK, Ghost
<1>8. CASE EndSync(w) \/ StoreCount(w) \/ LeaveStore(w)
  BY <1>6, <1>8 DEF EndSync, StoreCount, LeaveStore, IInv, TypeOK, Ghost
<1>9. CASE ReadPage(w) \/ NotDue(w) \/ TallyShown(w) \/ ReadReplies(w) \/ CountShown(w) \/ CountReplies(w) \/ LeaveCount(w)
  BY <1>6, <1>9 DEF ReadPage, NotDue, TallyShown, ReadReplies, CountShown, CountReplies, LeaveCount
<1> QED  BY <1>1, <1>2, <1>3, <1>4, <1>5, <1>7, <1>8, <1>9 DEF WorkerStep

LEMMA NextSteady == ASSUME IInv, [Next]_vars PROVE Steady
<1>1. ASSUME UNCHANGED <<comment, job>>, leaving => leaving', ghost'.overlooked = ghost.overlooked PROVE Steady
  BY <1>1, MildSteady DEF IInv, Exists
<1>2. CASE UNCHANGED vars
  BY <1>1, <1>2 DEF vars
<1>3. ASSUME NEW c \in Comments, Save(c) \/ DeleteReply(c) PROVE Steady
  BY <1>3, SaveSteady, RemoveSteady DEF IInv, DeleteReply
<1>4. ASSUME NEW w \in Workers, NEW r \in Roots, DeleteRoot(w, r) PROVE Steady
  BY <1>4, MarkSteady DEF IInv, DeleteRoot
<1>5. ASSUME NEW w \in Workers, NEW c \in Comments, ModerateRemove(w, c) PROVE Steady
  BY <1>5, MarkSteady, RemoveSteady DEF IInv, ModerateRemove, Roots
<1>6. ASSUME NEW w \in Workers, Leave(w) \/ HandleEvent(w) PROVE Steady
  BY <1>1, <1>6 DEF Leave, HandleEvent
<1>7. ASSUME NEW w \in Workers, Die(w) PROVE Steady
  BY <1>1, <1>7 DEF Die, Abandoned, IInv, TypeOK, Ghost
<1>8. CASE Next
  BY <1>3, <1>4, <1>5, <1>6, <1>7, <1>8, ModerateSteady, StepSteady DEF Next, IInv
<1> QED  BY <1>2, <1>8
-----------------------------------------------------------------------------
(* A steady step keeps the marks, the roots of replies, and what each call *)
(* knew.                                                                   *)
LEMMA MarksKept == ASSUME IInv, Steady PROVE Marked'
<1> SUFFICES ASSUME NEW r \in Roots
             PROVE  /\ job'[r].state = "ready" <=> comment'[r].status = "deleting"
                    /\ job'[r].state = "complete" => comment'[r].status = "gone"
  BY DEF Marked
<1> QED  BY DEF IInv, Marked, Steady

LEMMA RootsKept == ASSUME IInv, Steady PROVE RepliesHaveRoot'
<1> SUFFICES ASSUME NEW c \in Comments, Exists(c)' PROVE Exists(RootOf[c])'
  BY DEF RepliesHaveRoot
<1>1. CASE IsRoot(c)
  BY <1>1 DEF IsRoot
<1>2. CASE ~IsRoot(c)
  <2>1. Exists(c) \/ OpenThread(c)
    BY DEF Steady
  <2>2. Exists(RootOf[c])
    BY <1>2, <2>1 DEF IInv, RepliesHaveRoot, OpenThread, Exists
  <2> QED  BY <1>2, <2>2 DEF Steady
<1> QED  BY <1>1, <1>2

LEMMA OwedShrinks ==
    ASSUME Steady, leaving, NEW c \in Comments, Owed(c)'
    PROVE  Owed(c)
<1>1. Exists(c)' /\ c \in Leaver /\ c \notin ghost'.overlooked /\ c \notin ghost.overlooked
  BY DEF Owed, Steady
<1>2. Exists(c)
  BY <1>1 DEF Steady, Standing
<1>3. IsRoot(c) /\ comment[c].status = "deleting" => comment'[c].status \in {"deleting", "gone"}
  BY DEF Steady, Roots
<1> QED  BY <1>1, <1>2, <1>3 DEF Owed, Exists

LEMMA CallKept ==
    ASSUME IInv, Steady, NEW k \in Call, CallSound(k)
    PROVE  CallSound(k)'
<1>1. k.at \in Thread => /\ k.target \in Roots
                        /\ k.version <= job'[k.target].version
                        /\ job'[k.target].state # "none"
  <2> SUFFICES ASSUME k.at \in Thread PROVE /\ k.version <= job'[k.target].version
                                            /\ job'[k.target].state # "none"
    BY DEF CallSound
  <2>1. /\ k.target \in Roots /\ k.version <= job[k.target].version /\ job[k.target].state # "none"
        /\ job[k.target].version \in Nat /\ k.version \in Nat
    BY DEF CallSound, IInv, TypeOK, Job, Call
  <2> QED  BY <2>1 DEF Steady
<1>2. ASSUME k.at \in {"tally", "finish"}, Due(k)' PROVE (Undeleted(k.target))' = {}
  <2> DEFINE r == k.target
  <2>1. /\ r \in Roots /\ k.version <= job[r].version
        /\ job[r].version \in Nat /\ k.version \in Nat
    BY <1>2 DEF CallSound, IInv, TypeOK, Job, Call, Thread
  <2>2. job'[r].state = "ready" /\ job'[r].version = k.version
    BY <1>2 DEF Due
  <2>3. job'[r] = job[r]
    BY <2>1, <2>2 DEF Steady
  <2>4. Undeleted(r) = {} /\ comment[r].status = "deleting"
    BY <1>2, <2>1, <2>2, <2>3 DEF CallSound, Due, IInv, Marked
  <2>5. ASSUME NEW c \in Replies(r) PROVE ~Exists(c)'
    <3>1. c \in Comments /\ RootOf[c] = r /\ ~IsRoot(c) /\ ~Exists(c)
      BY <2>4, <2>5 DEF Replies, Undeleted, IsRoot
    <3>2. ~OpenThread(c)
      BY <2>4, <3>1 DEF OpenThread
    <3> QED  BY <3>1, <3>2 DEF Steady
  <2> QED  BY <2>5 DEF Undeleted
<1>3. k.op = "leave" => leaving' /\ \A c \in Comments : Owed(c)' => c \in k.todo
  BY OwedShrinks DEF CallSound, Steady
<1> QED  BY <1>1, <1>2, <1>3 DEF CallSound
-----------------------------------------------------------------------------
(* A reply held by name is neither shown by a batch nor held for its       *)
(* thread: a batch that shows it had read it before, and then it crossed.  *)
LEMMA NamedKept ==
    ASSUME TypeOK, NamedHeld, ghost'.named \ ghost'.crossed \subseteq ghost.named \ ghost.crossed,
           ghost.named \subseteq Comments,
           \A c \in Comments :
             /\ comment[c].status \notin {"unborn", "active"} => comment'[c].status \notin {"unborn", "active"}
             /\ IsRoot(c) \/ comment'[c].byThread = comment[c].byThread
    PROVE  NamedHeld'
BY DEF NamedHeld

LEMMA RemoveNamed ==
    ASSUME TypeOK, NamedHeld, NEW c \in Comments, RemoveReply(c), ghost' = ghost
    PROVE  NamedHeld'
<1>1. \A d \in Comments :
        /\ comment[d].status \notin {"unborn", "active"} => comment'[d].status \notin {"unborn", "active"}
        /\ comment'[d].byThread = comment[d].byThread
  BY DEF TypeOK, RemoveReply, Comment
<1> QED  BY <1>1, NamedKept DEF TypeOK, Ghost

LEMMA MarkNamed ==
    ASSUME TypeOK, NamedHeld, NEW c \in Roots, MarkRoot(c), ghost' = ghost
    PROVE  NamedHeld'
<1>1. \A d \in Comments :
        /\ comment[d].status \notin {"unborn", "active"} => comment'[d].status \notin {"unborn", "active"}
        /\ comment'[d].byThread = comment[d].byThread
  BY DEF TypeOK, MarkRoot, Comment, Roots
<1> QED  BY <1>1, NamedKept DEF TypeOK, Ghost

LEMMA WriteNamed == ASSUME IInv, NEW w \in Workers, WriteReplies(w) PROVE NamedHeld'
<1> DEFINE k == calls[w]
<1> SUFFICES ASSUME NEW c \in ghost'.named \ ghost'.crossed
             PROVE  /\ comment'[c].status \notin {"unborn", "active"}
                    /\ IsRoot(c) \/ ~comment'[c].byThread
  BY DEF NamedHeld
<1>1. c \in ghost.named \ ghost.crossed /\ (c \in k.page => Qualifies(c, k.op)) /\ c \in Comments
  BY DEF WriteReplies, IInv, TypeOK, Ghost
<1>2. comment[c].status \notin {"unborn", "active"} /\ (IsRoot(c) \/ ~comment[c].byThread)
  BY <1>1 DEF IInv, NamedHeld
<1>3. c \notin k.page
  <2>1. c \in k.page => ~IsRoot(c)
    BY <1>1 DEF IInv, CallSound, Roots
  <2> QED  BY <1>1, <1>2, <2>1 DEF Qualifies
<1>4. comment'[c] = comment[c]
  BY <1>1, <1>3 DEF WriteReplies
<1> QED  BY <1>2, <1>4

LEMMA ModerateNamed ==
    ASSUME IInv, NEW w \in Workers, NEW c \in Comments, NEW op \in {"hold", "restore"}, Moderate(w, c, op)
    PROVE  NamedHeld'
<1> SUFFICES ASSUME NEW d \in ghost'.named \ ghost'.crossed
             PROVE  /\ comment'[d].status \notin {"unborn", "active"}
                    /\ IsRoot(d) \/ ~comment'[d].byThread
  BY DEF NamedHeld
<1>1. CASE d = c
  <2>1. op = "hold"
    BY <1>1 DEF Moderate, IInv, TypeOK, Ghost
  <2> QED  BY <1>1, <2>1 DEF Moderate, AfterHold, IInv, TypeOK, Comment
<1>2. CASE d # c
  <2>1. d \in ghost.named \ ghost.crossed /\ d \in Comments
    BY <1>2 DEF Moderate, IInv, TypeOK, Ghost
  <2>2. comment'[d] = comment[d]
    BY <1>2, <2>1 DEF Moderate, IInv, TypeOK
  <2> QED  BY <2>1, <2>2 DEF IInv, NamedHeld
<1> QED  BY <1>1, <1>2

LEMMA StepNamed == ASSUME IInv, NEW w \in Workers, WorkerStep(w) PROVE NamedHeld'
<1>1. CASE WriteReplies(w)
  BY <1>1, WriteNamed
<1>2. ASSUME \A c \in Comments : /\ comment'[c].status \in {comment[c].status, "gone"}
                                 /\ comment'[c].byThread = comment[c].byThread,
             ghost'.named = ghost.named, ghost'.crossed = ghost.crossed
      PROVE  NamedHeld'
  BY <1>2, NamedKept DEF IInv, TypeOK, Ghost
<1>3. CASE DeletePage(w)
  BY <1>2, <1>3 DEF DeletePage, IInv, TypeOK, Comment
<1>4. CASE FinishThread(w)
  <2>1. ghost'.named = ghost.named /\ ghost'.crossed = ghost.crossed
    BY <1>4 DEF FinishThread, IInv, TypeOK, Ghost
  <2>2. \A c \in Comments : /\ comment'[c].status \in {comment[c].status, "gone"}
                            /\ comment'[c].byThread = comment[c].byThread
    BY <1>4 DEF FinishThread, IInv, TypeOK, Comment
  <2> QED  BY <1>2, <2>1, <2>2
<1>5. CASE StoreReplies(w)
  <2>1. ghost'.named = ghost.named /\ ghost'.crossed = ghost.crossed
    BY <1>5 DEF StoreReplies, IInv, TypeOK, Ghost
  <2>2. \A c \in Comments : /\ comment'[c].status = comment[c].status
                            /\ comment'[c].byThread = comment[c].byThread
    BY <1>5 DEF StoreReplies, IInv, TypeOK, Comment
  <2> QED  BY <1>2, <2>1, <2>2
<1>6. CASE LeaveNext(w)
  <2>1. PICK c \in Comments :
          \/ comment' = comment
          \/ RemoveReply(c)
          \/ c \in Roots /\ MarkRoot(c)
    <3>1. \A c \in Following(calls[w]) : c \in Comments
      BY DEF Following, IInv, TypeOK, Call, Roots
    <3> QED  BY <1>6, <3>1 DEF LeaveNext, Roots
  <2>2. ghost' = ghost
    BY <1>6 DEF LeaveNext
  <2>3. CASE comment' = comment
    BY <1>2, <2>2, <2>3
  <2> QED  BY <2>1, <2>2, <2>3, RemoveNamed, MarkNamed DEF IInv
<1>7. ASSUME comment' = comment, ghost'.named = ghost.named, ghost'.crossed = ghost.crossed
      PROVE  NamedHeld'
  BY <1>2, <1>7
<1>8. CASE WriteFails(w)
  BY <1>7, <1>8 DEF WriteFails, Abandoned, IInv, TypeOK, Ghost
<1>9. CASE EndSync(w) \/ StoreCount(w) \/ LeaveStore(w)
  BY <1>7, <1>9 DEF EndSync, StoreCount, LeaveStore, IInv, TypeOK, Ghost
<1>10. CASE ReadPage(w) \/ NotDue(w) \/ TallyShown(w) \/ ReadReplies(w) \/ CountShown(w) \/ CountReplies(w) \/ LeaveCount(w)
  BY <1>7, <1>10 DEF ReadPage, NotDue, TallyShown, ReadReplies, CountShown, CountReplies, LeaveCount
<1> QED  BY <1>1, <1>3, <1>4, <1>5, <1>6, <1>8, <1>9, <1>10 DEF WorkerStep

LEMMA NextNamed == ASSUME IInv, [Next]_vars PROVE NamedHeld'
<1>1. ASSUME comment' = comment, ghost'.named = ghost.named, ghost'.crossed = ghost.crossed
      PROVE  NamedHeld'
  BY <1>1 DEF IInv, NamedHeld
<1>2. CASE UNCHANGED vars
  BY <1>1, <1>2 DEF vars
<1>3. ASSUME NEW c \in Comments, Save(c) PROVE NamedHeld'
  <2>1. ghost'.named = ghost.named /\ ghost'.crossed = ghost.crossed
    BY <1>3 DEF Save, IInv, TypeOK, Ghost
  <2>2. \A d \in Comments :
          /\ comment[d].status \notin {"unborn", "active"} => comment'[d].status \notin {"unborn", "active"}
          /\ comment'[d].byThread = comment[d].byThread
    BY <1>3 DEF Save, IInv, TypeOK, Comment
  <2> QED  BY <2>1, <2>2, NamedKept DEF IInv, TypeOK, Ghost
<1>4. ASSUME NEW c \in Comments, DeleteReply(c) PROVE NamedHeld'
  BY <1>4, RemoveNamed DEF IInv, DeleteReply
<1>5. ASSUME NEW w \in Workers, NEW r \in Roots, DeleteRoot(w, r) PROVE NamedHeld'
  BY <1>5, MarkNamed DEF IInv, DeleteRoot
<1>6. ASSUME NEW w \in Workers, NEW c \in Comments, ModerateRemove(w, c) PROVE NamedHeld'
  BY <1>6, MarkNamed, RemoveNamed DEF IInv, ModerateRemove, Roots
<1>7. ASSUME NEW w \in Workers, Leave(w) \/ HandleEvent(w) PROVE NamedHeld'
  BY <1>1, <1>7 DEF Leave, HandleEvent
<1>8. ASSUME NEW w \in Workers, Die(w) PROVE NamedHeld'
  BY <1>1, <1>8 DEF Die, Abandoned, IInv, TypeOK, Ghost
<1>9. CASE Next
  BY <1>3, <1>4, <1>5, <1>6, <1>7, <1>8, <1>9, ModerateNamed, StepNamed DEF Next
<1> QED  BY <1>2, <1>9
-----------------------------------------------------------------------------
(* A trigger is never ahead of its job.                                    *)
NewEvents == \A e \in events' : \/ e \in events
                                \/ e[2] <= job'[e[1]].version /\ job'[e[1]].state = "ready"

LEMMA MarkQueues ==
    ASSUME TypeOK, NEW r \in Roots, MarkRoot(r)
    PROVE  /\ job'[r].state = "ready" /\ job'[r].version = job[r].version + 1
           /\ job[r].version + 1 \in Nat /\ comment'[r].status = "deleting" /\ NewEvents
<1>1. job'[r].state = "ready" /\ job'[r].version = job[r].version + 1 /\ job[r].version \in Nat
  BY DEF TypeOK, MarkRoot, Job
<1>2. comment'[r].status = "deleting"
  BY DEF TypeOK, MarkRoot, Comment, Roots
<1>3. \A e \in events' : e \in events \/ e = <<r, job[r].version + 1>>
  BY DEF MarkRoot
<1> QED  BY <1>1, <1>2, <1>3 DEF NewEvents

LEMMA EventsKept == ASSUME IInv, Steady, NewEvents PROVE EventsSound'
<1> SUFFICES ASSUME NEW e \in events', e \in events
             PROVE  e[2] <= job'[e[1]].version /\ job'[e[1]].state # "none"
  BY DEF EventsSound, NewEvents
<1>1. e[1] \in Roots /\ e[2] \in Nat /\ job[e[1]].version \in Nat
  BY DEF IInv, TypeOK, Job
<1>2. e[2] <= job[e[1]].version /\ job[e[1]].state # "none"
  BY DEF IInv, EventsSound
<1> QED  BY <1>1, <1>2 DEF Steady

LEMMA NextEvents == ASSUME IInv, [Next]_vars PROVE EventsSound'
<1>1. events' \subseteq events => NewEvents
  BY DEF NewEvents
<1>2. ASSUME NEW w \in Workers, Finished(w) PROVE events' \subseteq events
  BY <1>2 DEF Finished
<1>3. ASSUME NEW w \in Workers, WorkerStep(w) PROVE NewEvents
  <2>1. CASE LeaveNext(w)
    <3>1. \A c \in Following(calls[w]) : c \in Comments
      BY DEF Following, IInv, TypeOK, Call, Roots
    <3>2. PICK c \in Comments : events' = events \/ (IsRoot(c) /\ MarkRoot(c))
      BY <2>1, <3>1 DEF LeaveNext, RemoveReply
    <3> QED  BY <1>1, <3>2, MarkQueues DEF IInv, Roots
  <2>2. CASE NotDue(w) \/ FinishThread(w)
    BY <1>1, <1>2, <2>2 DEF NotDue, FinishThread
  <2>3. ASSUME ~LeaveNext(w), ~NotDue(w), ~FinishThread(w) PROVE events' = events
    BY <1>3, <2>3 DEF WorkerStep, ReadPage, DeletePage, TallyShown, ReadReplies, WriteReplies, WriteFails,
       EndSync, CountShown, StoreCount, CountReplies, StoreReplies, LeaveCount, LeaveStore
  <2> QED  BY <1>1, <2>1, <2>2, <2>3
<1>4. CASE UNCHANGED vars
  BY <1>1, <1>4, NextSteady, EventsKept DEF vars
<1>5. ASSUME NEW c \in Comments, Save(c) \/ DeleteReply(c) PROVE NewEvents
  BY <1>1, <1>5 DEF Save, DeleteReply, RemoveReply
<1>6. ASSUME NEW w \in Workers, NEW r \in Roots, DeleteRoot(w, r) PROVE NewEvents
  BY <1>6, MarkQueues DEF IInv, DeleteRoot
<1>7. ASSUME NEW w \in Workers, NEW c \in Comments, ModerateRemove(w, c) PROVE NewEvents
  BY <1>1, <1>7, MarkQueues DEF IInv, ModerateRemove, RemoveReply, Roots
<1>8. ASSUME NEW w \in Workers, NEW c \in Comments, NEW op \in {"hold", "restore"}, Moderate(w, c, op)
      PROVE  NewEvents
  BY <1>1, <1>8 DEF Moderate
<1>9. ASSUME NEW w \in Workers, Leave(w) \/ HandleEvent(w) \/ Die(w) PROVE NewEvents
  BY <1>1, <1>9 DEF Leave, HandleEvent, Die
<1>10. CASE Next
  BY <1>3, <1>5, <1>6, <1>7, <1>8, <1>9, <1>10, NextSteady, EventsKept DEF Next
<1> QED  BY <1>4, <1>10
-----------------------------------------------------------------------------
(* Each call still knows what it has to.  Others is what a step of one     *)
(* call leaves alone.                                                      *)
Others(w) == \A v \in Workers \ {w} : calls'[v] = calls[v]

LEMMA OthersSound ==
    ASSUME IInv, Steady, NEW w \in Workers, Others(w), CallSound(calls[w])'
    PROVE  \A v \in Workers : CallSound(calls[v])'
<1> SUFFICES ASSUME NEW v \in Workers, v # w PROVE CallSound(calls[v])'
  OBVIOUS
<1>1. PICK k \in Call : k = calls[v] /\ CallSound(k)
  BY DEF IInv, TypeOK
<1>2. calls'[v] = k
  BY <1>1 DEF Others
<1>3. CallSound(k)'
  BY <1>1, CallKept
<1> QED  BY <1>2, <1>3 DEF CallSound, Due

(* A call that neither deletes a thread nor an account knows nothing, and  *)
(* one that has just queued a thread, or been told of it, only the job.    *)
LEMMA FreshSound ==
    ASSUME NEW w \in Workers, calls'[w].page = {}, calls'[w].op # "leave",
           calls'[w].at \notin Thread \cup {"next", "storeAll"}
    PROVE  CallSound(calls[w])'
BY DEF CallSound, Thread

LEMMA IdleSound == ASSUME NEW w \in Workers, calls'[w] = Idle PROVE CallSound(calls[w])'
BY FreshSound DEF Idle, Thread

LEMMA ThreadSound ==
    ASSUME NEW w \in Workers, NEW r \in Roots, calls'[w].page = {}, calls'[w].op # "leave",
           calls'[w].at = "page", calls'[w].target = r, calls'[w].version <= job'[r].version,
           job'[r].state # "none"
    PROVE  CallSound(calls[w])'
BY DEF CallSound

LEMMA GotoChanges ==
    ASSUME TypeOK, NEW w \in Workers, NEW next
    PROVE  /\ Goto(w, next) => calls'[w] = next /\ Others(w)
           /\ StartCall(w, next) => calls'[w] = next /\ Others(w)
BY DEF TypeOK, Goto, StartCall, Others

LEMMA ThreadCallSound ==
    ASSUME TypeOK, NEW w \in Workers, NEW r \in Roots, NEW op \in {"delete", "remove"}, MarkRoot(r),
           StartCall(w, ThreadCall(r, op))
    PROVE  CallSound(calls[w])' /\ Others(w)
<1>1. calls'[w] = ThreadCall(r, op) /\ Others(w)
  BY GotoChanges
<1>2. /\ calls'[w].page = {} /\ calls'[w].op # "leave" /\ calls'[w].at = "page"
      /\ calls'[w].target = r /\ calls'[w].version = job[r].version + 1
  BY <1>1 DEF ThreadCall, Idle
<1> QED  BY <1>1, <1>2, MarkQueues, ThreadSound

LEMMA RootCallsSound ==
    ASSUME IInv, Steady, NEW w \in Workers,
           \/ \E r \in Roots : DeleteRoot(w, r)
           \/ \E c \in Comments : ModerateRemove(w, c)
    PROVE  CallSound(calls[w])' /\ Others(w)
<1>1. ASSUME NEW r \in Roots, DeleteRoot(w, r) PROVE CallSound(calls[w])' /\ Others(w)
  BY <1>1, ThreadCallSound DEF IInv, DeleteRoot
<1>2. ASSUME NEW c \in Comments, ModerateRemove(w, c) PROVE CallSound(calls[w])' /\ Others(w)
  <2>1. CASE IsRoot(c)
    BY <1>2, <2>1, ThreadCallSound DEF IInv, ModerateRemove, Roots
  <2>2. CASE ~IsRoot(c)
    <3>1. calls'[w] = [Idle EXCEPT !.at = "count", !.op = "remove", !.target = c] /\ Others(w)
      BY <1>2, <2>2, GotoChanges DEF IInv, ModerateRemove
    <3> QED  BY <3>1, FreshSound DEF Idle, Thread
  <2> QED  BY <2>1, <2>2
<1> QED  BY <1>1, <1>2

LEMMA EventSound ==
    ASSUME IInv, NEW w \in Workers, HandleEvent(w)
    PROVE  CallSound(calls[w])' /\ Others(w)
<1>1. PICK e \in events :
        Goto(w, [Idle EXCEPT !.at = "page", !.op = "event", !.target = e[1], !.version = e[2]])
  BY DEF HandleEvent
<1>2. /\ calls'[w] = [Idle EXCEPT !.at = "page", !.op = "event", !.target = e[1], !.version = e[2]]
      /\ Others(w)
  BY <1>1, GotoChanges DEF IInv
<1>3. e[1] \in Roots /\ e[2] <= job[e[1]].version /\ job[e[1]].state # "none" /\ job' = job
  BY DEF IInv, TypeOK, EventsSound, HandleEvent
<1>4. /\ calls'[w].page = {} /\ calls'[w].op # "leave" /\ calls'[w].at = "page"
      /\ calls'[w].target = e[1] /\ calls'[w].version = e[2]
  BY <1>2 DEF Idle
<1> QED  BY <1>2, <1>3, <1>4, ThreadSound

LEMMA LeaveSound == ASSUME IInv, NEW w \in Workers, Leave(w) PROVE CallSound(calls[w])' /\ Others(w)
<1>1. calls'[w] = [Idle EXCEPT !.at = "next", !.op = "leave", !.todo = Authored] /\ Others(w)
  BY GotoChanges DEF IInv, Leave
<1>2. /\ calls'[w].page = {} /\ calls'[w].op = "leave" /\ calls'[w].at = "next"
      /\ calls'[w].todo = Authored
  BY <1>1 DEF Idle
<1>3. \A c \in Comments : Owed(c)' => c \in Authored
  BY DEF Leave, Owed, Authored, Exists
<1> QED  BY <1>1, <1>2, <1>3 DEF CallSound, Leave, Thread

LEMMA ModerateSound ==
    ASSUME IInv, Steady, NEW w \in Workers, NEW c \in Comments, NEW op \in {"hold", "restore"}, Moderate(w, c, op)
    PROVE  \A v \in Workers : CallSound(calls[v])'
<1> SUFFICES ASSUME NEW v \in Workers PROVE CallSound(calls[v])'
  OBVIOUS
<1>1. CASE v = w
  <2>1. calls'[w].page = {} /\ calls'[w].op # "leave" /\ calls'[w].at \in {"sync", "count"}
    BY DEF Moderate, Moderated, Idle
  <2> QED  BY <1>1, <2>1, FreshSound DEF Thread
<1>2. CASE v # w
  <2>1. PICK k \in Call : k = calls[v] /\ CallSound(k)
    BY DEF IInv, TypeOK
  <2>2. calls'[v] = k \/ calls'[v] = [k EXCEPT !.alone = FALSE]
    BY <1>2, <2>1 DEF Moderate, Moderated
  <2>3. /\ calls'[v].page = k.page /\ calls'[v].at = k.at /\ calls'[v].target = k.target
        /\ calls'[v].version = k.version /\ calls'[v].op = k.op /\ calls'[v].todo = k.todo
    BY <2>2 DEF Call
  <2>4. CallSound(k)'
    BY <2>1, CallKept
  <2> QED  BY <2>3, <2>4 DEF CallSound, Due
<1> QED  BY <1>1, <1>2

(* A step of a call whose thread, target and debts stay what they were.    *)
LEMMA SameSound ==
    ASSUME NEW w \in Workers, NEW k \in Call, CallSound(k)',
           calls'[w].page \cap Roots = {}, calls'[w].op = k.op, calls'[w].todo = k.todo,
           \/ calls'[w].at \notin Thread \cup {"next", "storeAll"}
           \/ /\ calls'[w].at \in {"page", "batch"} /\ k.at \in Thread
              /\ calls'[w].target = k.target /\ calls'[w].version = k.version
    PROVE  CallSound(calls[w])'
BY DEF CallSound, Thread

LEMMA NextCommentSound ==
    ASSUME IInv, Steady, NEW w \in Workers, LeaveNext(w)
    PROVE  CallSound(calls[w])' /\ Others(w)
<1>1. PICK k \in Call : k = calls[w] /\ CallSound(k) /\ CallSound(k)' /\ k.at = "next"
  BY CallKept DEF IInv, TypeOK, LeaveNext
<1>2. PICK c \in Following(k) :
        LET rest == [k EXCEPT !.todo = @ \ {c}] IN
        CASE ~Exists(c) -> Goto(w, rest) /\ UNCHANGED <<comment, count, job, events>>
          [] Exists(c) /\ ~IsRoot(c) -> RemoveReply(c) /\ Goto(w, rest)
          [] Exists(c) /\ IsRoot(c) ->
               /\ MarkRoot(c)
               /\ Goto(w, [rest EXCEPT !.at = "page", !.target = c, !.version = job[c].version + 1])
  BY <1>1 DEF LeaveNext
<1>3. c \in Comments /\ k.op = "leave"
  BY <1>1, <1>2 DEF Following, Call, Roots, CallSound
<1>4. leaving' /\ \A d \in Comments : Owed(d)' => d \in k.todo
  BY <1>1, <1>3 DEF CallSound
<1> DEFINE rest == [k EXCEPT !.todo = @ \ {c}]
<1>5. rest.page = k.page /\ rest.op = "leave" /\ rest.at = "next" /\ rest.todo = k.todo \ {c}
  BY <1>1, <1>3 DEF Call
<1>6. k.page \cap Roots = {}
  BY <1>1 DEF CallSound
<1>7. ASSUME ~Owed(c)', calls'[w].page = k.page, calls'[w].op = "leave", calls'[w].todo = k.todo \ {c},
             \/ calls'[w].at = "next"
             \/ /\ calls'[w].at = "page" /\ calls'[w].target \in Roots
                /\ calls'[w].version <= job'[calls'[w].target].version
                /\ job'[calls'[w].target].state = "ready"
      PROVE  CallSound(calls[w])'
  BY <1>4, <1>6, <1>7 DEF CallSound, Thread
<1>8. CASE ~Exists(c)
  <2>1. calls'[w] = rest /\ Others(w) /\ comment' = comment
    BY <1>2, <1>8, GotoChanges DEF IInv
  <2>2. ~Owed(c)'
    BY <1>8, <2>1 DEF Owed, Exists
  <2> QED  BY <1>5, <1>7, <2>1, <2>2
<1>9. CASE Exists(c) /\ ~IsRoot(c)
  <2>1. calls'[w] = rest /\ Others(w) /\ RemoveReply(c)
    BY <1>2, <1>9, GotoChanges DEF IInv
  <2>2. ~Owed(c)'
    BY <1>3, <2>1 DEF IInv, TypeOK, Comment, RemoveReply, Owed, Exists
  <2> QED  BY <1>5, <1>7, <2>1, <2>2
<1>10. CASE Exists(c) /\ IsRoot(c)
  <2>1. calls'[w] = [rest EXCEPT !.at = "page", !.target = c, !.version = job[c].version + 1]
    BY <1>2, <1>10, GotoChanges DEF IInv
  <2>2. Others(w) /\ MarkRoot(c) /\ c \in Roots
    BY <1>2, <1>3, <1>10, GotoChanges DEF IInv, Roots
  <2>3. /\ job'[c].state = "ready" /\ job'[c].version = job[c].version + 1
        /\ job[c].version + 1 \in Nat /\ comment'[c].status = "deleting"
    BY <2>2, MarkQueues DEF IInv
  <2>4. ~Owed(c)'
    BY <1>10, <2>3 DEF Owed
  <2>5. /\ calls'[w].page = k.page /\ calls'[w].op = "leave" /\ calls'[w].todo = k.todo \ {c}
        /\ calls'[w].at = "page" /\ calls'[w].target = c /\ calls'[w].version = job[c].version + 1
    BY <1>5, <2>1 DEF Call
  <2> QED  BY <1>7, <2>2, <2>3, <2>4, <2>5
<1> QED  BY <1>8, <1>9, <1>10

(* The steps that delete a thread.                                         *)
LEMMA ReadPageSound ==
    ASSUME IInv, Steady, NEW w \in Workers, ReadPage(w)
    PROVE  CallSound(calls[w])' /\ Others(w)
<1>1. PICK k \in Call : k = calls[w] /\ CallSound(k)' /\ k.at = "page"
  BY CallKept DEF IInv, TypeOK, ReadPage
<1>2. PICK S \in SUBSET Undeleted(k.target) :
        /\ IsPage(S, Undeleted(k.target))
        /\ Goto(w, [k EXCEPT !.at = IF S = {} THEN "tally" ELSE "batch", !.page = S])
  BY <1>1 DEF ReadPage
<1>3. calls'[w] = [k EXCEPT !.at = IF S = {} THEN "tally" ELSE "batch", !.page = S] /\ Others(w)
  BY <1>2, GotoChanges DEF IInv
<1>4. S \cap Roots = {}
  BY <1>2 DEF Undeleted, Replies, Roots, IsRoot
<1>5. S = {} => (Undeleted(k.target))' = {}
  <2> SUFFICES ASSUME S = {} PROVE Undeleted(k.target) = {}
    BY DEF ReadPage, Undeleted, Exists
  <2> DEFINE rest == Undeleted(k.target)
  <2>1. IsFiniteSet(rest)
    BY FS_Subset, ThreadAssumptions DEF Undeleted, Replies
  <2>2. Cardinality({}) = 0 /\ Cardinality(rest) \in Nat
    BY <2>1, FS_EmptySet, FS_CardinalityType
  <2>3. Cardinality(rest) = 0
    BY <1>2, <2>2, ThreadAssumptions DEF IsPage
  <2> QED  BY <2>1, <2>3, FS_EmptySet
<1>6. /\ calls'[w].page = S /\ calls'[w].op = k.op /\ calls'[w].todo = k.todo
      /\ calls'[w].target = k.target /\ calls'[w].version = k.version
      /\ calls'[w].at = IF S = {} THEN "tally" ELSE "batch"
  BY <1>3 DEF Call
<1> QED  BY <1>1, <1>3, <1>4, <1>5, <1>6 DEF CallSound, Thread

LEMMA FinishedSound ==
    ASSUME IInv, Steady, NEW w \in Workers, Finished(w)
    PROVE  CallSound(calls[w])' /\ Others(w)
<1>1. PICK k \in Call : k = calls[w] /\ CallSound(k)'
  BY CallKept DEF IInv, TypeOK
<1>2. calls'[w] = AfterThread(k) /\ Others(w)
  BY <1>1, GotoChanges DEF IInv, Finished
<1>3. CASE k.op = "leave"
  <2>1. calls'[w] = [k EXCEPT !.at = "next", !.page = {}]
    BY <1>2, <1>3 DEF AfterThread
  <2>2. /\ calls'[w].page = {} /\ calls'[w].op = "leave" /\ calls'[w].todo = k.todo
        /\ calls'[w].at = "next"
    BY <1>3, <2>1 DEF Call
  <2> QED  BY <1>1, <1>2, <1>3, <2>2 DEF CallSound, Thread
<1>4. CASE k.op # "leave"
  <2>1. CASE k.op = "remove"
    <3>1. calls'[w] = [k EXCEPT !.at = "count", !.page = {}]
      BY <1>2, <2>1 DEF AfterThread
    <3>2. calls'[w].page = {} /\ calls'[w].op = k.op /\ calls'[w].at = "count"
      BY <3>1 DEF Call
    <3> QED  BY <1>2, <1>4, <3>2, FreshSound DEF Thread
  <2>2. CASE k.op # "remove"
    BY <1>2, <1>4, <2>2, IdleSound DEF AfterThread
  <2> QED  BY <2>1, <2>2
<1> QED  BY <1>3, <1>4

(* A step of a running call.                                               *)
LEMMA StepSound ==
    ASSUME IInv, Steady, NEW w \in Workers, WorkerStep(w)
    PROVE  CallSound(calls[w])' /\ Others(w)
<1>0. PICK k \in Call : k = calls[w] /\ CallSound(k) /\ CallSound(k)'
  BY CallKept DEF IInv, TypeOK
<1>1. CASE ReadPage(w)
  BY <1>1, ReadPageSound
<1>2. CASE NotDue(w) \/ FinishThread(w)
  BY <1>2, FinishedSound DEF NotDue, FinishThread
<1>3. CASE LeaveNext(w)
  BY <1>3, NextCommentSound
<1>4. CASE DeletePage(w)
  <2>1. calls'[w] = AfterBatch(k) /\ Others(w) /\ k.at = "batch"
    BY <1>0, <1>4, GotoChanges DEF IInv, DeletePage
  <2>2. /\ calls'[w].page = {} /\ calls'[w].op = k.op /\ calls'[w].todo = k.todo
        /\ calls'[w].target = k.target /\ calls'[w].version = k.version /\ calls'[w].at = "page"
    BY <2>1 DEF AfterBatch, Call
  <2> QED  BY <1>0, <2>1, <2>2, SameSound DEF Thread
<1>5. CASE TallyShown(w)
  <2>1. calls'[w] = [k EXCEPT !.at = "finish", !.counted = Cardinality(Shown)] /\ Others(w) /\ k.at = "tally"
    BY <1>0, <1>5, GotoChanges DEF IInv, TallyShown
  <2>2. /\ calls'[w].page = k.page /\ calls'[w].op = k.op /\ calls'[w].todo = k.todo
        /\ calls'[w].target = k.target /\ calls'[w].version = k.version /\ calls'[w].at = "finish"
    BY <2>1 DEF Call
  <2> QED  BY <1>0, <2>1, <2>2 DEF CallSound, Thread, Due
<1>6. CASE ReadReplies(w)
  <2>1. PICK S \in SUBSET Undeleted(k.target) :
          Goto(w, [k EXCEPT !.at = "write", !.seen = @ \cup S, !.page = {c \in S : Qualifies(c, k.op)}])
    BY <1>0, <1>6 DEF ReadReplies
  <2>2. /\ calls'[w] = [k EXCEPT !.at = "write", !.seen = @ \cup S, !.page = {c \in S : Qualifies(c, k.op)}]
        /\ Others(w)
    BY <2>1, GotoChanges DEF IInv
  <2>3. /\ calls'[w].page \subseteq S /\ calls'[w].op = k.op /\ calls'[w].todo = k.todo
        /\ calls'[w].at = "write"
    BY <2>2 DEF Call
  <2>4. S \cap Roots = {}
    BY <2>1 DEF Undeleted, Replies, Roots, IsRoot
  <2>5. calls'[w].page \cap Roots = {}
    BY <2>3, <2>4
  <2> QED  BY <1>0, <2>2, <2>3, <2>5, SameSound DEF Thread
<1>7. CASE WriteReplies(w)
  <2>1. calls'[w] = [k EXCEPT !.at = "sync", !.page = {}] /\ Others(w)
    BY <1>0, <1>7, GotoChanges DEF IInv, WriteReplies
  <2>2. calls'[w].page = {} /\ calls'[w].op = k.op /\ calls'[w].todo = k.todo /\ calls'[w].at = "sync"
    BY <2>1 DEF Call
  <2> QED  BY <1>0, <2>1, <2>2, SameSound DEF Thread
<1>8. CASE EndSync(w)
  <2>1. calls'[w] = [k EXCEPT !.at = "count", !.seen = {}] /\ Others(w)
    BY <1>0, <1>8, GotoChanges DEF IInv, EndSync
  <2>2. calls'[w].page = k.page /\ calls'[w].op = k.op /\ calls'[w].todo = k.todo /\ calls'[w].at = "count"
    BY <2>1 DEF Call
  <2> QED  BY <1>0, <2>1, <2>2, SameSound DEF Thread, CallSound
<1>9. CASE CountShown(w)
  <2>1. calls'[w] = [k EXCEPT !.at = "store", !.counted = Cardinality(Shown)] /\ Others(w)
    BY <1>0, <1>9, GotoChanges DEF IInv, CountShown
  <2>2. calls'[w].page = k.page /\ calls'[w].op = k.op /\ calls'[w].todo = k.todo /\ calls'[w].at = "store"
    BY <2>1 DEF Call
  <2> QED  BY <1>0, <2>1, <2>2, SameSound DEF Thread, CallSound
<1>10. CASE StoreCount(w)
  <2>1. calls'[w] = AfterCount(k) /\ Others(w)
    BY <1>0, <1>10, GotoChanges DEF IInv, StoreCount
  <2>2. CASE calls'[w] = Idle
    BY <2>1, <2>2, IdleSound
  <2>3. CASE calls'[w] = [k EXCEPT !.at = "countReplies"]
    <3>1. /\ calls'[w].page = k.page /\ calls'[w].op = k.op /\ calls'[w].todo = k.todo
          /\ calls'[w].at = "countReplies"
      BY <2>3 DEF Call
    <3> QED  BY <1>0, <2>1, <3>1, SameSound DEF Thread, CallSound
  <2> QED  BY <2>1, <2>2, <2>3 DEF AfterCount
<1>11. CASE CountReplies(w)
  <2>1. /\ calls'[w] = [k EXCEPT !.at = "storeReplies", !.counted = Cardinality(ShownReplies(RootOf[k.target]))]
        /\ Others(w)
    BY <1>0, <1>11, GotoChanges DEF IInv, CountReplies
  <2>2. /\ calls'[w].page = k.page /\ calls'[w].op = k.op /\ calls'[w].todo = k.todo
        /\ calls'[w].at = "storeReplies"
    BY <2>1 DEF Call
  <2> QED  BY <1>0, <2>1, <2>2, SameSound DEF Thread, CallSound
<1>12. CASE LeaveCount(w)
  <2>1. /\ calls'[w] = [k EXCEPT !.at = "storeAll", !.counted = Cardinality({c \in Comments : Exists(c)})]
        /\ Others(w) /\ k.at = "next" /\ k.todo = {}
    BY <1>0, <1>12, GotoChanges DEF IInv, LeaveCount
  <2>2. /\ calls'[w].page = k.page /\ calls'[w].op = k.op /\ calls'[w].todo = k.todo
        /\ calls'[w].at = "storeAll"
    BY <2>1 DEF Call
  <2> QED  BY <1>0, <2>1, <2>2 DEF Thread, CallSound
<1>13. CASE WriteFails(w) \/ StoreReplies(w) \/ LeaveStore(w)
  <2>1. calls'[w] = Idle /\ Others(w)
    BY <1>13, GotoChanges DEF IInv, WriteFails, StoreReplies, LeaveStore
  <2> QED  BY <2>1, IdleSound
<1> QED  BY <1>1, <1>2, <1>3, <1>4, <1>5, <1>6, <1>7, <1>8, <1>9, <1>10, <1>11, <1>12, <1>13 DEF WorkerStep

LEMMA NextSound == ASSUME IInv, [Next]_vars PROVE \A w \in Workers : CallSound(calls[w])'
<1>0. Steady
  BY NextSteady
<1>1. ASSUME calls' = calls, NEW w \in Workers PROVE CallSound(calls[w])'
  <2>1. PICK k \in Call : k = calls[w] /\ CallSound(k)
    BY DEF IInv, TypeOK
  <2>2. CallSound(k)'
    BY <1>0, <2>1, CallKept
  <2>3. calls'[w] = k
    BY <1>1, <2>1
  <2> QED  BY <2>2, <2>3 DEF CallSound, Due
<1>2. CASE UNCHANGED vars
  BY <1>1, <1>2 DEF vars
<1>3. ASSUME NEW c \in Comments, Save(c) \/ DeleteReply(c) PROVE calls' = calls
  BY <1>3 DEF Save, DeleteReply
<1>4. ASSUME NEW w \in Workers, Die(w) PROVE CallSound(calls[w])' /\ Others(w)
  BY <1>4, GotoChanges, IdleSound DEF IInv, Die
<1>5. CASE Next
  <2>1. CASE \E c \in Comments : Save(c) \/ DeleteReply(c)
    BY <1>1, <1>3, <2>1
  <2>2. ASSUME NEW w \in Workers, NEW c \in Comments, NEW op \in {"hold", "restore"}, Moderate(w, c, op)
        PROVE  \A v \in Workers : CallSound(calls[v])'
    BY <1>0, <2>2, ModerateSound
  <2>3. ASSUME NEW w \in Workers,
               \/ \E r \in Roots : DeleteRoot(w, r)
               \/ \E c \in Comments : ModerateRemove(w, c)
               \/ Leave(w) \/ HandleEvent(w) \/ WorkerStep(w) \/ Die(w)
        PROVE  \A v \in Workers : CallSound(calls[v])'
    <3>1. CallSound(calls[w])' /\ Others(w)
      BY <1>0, <1>4, <2>3, RootCallsSound, LeaveSound, EventSound, StepSound
    <3> QED  BY <1>0, <3>1, OthersSound
  <2> QED  BY <1>5, <2>1, <2>2, <2>3 DEF Next
<1> QED  BY <1>2, <1>5
-----------------------------------------------------------------------------
(* An account deletion goes through when nothing is owed, and later the    *)
(* debt does not grow.                                                     *)
LEMMA NextDeparted == ASSUME IInv, [Next]_vars PROVE Departed'
<1>0. Steady
  BY NextSteady
<1>1. ASSUME ghost'.left = ghost.left PROVE Departed'
  BY <1>0, <1>1, OwedShrinks DEF IInv, Departed, Steady
<1>2. ASSUME NEW w \in Workers, LeaveStore(w) PROVE Departed'
  <2>1. leaving /\ \A c \in Comments : ~Owed(c)
    BY <1>2 DEF IInv, CallSound, LeaveStore
  <2> QED  BY <1>0, <2>1, OwedShrinks DEF Departed, Steady
<1>3. ASSUME NEW w \in Workers, WorkerStep(w), ~LeaveStore(w) PROVE ghost'.left = ghost.left
  BY <1>3 DEF WorkerStep, ReadPage, NotDue, DeletePage, TallyShown, FinishThread, ReadReplies, WriteReplies,
     WriteFails, EndSync, CountShown, StoreCount, CountReplies, StoreReplies, LeaveNext, LeaveCount,
     Abandoned, IInv, TypeOK, Ghost
<1>4. CASE UNCHANGED vars
  BY <1>1, <1>4 DEF vars
<1>5. ASSUME NEW c \in Comments, Save(c) \/ DeleteReply(c) PROVE ghost'.left = ghost.left
  BY <1>5 DEF Save, DeleteReply, IInv, TypeOK, Ghost
<1>6. ASSUME NEW w \in Workers,
             \/ \E r \in Roots : DeleteRoot(w, r)
             \/ \E c \in Comments : ModerateRemove(w, c)
             \/ Leave(w) \/ HandleEvent(w)
      PROVE  ghost'.left = ghost.left
  BY <1>6 DEF DeleteRoot, ModerateRemove, Leave, HandleEvent
<1>7. ASSUME NEW w \in Workers, NEW c \in Comments, NEW op \in {"hold", "restore"}, Moderate(w, c, op)
      PROVE  ghost'.left = ghost.left
  BY <1>7 DEF Moderate, IInv, TypeOK, Ghost
<1>8. ASSUME NEW w \in Workers, Die(w) PROVE ghost'.left = ghost.left
  BY <1>8 DEF Die, Abandoned, IInv, TypeOK, Ghost
<1>9. CASE Next
  BY <1>1, <1>2, <1>3, <1>5, <1>6, <1>7, <1>8, <1>9 DEF Next
<1> QED  BY <1>4, <1>9
-----------------------------------------------------------------------------
LEMMA InitInv == Init => IInv
<1> SUFFICES ASSUME Init PROVE IInv
  OBVIOUS
<1>1. PICK shape \in [Comments -> {"unborn", "active", "held", "heldByThread"}] :
         /\ AtRest(shape)
         /\ comment = [c \in Comments |-> Document(shape, c)]
         /\ ghost = [named |-> {c \in Comments : shape[c] = "held"}, crossed |-> {},
                     doubt |-> FALSE, doubtful |-> {}, tidy |-> Roots,
                     left |-> FALSE, overlooked |-> {}]
  BY DEF Init
<1>2. \A c \in Comments : /\ comment[c].status = IF shape[c] \in {"held", "heldByThread"} THEN "hold" ELSE shape[c]
                          /\ comment[c].byThread = (shape[c] = "heldByThread")
  BY <1>1 DEF Document
<1>3. Marked
  BY <1>2 DEF Marked, Init, Roots
<1>4. NamedHeld
  BY <1>1, <1>2 DEF NamedHeld
<1>5. RepliesHaveRoot
  <2> SUFFICES ASSUME NEW c \in Comments, Exists(c) PROVE Exists(RootOf[c])
    BY DEF RepliesHaveRoot
  <2>1. RootOf[c] \in Comments /\ shape[RootOf[c]] # "unborn"
    BY <1>1, <1>2, ThreadAssumptions DEF AtRest, Exists
  <2> QED  BY <1>2, <2>1 DEF Exists
<1>6. EventsSound /\ Departed
  BY <1>1 DEF EventsSound, Departed, Init
<1>7. ASSUME NEW w \in Workers PROVE CallSound(calls[w])
  <2>1. calls[w] = Idle
    BY DEF Init
  <2>2. calls[w].page = {} /\ calls[w].at = "idle" /\ calls[w].op = "none"
    BY <2>1 DEF Idle
  <2> QED  BY <2>2 DEF CallSound, Thread
<1> QED  BY <1>3, <1>4, <1>5, <1>6, <1>7, InitTyped DEF IInv

LEMMA NextInv == IInv /\ [Next]_vars => IInv'
<1> SUFFICES ASSUME IInv, [Next]_vars PROVE IInv'
  OBVIOUS
<1>1. TypeOK'
  BY NextTyped DEF IInv
<1>2. Marked' /\ RepliesHaveRoot'
  BY NextSteady, MarksKept, RootsKept
<1>3. EventsSound' /\ Departed' /\ NamedHeld'
  BY NextEvents, NextDeparted, NextNamed
<1>4. ASSUME NEW w \in Workers PROVE CallSound(calls[w])'
  BY <1>4, NextSound
<1> QED  BY <1>1, <1>2, <1>3, <1>4 DEF IInv

LEMMA Invariance == Spec => []IInv
BY InitInv, NextInv, PTL DEF Spec

(* No reply is ever left without its root, however deletions, readers,     *)
(* moderators and deaths interleave (socialService.js:601-714).            *)
THEOREM RepliesKeepTheirRoot == Spec => []RepliesHaveRoot
<1>1. IInv => RepliesHaveRoot
  BY DEF IInv
<1> QED  BY <1>1, Invariance, PTL

(* A hold by name is never lifted by the moderation of the thread, unless  *)
(* the thread's batch crossed that hold (adminService.js:260-302, 431-533).*)
THEOREM NamedHoldsStand == Spec => []OwnHoldStands
<1>1. IInv => OwnHoldStands
  BY DEF IInv, NamedHeld, OwnHoldStands
<1> QED  BY <1>1, Invariance, PTL

(* An account deletion that has gone through leaves no comment that its    *)
(* author had written, but roots of threads that a job is taking away      *)
(* (deletionService.js:205-255).                                           *)
THEOREM LeaversAreGone == Spec => []LeaverLeavesNothing
<1>1. IInv => LeaverLeavesNothing
  <2> SUFFICES ASSUME IInv, ghost.left, NEW c \in Leaver \ ghost.overlooked, Exists(c)
               PROVE  IsRoot(c) /\ comment[c].status = "deleting" /\ job[c].state = "ready"
    BY DEF LeaverLeavesNothing
  <2>1. c \in Comments
    BY ThreadAssumptions
  <2>2. IsRoot(c) /\ comment[c].status = "deleting"
    BY <2>1 DEF IInv, Departed, Owed
  <2> QED  BY <2>1, <2>2 DEF IInv, Marked, Roots
<1> QED  BY <1>1, Invariance, PTL
-----------------------------------------------------------------------------
(* What a call looks like: only moderations synchronise a thread, a page   *)
(* holds replies of the call's own thread, and between pages there is none.*)
Moderating(k) == k.op \in {"hold", "restore"}
CallShape(k) ==
    /\ k.at \in Syncing => Moderating(k) /\ k.target \in Roots
    /\ k.at \in {"write", "batch"} => k.page \subseteq Replies(k.target)
    /\ k.at = "sync" => k.page = {}
Shaped == \A w \in Workers : CallShape(calls[w])

(* A moderation that has not stored the post's count, and one that has not *)
(* stored both counts.                                                     *)
Unstored(k) == Moderating(k) /\ k.at \in {"sync", "write", "count", "store"}
Busy(k) == Moderating(k) /\ k.at \in Syncing \cup Counting

(* A call goes on, begins or ends; it does not turn into a moderation.     *)
Carries(k, n) ==
    /\ CallShape(n)
    /\ Moderating(n) => n.op = k.op /\ n.target = k.target /\ n.alone = k.alone

LEMMA PlainShape ==
    ASSUME NEW n, n.at \notin {"sync", "write", "batch"}
    PROVE  CallShape(n)
BY DEF CallShape, Syncing

LEMMA IdleFacts ==
    /\ ~Moderating(Idle) /\ CallShape(Idle) /\ ~Unstored(Idle) /\ ~Busy(Idle)
    /\ Idle.at \notin Syncing
BY DEF Moderating, Unstored, Busy, CallShape, Idle, Syncing

LEMMA StepCarries ==
    ASSUME IInv, Shaped, NEW w \in Workers, WorkerStep(w)
    PROVE  /\ Others(w) /\ Carries(calls[w], calls'[w])
           /\ StoreCount(w) \/ WriteFails(w) \/ (Unstored(calls[w]) => Unstored(calls'[w]))
           /\ StoreReplies(w) \/ WriteFails(w) \/ (Busy(calls[w]) => Busy(calls'[w]))
           /\ ReadReplies(w) \/ WriteReplies(w) \/ calls'[w].at \notin Syncing
<1>0. PICK k \in Call : k = calls[w] /\ CallSound(k) /\ CallShape(k)
  BY DEF IInv, TypeOK, Shaped
<1> DEFINE n == calls'[w]
<1> HIDE DEF n
<1> SUFFICES /\ Others(w) /\ Carries(k, n)
             /\ StoreCount(w) \/ WriteFails(w) \/ (Unstored(k) => Unstored(n))
             /\ StoreReplies(w) \/ WriteFails(w) \/ (Busy(k) => Busy(n))
             /\ ReadReplies(w) \/ WriteReplies(w) \/ n.at \notin Syncing
  BY <1>0 DEF n
<1>1. CASE ReadPage(w)
  <2>1. PICK S \in SUBSET Undeleted(k.target) :
          Goto(w, [k EXCEPT !.at = IF S = {} THEN "tally" ELSE "batch", !.page = S])
    BY <1>0, <1>1 DEF ReadPage
  <2>2. n = [k EXCEPT !.at = IF S = {} THEN "tally" ELSE "batch", !.page = S] /\ Others(w) /\ k.at = "page"
    BY <1>0, <1>1, <2>1, GotoChanges DEF IInv, ReadPage, n
  <2>3. /\ n.op = k.op /\ n.target = k.target /\ n.alone = k.alone /\ n.page = S
        /\ n.at \in {"tally", "batch"}
    BY <2>2 DEF Call
  <2>4. n.page \subseteq Replies(n.target)
    BY <2>1, <2>3 DEF Undeleted
  <2> QED  BY <2>2, <2>3, <2>4 DEF Carries, CallShape, Moderating, Unstored, Busy, Syncing, Counting
<1>2. CASE NotDue(w) \/ FinishThread(w)
  <2>1. n = AfterThread(k) /\ Others(w) /\ k.at \in {"page", "finish"}
    BY <1>0, <1>2, GotoChanges DEF IInv, NotDue, FinishThread, Finished, n
  <2>2. ~Unstored(k) /\ ~Busy(k)
    BY <2>1 DEF Unstored, Busy, Syncing, Counting
  <2>3. n = Idle \/ (n.op \in {"leave", "remove"} /\ n.at \in {"next", "count"})
    BY <2>1 DEF AfterThread, Call
  <2>4. ~Moderating(n) /\ CallShape(n) /\ n.at \notin Syncing
    BY <2>3, IdleFacts, PlainShape DEF Moderating, Syncing
  <2> QED  BY <2>1, <2>2, <2>4 DEF Carries
<1>3. CASE LeaveNext(w)
  <2>1. k.at = "next" /\ k.op = "leave"
    BY <1>0, <1>3 DEF LeaveNext, CallSound
  <2>2. PICK c :
          \/ Goto(w, [k EXCEPT !.todo = @ \ {c}])
          \/ Goto(w, [[k EXCEPT !.todo = @ \ {c}] EXCEPT !.at = "page", !.target = c, !.version = job[c].version + 1])
    BY <1>0, <1>3 DEF LeaveNext
  <2>3. Others(w) /\ n.op = "leave" /\ n.at \in {"next", "page"}
    <3>1. \/ n = [k EXCEPT !.todo = @ \ {c}]
          \/ n = [[k EXCEPT !.todo = @ \ {c}] EXCEPT !.at = "page", !.target = c, !.version = job[c].version + 1]
      BY <2>2, GotoChanges DEF IInv, n
    <3>2. Others(w)
      BY <2>2, GotoChanges DEF IInv
    <3> QED  BY <2>1, <3>1, <3>2 DEF Call
  <2>4. ~Moderating(n) /\ CallShape(n) /\ ~Unstored(k) /\ ~Busy(k)
    BY <2>1, <2>3, PlainShape DEF Moderating, Unstored, Busy
  <2> QED  BY <2>3, <2>4 DEF Carries, Syncing
<1>4. CASE DeletePage(w)
  <2>1. n = AfterBatch(k) /\ Others(w) /\ k.at = "batch"
    BY <1>0, <1>4, GotoChanges DEF IInv, DeletePage, n
  <2>2. n.op = k.op /\ n.target = k.target /\ n.alone = k.alone /\ n.at = "page"
    BY <2>1 DEF AfterBatch, Call
  <2> QED  BY <2>1, <2>2, PlainShape DEF Carries, Moderating, Unstored, Busy, Syncing, Counting
<1>5. CASE TallyShown(w)
  <2>1. n = [k EXCEPT !.at = "finish", !.counted = Cardinality(Shown)] /\ Others(w) /\ k.at = "tally"
    BY <1>0, <1>5, GotoChanges DEF IInv, TallyShown, n
  <2>2. n.op = k.op /\ n.target = k.target /\ n.alone = k.alone /\ n.at = "finish"
    BY <2>1 DEF Call
  <2> QED  BY <2>1, <2>2, PlainShape DEF Carries, Moderating, Unstored, Busy, Syncing, Counting
<1>6. CASE ReadReplies(w)
  <2>1. PICK S \in SUBSET Undeleted(k.target) :
          Goto(w, [k EXCEPT !.at = "write", !.seen = @ \cup S, !.page = {c \in S : Qualifies(c, k.op)}])
    BY <1>0, <1>6 DEF ReadReplies
  <2>2. /\ n = [k EXCEPT !.at = "write", !.seen = @ \cup S, !.page = {c \in S : Qualifies(c, k.op)}]
        /\ Others(w) /\ k.at = "sync"
    BY <1>0, <1>6, <2>1, GotoChanges DEF IInv, ReadReplies, n
  <2>3. n.op = k.op /\ n.target = k.target /\ n.alone = k.alone /\ n.at = "write" /\ n.page \subseteq S
    BY <2>2 DEF Call
  <2>4. n.page \subseteq Replies(n.target) /\ Moderating(k) /\ k.target \in Roots
    BY <1>0, <2>1, <2>2, <2>3 DEF Undeleted, CallShape, Syncing
  <2> QED  BY <1>6, <2>2, <2>3, <2>4 DEF Carries, CallShape, Moderating, Unstored, Busy, Syncing
<1>7. CASE WriteReplies(w)
  <2>1. n = [k EXCEPT !.at = "sync", !.page = {}] /\ Others(w) /\ k.at = "write"
    BY <1>0, <1>7, GotoChanges DEF IInv, WriteReplies, n
  <2>2. n.op = k.op /\ n.target = k.target /\ n.alone = k.alone /\ n.at = "sync" /\ n.page = {}
    BY <2>1 DEF Call
  <2> QED  BY <1>0, <1>7, <2>1, <2>2 DEF Carries, CallShape, Moderating, Unstored, Busy, Syncing
<1>8. CASE EndSync(w)
  <2>1. n = [k EXCEPT !.at = "count", !.seen = {}] /\ Others(w)
    BY <1>0, <1>8, GotoChanges DEF IInv, EndSync, n
  <2>2. n.op = k.op /\ n.target = k.target /\ n.alone = k.alone /\ n.at = "count"
    BY <2>1 DEF Call
  <2> QED  BY <2>1, <2>2, PlainShape DEF Carries, Moderating, Unstored, Busy, Syncing, Counting
<1>9. CASE CountShown(w)
  <2>1. n = [k EXCEPT !.at = "store", !.counted = Cardinality(Shown)] /\ Others(w)
    BY <1>0, <1>9, GotoChanges DEF IInv, CountShown, n
  <2>2. n.op = k.op /\ n.target = k.target /\ n.alone = k.alone /\ n.at = "store"
    BY <2>1 DEF Call
  <2> QED  BY <2>1, <2>2, PlainShape DEF Carries, Moderating, Unstored, Busy, Syncing, Counting
<1>10. CASE StoreCount(w)
  <2>1. n = AfterCount(k) /\ Others(w) /\ k.at = "store"
    BY <1>0, <1>10, GotoChanges DEF IInv, StoreCount, n
  <2>2. CASE n = Idle
    <3>1. k.op = "remove"
      BY <2>1, <2>2, IdleFacts DEF AfterCount, Idle, Call
    <3> QED  BY <1>10, <2>1, <2>2, <3>1, IdleFacts DEF Carries, Busy, Moderating
  <2>3. CASE n = [k EXCEPT !.at = "countReplies"]
    <3>1. n.op = k.op /\ n.target = k.target /\ n.alone = k.alone /\ n.at = "countReplies"
      BY <2>3 DEF Call
    <3> QED  BY <1>10, <2>1, <3>1, PlainShape DEF Carries, Busy, Moderating, Syncing, Counting
  <2> QED  BY <2>1, <2>2, <2>3 DEF AfterCount
<1>11. CASE CountReplies(w)
  <2>1. /\ n = [k EXCEPT !.at = "storeReplies", !.counted = Cardinality(ShownReplies(RootOf[k.target]))]
        /\ Others(w) /\ k.at = "countReplies"
    BY <1>0, <1>11, GotoChanges DEF IInv, CountReplies, n
  <2>2. n.op = k.op /\ n.target = k.target /\ n.alone = k.alone /\ n.at = "storeReplies"
    BY <2>1 DEF Call
  <2> QED  BY <2>1, <2>2, PlainShape DEF Carries, Moderating, Unstored, Busy, Syncing, Counting
<1>12. CASE LeaveCount(w)
  <2>1. /\ n = [k EXCEPT !.at = "storeAll", !.counted = Cardinality({c \in Comments : Exists(c)})]
        /\ Others(w) /\ k.at = "next"
    BY <1>0, <1>12, GotoChanges DEF IInv, LeaveCount, n
  <2>2. n.op = k.op /\ n.target = k.target /\ n.alone = k.alone /\ n.at = "storeAll"
    BY <2>1 DEF Call
  <2> QED  BY <2>1, <2>2, PlainShape DEF Carries, Moderating, Unstored, Busy, Syncing, Counting
<1>13. CASE WriteFails(w) \/ StoreReplies(w)
  <2>1. n = Idle /\ Others(w) /\ k.at \in {"write", "storeReplies"}
    BY <1>0, <1>13, GotoChanges DEF IInv, WriteFails, StoreReplies, n
  <2>2. StoreReplies(w) => ~Unstored(k)
    BY <1>0 DEF StoreReplies, Unstored
  <2> QED  BY <1>13, <2>1, <2>2, IdleFacts DEF Carries
<1>14. CASE LeaveStore(w)
  <2>1. n = Idle /\ Others(w) /\ k.at = "storeAll"
    BY <1>0, <1>14, GotoChanges DEF IInv, LeaveStore, n
  <2> QED  BY <2>1, IdleFacts DEF Carries, Unstored, Busy, Syncing, Counting
<1> QED  BY <1>1, <1>2, <1>3, <1>4, <1>5, <1>6, <1>7, <1>8, <1>9, <1>10, <1>11, <1>12, <1>13, <1>14 DEF WorkerStep

(* Calls that begin, other than a moderation.                              *)
LEMMA StartCarries ==
    ASSUME IInv, NEW w \in Workers,
           \/ \E r \in Roots : DeleteRoot(w, r)
           \/ \E c \in Comments : ModerateRemove(w, c)
           \/ Leave(w) \/ HandleEvent(w)
    PROVE  Others(w) /\ calls[w] = Idle /\ Carries(calls[w], calls'[w]) /\ ~Moderating(calls'[w])
<1>1. calls[w] = Idle
  BY DEF DeleteRoot, ModerateRemove, Leave, HandleEvent, StartCall
<1>2. Others(w) /\ calls'[w].op \in {"delete", "remove", "leave", "event"} /\ calls'[w].at \in {"page", "count", "next"}
  <2>1. ASSUME NEW r \in Comments, NEW op \in {"delete", "remove"}, StartCall(w, ThreadCall(r, op))
        PROVE  Others(w) /\ calls'[w].op = op /\ calls'[w].at = "page"
    <3>1. Others(w) /\ calls'[w] = ThreadCall(r, op)
      BY <2>1, GotoChanges DEF IInv
    <3> QED  BY <3>1 DEF ThreadCall, Idle
  <2>2. ASSUME NEW c \in Comments, StartCall(w, [Idle EXCEPT !.at = "count", !.op = "remove", !.target = c])
        PROVE  Others(w) /\ calls'[w].op = "remove" /\ calls'[w].at = "count"
    <3>1. Others(w) /\ calls'[w] = [Idle EXCEPT !.at = "count", !.op = "remove", !.target = c]
      BY <2>2, GotoChanges DEF IInv
    <3> QED  BY <3>1 DEF Idle
  <2>3. CASE Leave(w)
    <3>1. Others(w) /\ calls'[w] = [Idle EXCEPT !.at = "next", !.op = "leave", !.todo = Authored]
      BY <2>3, GotoChanges DEF IInv, Leave
    <3> QED  BY <3>1 DEF Idle
  <2>4. CASE HandleEvent(w)
    <3>1. PICK e \in events :
        Goto(w, [Idle EXCEPT !.at = "page", !.op = "event", !.target = e[1], !.version = e[2]])
      BY <2>4 DEF HandleEvent
    <3>2. /\ calls'[w] = [Idle EXCEPT !.at = "page", !.op = "event", !.target = e[1], !.version = e[2]]
          /\ Others(w)
      BY <3>1, GotoChanges DEF IInv
    <3> QED  BY <3>2 DEF Idle
  <2>5. ASSUME NEW r \in Roots, DeleteRoot(w, r)
        PROVE  Others(w) /\ calls'[w].op = "delete" /\ calls'[w].at = "page"
    BY <2>1, <2>5 DEF DeleteRoot, Roots
  <2>6. ASSUME NEW c \in Comments, ModerateRemove(w, c)
        PROVE  Others(w) /\ calls'[w].op = "remove" /\ calls'[w].at \in {"page", "count"}
    BY <2>1, <2>2, <2>6 DEF ModerateRemove
  <2> QED  BY <2>3, <2>4, <2>5, <2>6
<1> QED  BY <1>1, <1>2, PlainShape DEF Carries, Moderating

LEMMA DieCarries ==
    ASSUME IInv, NEW w \in Workers, Die(w)
    PROVE  Others(w) /\ calls'[w] = Idle /\ Carries(calls[w], calls'[w])
<1>1. Others(w) /\ calls'[w] = Idle
  BY GotoChanges DEF IInv, Die
<1> QED  BY <1>1, IdleFacts DEF Carries

(* A moderation begins, and tells those of the same root that it has.      *)
LEMMA ModerateCarries ==
    ASSUME IInv, Shaped, NEW w \in Workers, NEW c \in Comments, NEW op \in {"hold", "restore"}, Moderate(w, c, op)
    PROVE  /\ calls'[w].op = op /\ calls'[w].target = c /\ calls'[w].page = {} /\ calls'[w].seen = {}
           /\ calls'[w].at = IF IsRoot(c) THEN "sync" ELSE "count"
           /\ calls'[w].alone => ~IsRoot(c) \/ ModerationOf(c) = {}
           /\ CallShape(calls'[w])
           /\ \A v \in Workers \ {w} :
                /\ calls'[v] = IF IsRoot(c) /\ v \in ModerationOf(c) THEN [calls[v] EXCEPT !.alone = FALSE]
                                                                     ELSE calls[v]
                /\ CallShape(calls'[v])
<1>1. /\ calls'[w].op = op /\ calls'[w].target = c /\ calls'[w].page = {} /\ calls'[w].seen = {}
      /\ calls'[w].at = IF IsRoot(c) THEN "sync" ELSE "count"
      /\ calls'[w].alone => ~IsRoot(c) \/ ModerationOf(c) = {}
  BY DEF Moderate, Moderated, Idle
<1>2. CallShape(calls'[w])
  BY <1>1 DEF CallShape, Moderating, Syncing, Roots
<1>3. ASSUME NEW v \in Workers \ {w}
      PROVE  /\ calls'[v] = IF IsRoot(c) /\ v \in ModerationOf(c) THEN [calls[v] EXCEPT !.alone = FALSE]
                                                                  ELSE calls[v]
             /\ CallShape(calls'[v])
  <2>1. PICK k \in Call : k = calls[v] /\ CallShape(k)
    BY <1>3 DEF IInv, TypeOK, Shaped
  <2>2. calls'[v] = IF IsRoot(c) /\ v \in ModerationOf(c) THEN [k EXCEPT !.alone = FALSE] ELSE k
    BY <1>3, <2>1 DEF Moderate, Moderated
  <2>3. CallShape([k EXCEPT !.alone = FALSE])
    BY <2>1 DEF CallShape, Call, Moderating
  <2> QED  BY <2>1, <2>2, <2>3
<1> QED  BY <1>1, <1>2, <1>3

(* Steps of the kinds above are all there are.                             *)
LEMMA NextShaped == ASSUME IInv, Shaped, [Next]_vars PROVE Shaped'
<1> SUFFICES ASSUME NEW v \in Workers PROVE CallShape(calls'[v])
  BY DEF Shaped, CallShape, Moderating
<1>1. CASE calls' = calls
  BY <1>1 DEF Shaped
<1>2. ASSUME NEW w \in Workers, Others(w), CallShape(calls'[w]) PROVE CallShape(calls'[v])
  BY <1>2 DEF Others, Shaped
<1>3. ASSUME NEW c \in Comments, Save(c) \/ DeleteReply(c) PROVE calls' = calls
  BY <1>3 DEF Save, DeleteReply
<1>4. ASSUME NEW w \in Workers, NEW c \in Comments, NEW op \in {"hold", "restore"}, Moderate(w, c, op)
      PROVE  CallShape(calls'[v])
  BY <1>4, ModerateCarries
<1>5. ASSUME NEW w \in Workers, WorkerStep(w) \/ Die(w) PROVE CallShape(calls'[v])
  BY <1>2, <1>5, StepCarries, DieCarries DEF Carries
<1>6. ASSUME NEW w \in Workers, \/ \E r \in Roots : DeleteRoot(w, r)
                                \/ \E c \in Comments : ModerateRemove(w, c)
                                \/ Leave(w) \/ HandleEvent(w)
      PROVE  CallShape(calls'[v])
  BY <1>2, <1>6, StartCarries DEF Carries
<1>7. CASE Next
  BY <1>1, <1>3, <1>4, <1>5, <1>6, <1>7 DEF Next
<1> QED  BY <1>1, <1>7 DEF vars

(* No step but a moderation's first makes a call a moderation.             *)
Continues(v) ==
    Moderating(calls'[v]) => /\ calls'[v].op = calls[v].op /\ calls'[v].target = calls[v].target
                             /\ calls'[v].alone = calls[v].alone
Moderates == \E w \in Workers, c \in Comments, op \in {"hold", "restore"} : Moderate(w, c, op)

LEMMA NextContinues == ASSUME IInv, Shaped, [Next]_vars, ~Moderates PROVE \A v \in Workers : Continues(v)
<1>1. CASE calls' = calls
  BY <1>1 DEF Continues
<1>2. ASSUME NEW w \in Workers, Others(w), Carries(calls[w], calls'[w]) PROVE \A v \in Workers : Continues(v)
  BY <1>2 DEF Others, Carries, Continues
<1>3. ASSUME NEW c \in Comments, Save(c) \/ DeleteReply(c) PROVE calls' = calls
  BY <1>3 DEF Save, DeleteReply
<1>4. ASSUME NEW w \in Workers, WorkerStep(w) \/ Die(w) PROVE \A v \in Workers : Continues(v)
  BY <1>2, <1>4, StepCarries, DieCarries
<1>5. ASSUME NEW w \in Workers, \/ \E r \in Roots : DeleteRoot(w, r)
                                \/ \E c \in Comments : ModerateRemove(w, c)
                                \/ Leave(w) \/ HandleEvent(w)
      PROVE  \A v \in Workers : Continues(v)
  BY <1>2, <1>5, StartCarries
<1>6. CASE Next
  BY <1>1, <1>3, <1>4, <1>5, <1>6 DEF Next, Moderates
<1> QED  BY <1>1, <1>6 DEF vars
-----------------------------------------------------------------------------
(* Why a thread follows its root.  A moderation that runs alone finds the  *)
(* root as it left it, or on its way out, and each reply it is done with   *)
(* follows the root; of two moderations of one root none is alone.         *)
Follows(c) ==
    /\ comment[RootOf[c]].status = "hold" => comment[c].status # "active"
    /\ comment[RootOf[c]].status = "active" /\ comment[c].status = "hold" => ~comment[c].byThread
Stance(op) == IF op = "hold" THEN {"hold", "deleting", "gone"} ELSE {"active", "deleting", "gone"}
Passed(k) ==
    /\ comment[k.target].status \in Stance(k.op)
    /\ \A c \in Replies(k.target) \cap (k.seen \ k.page) : Follows(c)
SyncKnows(k) == k.at \in Syncing => k.target \notin ghost.tidy /\ (k.alone => Passed(k))
Solitary == \A v, w \in Workers :
    /\ v # w /\ Moderating(calls[v]) /\ Moderating(calls[w])
    /\ calls[v].target = calls[w].target /\ IsRoot(calls[v].target)
    => ~calls[v].alone
TidyInv == /\ IInv /\ Shaped /\ Solitary /\ ThreadFollowsRoot
           /\ \A w \in Workers : SyncKnows(calls[w])

LEMMA NextSolitary == ASSUME IInv, Shaped, Solitary, [Next]_vars PROVE Solitary'
<1> SUFFICES ASSUME NEW v \in Workers, NEW x \in Workers, v # x,
                    Moderating(calls'[v]), Moderating(calls'[x]),
                    calls'[v].target = calls'[x].target, IsRoot(calls'[v].target)
             PROVE  ~calls'[v].alone
  BY DEF Solitary, Moderating
<1>1. CASE ~Moderates
  <2>1. Continues(v) /\ Continues(x)
    BY <1>1, NextContinues
  <2>2. Moderating(calls[v]) /\ Moderating(calls[x])
    BY <2>1 DEF Continues, Moderating
  <2> QED  BY <2>1, <2>2 DEF Continues, Solitary
<1>2. ASSUME NEW w \in Workers, NEW c \in Comments, NEW op \in {"hold", "restore"}, Moderate(w, c, op)
      PROVE  ~calls'[v].alone
  <2>1. ASSUME NEW y \in Workers \ {w}
        PROVE  /\ calls'[y].op = calls[y].op /\ calls'[y].target = calls[y].target
               /\ calls'[y].alone => calls[y].alone /\ ~(IsRoot(c) /\ y \in ModerationOf(c))
    <3>1. PICK k \in Call : k = calls[y]
      BY DEF IInv, TypeOK
    <3>2. calls'[y] = IF IsRoot(c) /\ y \in ModerationOf(c) THEN [k EXCEPT !.alone = FALSE] ELSE k
      BY <1>2, <3>1, ModerateCarries
    <3> QED  BY <3>1, <3>2 DEF Call
  <2>2. CASE v = w
    <3>1. calls'[w].target = c /\ (calls'[w].alone => ~IsRoot(c) \/ ModerationOf(c) = {})
      BY <1>2, ModerateCarries
    <3>2. x \in ModerationOf(c)
      BY <2>1, <2>2, <3>1 DEF ModerationOf, Moderating
    <3> QED  BY <2>2, <3>1, <3>2
  <2>3. CASE x = w
    <3>1. calls'[w].target = c
      BY <1>2, ModerateCarries
    <3>2. v \in ModerationOf(c)
      BY <2>1, <2>3, <3>1 DEF ModerationOf, Moderating
    <3> QED  BY <2>1, <2>3, <3>1, <3>2
  <2>4. CASE v # w /\ x # w
    <3>1. Moderating(calls[v]) /\ Moderating(calls[x])
      BY <2>1, <2>4 DEF Moderating
    <3> QED  BY <2>1, <2>4, <3>1 DEF Solitary
  <2> QED  BY <2>2, <2>3, <2>4
<1> QED  BY <1>1, <1>2 DEF Moderates

(* Documents that fade: nothing is shown, held or taken out of a hold.     *)
Fades == \A c \in Comments :
    /\ comment'[c].status \in {comment[c].status, "deleting", "gone"}
    /\ comment'[c].byThread = comment[c].byThread

LEMMA RemoveFades == ASSUME TypeOK, NEW c \in Comments, RemoveReply(c) PROVE Fades
BY DEF TypeOK, RemoveReply, Comment, Fades

LEMMA MarkFades == ASSUME TypeOK, NEW r \in Roots, MarkRoot(r) PROVE Fades
BY DEF TypeOK, MarkRoot, Comment, Fades

LEMMA StepFades == ASSUME TypeOK, NEW w \in Workers, WorkerStep(w), ~WriteReplies(w) PROVE Fades
<1>0. ASSUME comment' = comment PROVE Fades
  BY <1>0 DEF Fades
<1>1. CASE DeletePage(w)
  BY <1>1 DEF DeletePage, TypeOK, Comment, Fades
<1>2. CASE FinishThread(w)
  BY <1>2 DEF FinishThread, TypeOK, Comment, Fades
<1>3. CASE StoreReplies(w)
  BY <1>3 DEF StoreReplies, TypeOK, Comment, Fades
<1>4. CASE LeaveNext(w)
  <2>1. \A c \in Following(calls[w]) : c \in Comments
    BY DEF Following, TypeOK, Call, Roots
  <2>2. PICK c \in Comments : \/ comment' = comment
                              \/ RemoveReply(c)
                              \/ c \in Roots /\ MarkRoot(c)
    BY <1>4, <2>1 DEF LeaveNext, Roots
  <2> QED  BY <1>0, <2>2, RemoveFades, MarkFades
<1>5. CASE \/ ReadPage(w) \/ NotDue(w) \/ TallyShown(w) \/ ReadReplies(w) \/ WriteFails(w) \/ EndSync(w)
           \/ CountShown(w) \/ StoreCount(w) \/ CountReplies(w) \/ LeaveCount(w) \/ LeaveStore(w)
  BY <1>0, <1>5 DEF ReadPage, NotDue, TallyShown, ReadReplies, WriteFails, EndSync,
     CountShown, StoreCount, CountReplies, LeaveCount, LeaveStore
<1> QED  BY <1>1, <1>2, <1>3, <1>4, <1>5 DEF WorkerStep

(* What such a step, a reader's comment and a moderation of a reply leave  *)
(* true: replies that follow their root go on following it.                *)
Calm(X) ==
    /\ \A c \in Comments \ X : Follows(c) => Follows(c)'
    /\ \A r \in Roots : \/ comment'[r].status \in {comment[r].status, "deleting", "gone"}
                        \/ comment[r].status = "unborn"

LEMMA FadingCalm == ASSUME Fades PROVE Calm({})
<1>1. ASSUME NEW c \in Comments PROVE RootOf[c] \in Comments
  BY ThreadAssumptions
<1> QED  BY <1>1 DEF Fades, Calm, Follows, Roots

LEMMA SaveCalm == ASSUME IInv, NEW c \in Comments, Save(c) PROVE Calm({})
<1>1. \A d \in Comments : d # c => /\ comment'[d].status = comment[d].status
                                   /\ comment'[d].byThread = comment[d].byThread
  BY DEF Save, IInv, TypeOK, Comment
<1>2. comment[c].status = "unborn" /\ comment'[c].status = "active" /\ OpenThread(c)
  BY DEF Save, IInv, TypeOK, Comment
<1>3. ASSUME NEW d \in Comments, Follows(d) PROVE Follows(d)'
  <2>1. RootOf[d] \in Comments
    BY ThreadAssumptions
  <2>2. CASE d = c
    BY <1>1, <1>2, <2>1, <2>2 DEF Follows, OpenThread, IsRoot
  <2>3. CASE d # c /\ RootOf[d] = c
    <3>1. ~Exists(d)
      BY <1>2, <2>3 DEF IInv, RepliesHaveRoot, Exists
    <3> QED  BY <1>1, <1>2, <2>3, <3>1 DEF Follows, Exists
  <2>4. CASE d # c /\ RootOf[d] # c
    BY <1>1, <1>3, <2>1, <2>4 DEF Follows
  <2> QED  BY <2>2, <2>3, <2>4
<1>4. \A r \in Roots : comment'[r].status = comment[r].status \/ comment[r].status = "unborn"
  BY <1>1, <1>2 DEF Roots
<1> QED  BY <1>3, <1>4 DEF Calm

LEMMA ModerateCalm ==
    ASSUME IInv, NEW w \in Workers, NEW c \in Comments, NEW op \in {"hold", "restore"}, Moderate(w, c, op)
    PROVE  /\ \A d \in Comments : d # c => comment'[d] = comment[d]
           /\ comment'[c].status = IF op = "hold" THEN "hold" ELSE "active"
           /\ ~IsRoot(c) => Calm({})
<1>1. \A d \in Comments : d # c => comment'[d] = comment[d]
  BY DEF Moderate, IInv, TypeOK
<1>2. /\ comment'[c].status = IF op = "hold" THEN "hold" ELSE "active"
      /\ op = "hold" /\ ~IsRoot(c) => ~comment'[c].byThread
      /\ op = "restore" => OpenThread(c)
  BY DEF Moderate, AfterHold, MayRestore, IInv, TypeOK, Comment
<1>3. ASSUME ~IsRoot(c), NEW d \in Comments, Follows(d) PROVE Follows(d)'
  <2>1. RootOf[d] \in Comments /\ RootOf[d] # c
    BY <1>3, ThreadAssumptions DEF IsRoot
  <2>2. CASE d = c
    BY <1>1, <1>2, <1>3, <2>1, <2>2 DEF Follows, OpenThread
  <2>3. CASE d # c
    BY <1>1, <1>3, <2>1, <2>3 DEF Follows
  <2> QED  BY <2>2, <2>3
<1>4. ~IsRoot(c) => \A r \in Roots : comment'[r].status = comment[r].status
  BY <1>1 DEF Roots
<1> QED  BY <1>1, <1>2, <1>3, <1>4 DEF Calm

LEMMA WriteCalm == ASSUME IInv, Shaped, NEW w \in Workers, WriteReplies(w) PROVE Calm(calls[w].page)
<1>1. calls[w].page \cap Roots = {}
  BY DEF IInv, CallSound
<1>2. \A c \in Comments \ calls[w].page : comment'[c] = comment[c]
  BY DEF WriteReplies
<1>3. \A c \in Comments : RootOf[c] \in Comments \ calls[w].page
  BY <1>1, RootTyped DEF Roots
<1>4. \A r \in Roots : comment'[r] = comment[r]
  BY <1>1, <1>2 DEF Roots
<1> QED  BY <1>2, <1>3, <1>4 DEF Calm, Follows

Written == {c \in Comments : \E w \in Workers : WriteReplies(w) /\ c \in calls[w].page}
RootModerates == \E w \in Workers, r \in Roots, op \in {"hold", "restore"} : Moderate(w, r, op)

LEMMA NextCalm == ASSUME IInv, Shaped, [Next]_vars, ~RootModerates PROVE Calm(Written)
<1>0. Calm({}) => Calm(Written)
  BY DEF Calm
<1>1. CASE comment' = comment
  <2>1. Fades
    BY <1>1 DEF Fades
  <2> QED  BY <1>0, <2>1, FadingCalm
<1>2. ASSUME NEW c \in Comments, Save(c) \/ DeleteReply(c) PROVE Calm(Written)
  BY <1>0, <1>2, SaveCalm, RemoveFades, FadingCalm DEF IInv, DeleteReply
<1>3. ASSUME NEW w \in Workers, NEW r \in Roots, DeleteRoot(w, r) PROVE Calm(Written)
  BY <1>0, <1>3, MarkFades, FadingCalm DEF IInv, DeleteRoot
<1>4. ASSUME NEW w \in Workers, NEW c \in Comments, ModerateRemove(w, c) PROVE Calm(Written)
  BY <1>0, <1>4, MarkFades, RemoveFades, FadingCalm DEF IInv, ModerateRemove, Roots
<1>5. ASSUME NEW w \in Workers, NEW c \in Comments, NEW op \in {"hold", "restore"}, Moderate(w, c, op)
      PROVE  Calm(Written)
  <2>1. ~IsRoot(c)
    BY <1>5 DEF RootModerates, Roots
  <2> QED  BY <1>0, <1>5, <2>1, ModerateCalm
<1>6. ASSUME NEW w \in Workers, WorkerStep(w) PROVE Calm(Written)
  <2>1. CASE WriteReplies(w)
    <3>1. calls[w].page \subseteq Written
      BY <2>1 DEF Written, IInv, TypeOK, Call
    <3> QED  BY <2>1, <3>1, WriteCalm DEF Calm
  <2>2. CASE ~WriteReplies(w)
    BY <1>0, <1>6, <2>2, StepFades, FadingCalm DEF IInv
  <2> QED  BY <2>1, <2>2
<1>7. ASSUME NEW w \in Workers, Leave(w) \/ HandleEvent(w) \/ Die(w) PROVE comment' = comment
  BY <1>7 DEF Leave, HandleEvent, Die
<1>8. CASE Next
  BY <1>1, <1>2, <1>3, <1>4, <1>5, <1>6, <1>7, <1>8 DEF Next
<1> QED  BY <1>1, <1>8 DEF vars

LEMMA TidyGrows ==
    ASSUME IInv, [Next]_vars, NEW r \in ghost'.tidy, r \notin ghost.tidy
    PROVE  \E w \in Workers : EndSync(w) /\ calls[w].alone /\ calls[w].target = r
<1> SUFFICES ASSUME ghost'.tidy # ghost.tidy, ~(ghost'.tidy \subseteq ghost.tidy)
             PROVE  \E w \in Workers : EndSync(w) /\ calls[w].alone /\ calls[w].target = r
  OBVIOUS
<1> USE DEF IInv, TypeOK, Ghost
<1>1. ASSUME NEW w \in Workers, NEW c \in Comments, NEW op \in {"hold", "restore"}, Moderate(w, c, op)
      PROVE  FALSE
  BY <1>1 DEF Moderate
<1>2. ASSUME NEW c \in Comments, Save(c) \/ DeleteReply(c) PROVE FALSE
  BY <1>2 DEF Save, DeleteReply
<1>3. ASSUME NEW w \in Workers, \/ \E q \in Roots : DeleteRoot(w, q)
                                \/ \E c \in Comments : ModerateRemove(w, c)
                                \/ Leave(w) \/ HandleEvent(w)
      PROVE  FALSE
  BY <1>3 DEF DeleteRoot, ModerateRemove, Leave, HandleEvent
<1>4. ASSUME NEW w \in Workers, Die(w) PROVE FALSE
  BY <1>4 DEF Die, Abandoned
<1>5. ASSUME NEW w \in Workers, WorkerStep(w) PROVE EndSync(w)
  <2>1. CASE FinishThread(w) \/ StoreCount(w) \/ LeaveStore(w)
    BY <2>1 DEF FinishThread, StoreCount, LeaveStore
  <2>2. CASE WriteReplies(w) \/ WriteFails(w)
    BY <2>2 DEF WriteReplies, WriteFails, Abandoned
  <2>3. CASE StoreReplies(w)
    BY <2>3 DEF StoreReplies
  <2>4. CASE \/ ReadPage(w) \/ NotDue(w) \/ DeletePage(w) \/ TallyShown(w) \/ ReadReplies(w)
             \/ CountShown(w) \/ CountReplies(w) \/ LeaveNext(w) \/ LeaveCount(w)
    BY <2>4 DEF ReadPage, NotDue, DeletePage, TallyShown, ReadReplies, CountShown, CountReplies,
       LeaveNext, LeaveCount
  <2> QED  BY <1>5, <2>1, <2>2, <2>3, <2>4 DEF WorkerStep
<1>6. ASSUME NEW w \in Workers, EndSync(w) PROVE calls[w].alone /\ calls[w].target = r
  BY <1>6 DEF EndSync
<1>7. PICK w \in Workers : EndSync(w)
  BY <1>1, <1>2, <1>3, <1>4, <1>5 DEF Next, vars
<1> QED  BY <1>6, <1>7

(* A moderation that synchronises alone is not interfered with.            *)
LEMMA AloneAtWork ==
    ASSUME TidyInv, NEW v \in Workers, NEW w \in Workers, v # w,
           calls[v].at \in Syncing, calls[w].at \in Syncing, calls[v].target = calls[w].target
    PROVE  ~calls[v].alone /\ ~calls[w].alone
<1>1. /\ Moderating(calls[v]) /\ Moderating(calls[w])
      /\ IsRoot(calls[v].target) /\ IsRoot(calls[w].target)
  BY DEF TidyInv, Shaped, CallShape, Roots
<1> QED  BY <1>1 DEF TidyInv, Solitary

LEMMA OthersKnow ==
    ASSUME TidyInv, [Next]_vars, ~RootModerates, NEW v \in Workers, ~WriteReplies(v), ~EndSync(v),
           calls[v].at \in Syncing
    PROVE  /\ calls[v].target \notin ghost'.tidy
           /\ calls[v].alone => /\ comment'[calls[v].target].status \in Stance(calls[v].op)
                                /\ \A c \in Replies(calls[v].target) \cap (calls[v].seen \ calls[v].page) : Follows(c)'
<1> DEFINE r == calls[v].target
<1>0. r \in Roots /\ r \notin ghost.tidy /\ (calls[v].alone => Passed(calls[v]))
  BY DEF TidyInv, Shaped, CallShape, SyncKnows
<1>1. r \notin ghost'.tidy
  <2>1. SUFFICES ASSUME r \in ghost'.tidy PROVE FALSE
    OBVIOUS
  <2>2. PICK w \in Workers : EndSync(w) /\ calls[w].alone /\ calls[w].target = r
    BY <1>0, <2>1, TidyGrows DEF TidyInv
  <2>3. v # w /\ calls[w].at \in Syncing
    BY <2>2 DEF EndSync, Syncing
  <2> QED  BY <2>2, <2>3, AloneAtWork
<1>2. Calm(Written)
  BY NextCalm DEF TidyInv
<1>3. ASSUME calls[v].alone PROVE comment'[r].status \in Stance(calls[v].op)
  BY <1>0, <1>2, <1>3 DEF Calm, Passed, Stance
<1>4. ASSUME calls[v].alone, NEW c \in Replies(r) \cap (calls[v].seen \ calls[v].page) PROVE Follows(c)'
  <2>1. c \in Comments /\ RootOf[c] = r /\ Follows(c)
    BY <1>0, <1>4 DEF Replies, Passed
  <2>2. c \notin Written
    <3>1. SUFFICES ASSUME NEW w \in Workers, WriteReplies(w), c \in calls[w].page PROVE FALSE
      BY DEF Written
    <3>2. v # w /\ calls[w].at = "write" /\ calls[w].at \in Syncing
      BY <3>1 DEF WriteReplies, Syncing
    <3>3. calls[w].target = r
      BY <2>1, <3>1, <3>2 DEF TidyInv, Shaped, CallShape, Replies
    <3> QED  BY <1>4, <3>2, <3>3, AloneAtWork
  <2> QED  BY <1>2, <2>1, <2>2 DEF Calm
<1> QED  BY <1>1, <1>3, <1>4

(* The batch of a call that runs alone leaves replies that follow.         *)
LEMMA WriterKnows ==
    ASSUME TidyInv, NEW w \in Workers, WriteReplies(w)
    PROVE  SyncKnows(calls[w])'
<1>0. PICK k \in Call : k = calls[w] /\ CallShape(k) /\ SyncKnows(k) /\ k.at = "write"
  BY DEF TidyInv, IInv, TypeOK, Shaped, WriteReplies
<1>1. calls'[w] = [k EXCEPT !.at = "sync", !.page = {}]
  BY <1>0 DEF WriteReplies, Goto, TidyInv, IInv, TypeOK
<1>2. /\ calls'[w].op = k.op /\ calls'[w].target = k.target /\ calls'[w].alone = k.alone
      /\ calls'[w].seen = k.seen /\ calls'[w].page = {}
  BY <1>1 DEF Call
<1>3. /\ k.target \in Roots /\ k.target \in Comments /\ k.target \notin ghost.tidy
      /\ k.page \subseteq Replies(k.target) /\ k.page \cap Roots = {} /\ (k.alone => Passed(k))
  BY <1>0 DEF CallShape, SyncKnows, Syncing, TidyInv, IInv, CallSound, Roots
<1>4. ghost'.tidy = ghost.tidy /\ comment'[k.target] = comment[k.target]
  BY <1>0, <1>3 DEF WriteReplies, TidyInv, IInv, TypeOK, Ghost
<1>5. ASSUME k.alone, NEW c \in Replies(k.target), c \in k.seen PROVE Follows(c)'
  <2>1. c \in Comments /\ RootOf[c] = k.target /\ comment[k.target].status \in Stance(k.op)
    BY <1>3, <1>5 DEF Replies, Passed
  <2>2. CASE c \in k.page
    <3>1. comment'[c].status = IF k.op = "hold" THEN "hold" ELSE "active"
      BY <1>0, <2>1, <2>2 DEF WriteReplies, TidyInv, IInv, TypeOK, Comment
    <3> QED  BY <1>4, <2>1, <3>1 DEF Follows, Stance
  <2>3. CASE c \notin k.page
    <3>1. comment'[c] = comment[c] /\ Follows(c)
      BY <1>0, <1>3, <1>5, <2>1, <2>3 DEF WriteReplies, Passed
    <3> QED  BY <1>4, <2>1, <3>1 DEF Follows
  <2> QED  BY <2>2, <2>3
<1>6. k.alone => comment'[k.target].status \in Stance(k.op)
  BY <1>3, <1>4 DEF Passed
<1> QED  BY <1>2, <1>3, <1>4, <1>5, <1>6 DEF SyncKnows, Passed

(* Replies that a page passes over because they do not qualify follow.     *)
LEMMA ReaderKnows ==
    ASSUME TidyInv, NEW w \in Workers, ReadReplies(w)
    PROVE  SyncKnows(calls[w])'
<1>0. PICK k \in Call : k = calls[w] /\ CallShape(k) /\ SyncKnows(k) /\ k.at = "sync"
  BY DEF TidyInv, IInv, TypeOK, Shaped, ReadReplies
<1>1. PICK S \in SUBSET Undeleted(k.target) :
        Goto(w, [k EXCEPT !.at = "write", !.seen = @ \cup S, !.page = {c \in S : Qualifies(c, k.op)}])
  BY <1>0 DEF ReadReplies
<1>2. calls'[w] = [k EXCEPT !.at = "write", !.seen = @ \cup S, !.page = {c \in S : Qualifies(c, k.op)}]
  BY <1>1 DEF Goto, TidyInv, IInv, TypeOK
<1>3. /\ calls'[w].op = k.op /\ calls'[w].target = k.target /\ calls'[w].alone = k.alone
      /\ calls'[w].seen = k.seen \cup S /\ calls'[w].page = {c \in S : Qualifies(c, k.op)}
  BY <1>2 DEF Call
<1>4. /\ Moderating(k) /\ k.page = {} /\ k.target \notin ghost.tidy /\ (k.alone => Passed(k))
      /\ UNCHANGED <<comment, ghost>>
  BY <1>0 DEF CallShape, SyncKnows, Syncing, ReadReplies
<1>5. ASSUME k.alone, NEW c \in Replies(k.target), c \in k.seen \cup S, ~(c \in S /\ Qualifies(c, k.op))
      PROVE  Follows(c)
  <2>1. CASE c \in k.seen
    BY <1>4, <1>5, <2>1 DEF Passed
  <2>2. CASE ~Qualifies(c, k.op)
    <3>1. RootOf[c] = k.target /\ comment[k.target].status \in Stance(k.op)
      BY <1>4, <1>5 DEF Replies, Passed
    <3> QED  BY <1>4, <2>2, <3>1 DEF Follows, Stance, Qualifies, Moderating
  <2> QED  BY <1>5, <2>1, <2>2
<1>6. ASSUME k.alone, NEW c \in Replies(k.target), c \in k.seen \cup S, ~(c \in S /\ Qualifies(c, k.op))
      PROVE  Follows(c)'
  BY <1>4, <1>5, <1>6 DEF Follows
<1> QED  BY <1>3, <1>4, <1>6 DEF SyncKnows, Passed

LEMMA MildTidy ==
    ASSUME TidyInv, [Next]_vars, ~RootModerates
    PROVE  ThreadFollowsRoot' /\ \A w \in Workers : SyncKnows(calls[w])'
<1>1. ASSUME NEW r \in ghost'.tidy, NEW c \in Replies(r) PROVE Follows(c)'
  <2>0. c \in Comments /\ RootOf[c] = r
    BY <1>1 DEF Replies
  <2>1. CASE r \in ghost.tidy
    <3>1. Follows(c)
      BY <1>1, <2>0, <2>1 DEF TidyInv, ThreadFollowsRoot, Follows
    <3>2. c \notin Written
      <4>1. SUFFICES ASSUME NEW w \in Workers, WriteReplies(w), c \in calls[w].page PROVE FALSE
        BY DEF Written
      <4>2. calls[w].at = "write" /\ calls[w].target = r
        BY <2>0, <4>1 DEF WriteReplies, TidyInv, Shaped, CallShape, Replies
      <4> QED  BY <2>1, <4>2 DEF TidyInv, SyncKnows, Syncing
    <3> QED  BY <2>0, <3>1, <3>2, NextCalm DEF TidyInv, Calm
  <2>2. CASE r \notin ghost.tidy
    <3>1. PICK w \in Workers : EndSync(w) /\ calls[w].alone /\ calls[w].target = r
      BY <1>1, <2>2, TidyGrows DEF TidyInv
    <3>2. /\ calls[w].at = "sync" /\ comment' = comment /\ calls[w].page = {}
          /\ Undeleted(r) \subseteq calls[w].seen /\ Passed(calls[w])
      BY <3>1 DEF EndSync, TidyInv, Shaped, CallShape, SyncKnows, Syncing
    <3>3. Follows(c)
      BY <1>1, <2>0, <3>1, <3>2 DEF Passed, Undeleted, Exists, Follows
    <3> QED  BY <3>2, <3>3 DEF Follows
  <2> QED  BY <2>1, <2>2
<1>2. ThreadFollowsRoot'
  BY <1>1 DEF ThreadFollowsRoot, Follows, Replies
<1>3. ASSUME NEW v \in Workers, calls'[v].at \in Syncing PROVE SyncKnows(calls[v])'
  <2>1. CASE calls'[v] = calls[v] /\ ~WriteReplies(v) /\ ~EndSync(v)
    BY <1>3, <2>1, OthersKnow DEF SyncKnows, Passed
  <2>2. CASE WriteReplies(v) \/ ReadReplies(v)
    BY <2>2, WriterKnows, ReaderKnows
  <2>3. ASSUME NEW w \in Workers, Others(w), calls'[w].at \notin Syncing PROVE calls'[v] = calls[v]
    BY <1>3, <2>3 DEF Others
  <2>4. WriteReplies(v) \/ EndSync(v) => WorkerStep(v)
    BY DEF WorkerStep
  <2>5. EndSync(v) => ReadReplies(v) \/ WriteReplies(v)
    BY <1>3, <2>4, StepCarries DEF TidyInv
  <2>6. ASSUME NEW w \in Workers, WorkerStep(w) PROVE w = v \/ calls'[v] = calls[v]
    BY <2>6, StepCarries DEF TidyInv, Others
  <2>7. ASSUME NEW w \in Workers, WorkerStep(w) PROVE WriteReplies(v) \/ ReadReplies(v) \/ calls'[v] = calls[v]
    BY <1>3, <2>6, <2>7, StepCarries DEF TidyInv
  <2>8. ASSUME NEW w \in Workers, \/ \E r \in Roots : DeleteRoot(w, r)
                                  \/ \E c \in Comments : ModerateRemove(w, c)
                                  \/ Leave(w) \/ HandleEvent(w) \/ Die(w)
        PROVE  calls'[v] = calls[v]
    <3>1. Others(w) /\ ~Moderating(calls'[w]) /\ CallShape(calls'[w])
      BY <2>8, StartCarries, DieCarries, IdleFacts DEF TidyInv, Carries
    <3> QED  BY <1>3, <3>1 DEF Others, CallShape
  <2>9. ASSUME NEW w \in Workers, NEW c \in Comments, NEW op \in {"hold", "restore"}, Moderate(w, c, op)
        PROVE  calls'[v] = calls[v]
    <3>1. ~IsRoot(c)
      BY <2>9 DEF RootModerates, Roots
    <3>2. calls'[w].at = "count"
      BY <2>9, <3>1, ModerateCarries DEF TidyInv
    <3>3. v # w
      BY <1>3, <3>2 DEF Syncing
    <3>4. calls'[v] = IF IsRoot(c) /\ v \in ModerationOf(c) THEN [calls[v] EXCEPT !.alone = FALSE] ELSE calls[v]
      BY <2>9, <3>3, ModerateCarries DEF TidyInv
    <3> QED  BY <3>1, <3>4
  <2>10. ASSUME NEW c \in Comments, Save(c) \/ DeleteReply(c) PROVE calls'[v] = calls[v]
    BY <2>10 DEF Save, DeleteReply
  <2>11. WriteReplies(v) \/ ReadReplies(v) \/ calls'[v] = calls[v]
    BY <2>7, <2>8, <2>9, <2>10 DEF Next, vars
  <2> QED  BY <2>1, <2>2, <2>5, <2>11
<1>4. ASSUME NEW v \in Workers PROVE SyncKnows(calls[v])'
  BY <1>3 DEF SyncKnows
<1> QED  BY <1>2, <1>4

(* A moderation of a root begins: its own replies may not follow yet, and  *)
(* no other moderation of the same root is alone any more.                 *)
LEMMA RootTidy ==
    ASSUME TidyInv, NEW w \in Workers, NEW c \in Roots, NEW op \in {"hold", "restore"}, Moderate(w, c, op)
    PROVE  ThreadFollowsRoot' /\ \A v \in Workers : SyncKnows(calls[v])'
<1>0. c \in Comments /\ IsRoot(c)
  BY DEF Roots
<1>1. ghost'.tidy = ghost.tidy \ {c}
  BY <1>0 DEF Moderate, TidyInv, IInv, TypeOK, Ghost
<1>2. /\ \A d \in Comments : d # c => comment'[d] = comment[d]
      /\ comment'[c].status = IF op = "hold" THEN "hold" ELSE "active"
  BY <1>0, ModerateCalm DEF TidyInv
<1>3. ASSUME NEW d \in Comments, RootOf[d] # c, Follows(d) PROVE Follows(d)'
  <2>1. RootOf[d] \in Comments /\ d # c
    BY <1>0, <1>3, ThreadAssumptions DEF IsRoot
  <2> QED  BY <1>2, <1>3, <2>1 DEF Follows
<1>4. ThreadFollowsRoot'
  <2> SUFFICES ASSUME NEW r \in ghost'.tidy, NEW d \in Replies(r) PROVE Follows(d)'
    BY DEF ThreadFollowsRoot, Follows, Replies
  <2>1. r \in ghost.tidy /\ r # c /\ d \in Comments /\ RootOf[d] = r
    BY <1>1 DEF Replies
  <2> QED  BY <1>3, <2>1 DEF TidyInv, ThreadFollowsRoot, Follows
<1>5. SyncKnows(calls[w])'
  <2>1. /\ calls'[w].op = op /\ calls'[w].target = c /\ calls'[w].seen = {}
    BY <1>0, ModerateCarries DEF TidyInv
  <2> QED  BY <1>1, <1>2, <2>1 DEF SyncKnows, Passed, Stance
<1>6. ASSUME NEW v \in Workers \ {w} PROVE SyncKnows(calls[v])'
  <2>0. PICK k \in Call : k = calls[v] /\ CallShape(k) /\ SyncKnows(k)
    BY <1>6 DEF TidyInv, IInv, TypeOK, Shaped
  <2>1. calls'[v] = IF v \in ModerationOf(c) THEN [k EXCEPT !.alone = FALSE] ELSE k
    BY <1>0, <1>6, <2>0, ModerateCarries DEF TidyInv
  <2>2. CASE v \in ModerationOf(c)
    <3>1. calls'[v].at = k.at /\ calls'[v].target = k.target /\ ~calls'[v].alone
      BY <2>1, <2>2 DEF Call
    <3> QED  BY <1>1, <2>0, <3>1 DEF SyncKnows
  <2>3. CASE v \notin ModerationOf(c) /\ k.at \in Syncing
    <3>1. k.target # c /\ k.target \in Roots
      BY <2>0, <2>3 DEF ModerationOf, CallShape, Moderating
    <3>2. comment'[k.target] = comment[k.target]
      BY <1>2, <3>1 DEF Roots
    <3>3. k.target \notin ghost'.tidy
      BY <1>1, <2>0, <2>3 DEF SyncKnows
    <3>4. ASSUME k.alone PROVE Passed(k)'
      <4>1. Passed(k)
        BY <2>0, <2>3, <3>4 DEF SyncKnows
      <4>2. \A d \in Replies(k.target) : d \in Comments /\ RootOf[d] # c
        BY <3>1 DEF Replies
      <4> QED  BY <1>3, <3>2, <4>1, <4>2 DEF Passed
    <3> QED  BY <2>1, <2>3, <3>3, <3>4 DEF SyncKnows, Passed
  <2>4. CASE v \notin ModerationOf(c) /\ k.at \notin Syncing
    BY <2>1, <2>4 DEF SyncKnows
  <2> QED  BY <2>2, <2>3, <2>4
<1> QED  BY <1>4, <1>5, <1>6

LEMMA InitTidy == Init => TidyInv
<1> SUFFICES ASSUME Init PROVE TidyInv
  OBVIOUS
<1>1. \A w \in Workers : calls[w] = Idle
  BY DEF Init
<1>2. Shaped /\ Solitary /\ \A w \in Workers : SyncKnows(calls[w])
  BY <1>1, IdleFacts DEF Shaped, Solitary, SyncKnows
<1>3. PICK shape \in [Comments -> {"unborn", "active", "held", "heldByThread"}] :
        AtRest(shape) /\ comment = [c \in Comments |-> Document(shape, c)] /\ ghost.tidy = Roots
  BY DEF Init
<1>4. \A c \in Comments : /\ comment[c].status = IF shape[c] \in {"held", "heldByThread"} THEN "hold" ELSE shape[c]
                          /\ comment[c].byThread = (shape[c] = "heldByThread")
  BY <1>3 DEF Document
<1>5. ThreadFollowsRoot
  <2> SUFFICES ASSUME NEW r \in Roots, NEW c \in Replies(r)
               PROVE  /\ comment[r].status = "hold" => comment[c].status # "active"
                      /\ comment[r].status = "active" /\ comment[c].status = "hold" => ~comment[c].byThread
    BY <1>3 DEF ThreadFollowsRoot
  <2>1. r \in Comments /\ c \in Comments /\ RootOf[c] = r /\ r = RootOf[r]
    BY DEF Roots, IsRoot, Replies
  <2> QED  BY <1>3, <1>4, <2>1 DEF AtRest
<1> QED  BY <1>2, <1>5, InitInv DEF TidyInv

LEMMA NextTidy == TidyInv /\ [Next]_vars => TidyInv'
<1> SUFFICES ASSUME TidyInv, [Next]_vars PROVE TidyInv'
  OBVIOUS
<1>1. IInv' /\ Shaped' /\ Solitary'
  BY NextInv, NextShaped, NextSolitary DEF TidyInv
<1>2. ThreadFollowsRoot' /\ \A w \in Workers : SyncKnows(calls[w])'
  BY MildTidy, RootTidy DEF RootModerates
<1> QED  BY <1>1, <1>2 DEF TidyInv

(* A thread follows its root after each moderation that ran to its end     *)
(* alone, whatever readers, authors, deletions and deaths came between its *)
(* pages (adminService.js:260-302, 431-533).                               *)
THEOREM ThreadsFollow == Spec => []ThreadFollowsRoot
<1>1. Spec => []TidyInv
  BY InitTidy, NextTidy, PTL DEF Spec
<1>2. TidyInv => ThreadFollowsRoot
  BY DEF TidyInv
<1> QED  BY <1>1, <1>2, PTL
-----------------------------------------------------------------------------
(* Why the counters settle.  The post's counter is exact once no moderation*)
(* has its count still to store and no thread is being deleted, and a      *)
(* root's once no moderation of its thread is under way; an unwritten root *)
(* counts nothing.                                                         *)
PostSettled ==
    /\ ~ghost.doubt /\ \A r \in Roots : job[r].state # "ready"
    /\ \A w \in Workers : ~Unstored(calls[w])
PostExact == PostSettled => count = Cardinality(Shown)
Unbusy(r) ==
    /\ r \notin ghost.doubtful
    /\ \A w \in Workers : Busy(calls[w]) => RootOf[calls[w].target] # r
RootExact(r) ==
    /\ comment[r].status = "unborn" => comment[r].replies = 0
    /\ comment[r].status \in {"active", "hold"} /\ Unbusy(r)
           => comment[r].replies = Cardinality(ShownReplies(r))
CountInv == /\ IInv /\ Shaped /\ PostExact
            /\ \A r \in Roots : RootExact(r)

(* One comment more, one comment less.                                     *)
LEMMA OneMore ==
    ASSUME NEW S \in SUBSET Comments, NEW c \in Comments \ S
    PROVE  Cardinality(S \cup {c}) = Cardinality(S) + 1
BY FS_Subset, FS_AddElement, ThreadAssumptions

LEMMA OneLess ==
    ASSUME NEW S \in SUBSET Comments, NEW c \in S
    PROVE  /\ Cardinality(S \ {c}) = Cardinality(S) - 1
           /\ Less(Cardinality(S)) = Cardinality(S) - 1
<1>1. /\ Cardinality(S \ {c}) = Cardinality(S) - 1
      /\ Cardinality(S) \in Nat /\ Cardinality(S \ {c}) \in Nat
  BY FS_Subset, FS_RemoveElement, FS_CardinalityType, ThreadAssumptions
<1> QED  BY <1>1 DEF Less

LEMMA SaveCounts ==
    ASSUME IInv, NEW c \in Comments, Save(c)
    PROVE  /\ Cardinality(Shown)' = Cardinality(Shown) + 1
           /\ \A r \in Roots : Cardinality(ShownReplies(r))' =
                Cardinality(ShownReplies(r)) + (IF r = RootOf[c] /\ r # c THEN 1 ELSE 0)
<1>1. /\ \A d \in Comments : d # c => comment'[d].status = comment[d].status
      /\ comment[c].status = "unborn" /\ comment'[c].status = "active"
  BY DEF Save, IInv, TypeOK, Comment
<1>2. Shown' = Shown \cup {c} /\ c \notin Shown /\ Shown \subseteq Comments
  BY <1>1 DEF Shown
<1>3. ASSUME NEW r \in Roots
      PROVE  Cardinality(ShownReplies(r))' =
                Cardinality(ShownReplies(r)) + (IF r = RootOf[c] /\ r # c THEN 1 ELSE 0)
  <2>1. CASE r = RootOf[c] /\ r # c
    <3>1. ShownReplies(r)' = ShownReplies(r) \cup {c} /\ c \notin ShownReplies(r) /\ ShownReplies(r) \subseteq Comments
      BY <1>1, <2>1 DEF ShownReplies, Replies
    <3> QED  BY <2>1, <3>1, OneMore
  <2>2. CASE ~(r = RootOf[c] /\ r # c)
    <3>1. ShownReplies(r)' = ShownReplies(r) /\ ShownReplies(r) \in SUBSET Comments
      BY <1>1, <2>2 DEF ShownReplies, Replies
    <3>2. Cardinality(ShownReplies(r)) \in Nat
      BY <3>1, Counts
    <3> QED  BY <2>2, <3>1, <3>2
  <2> QED  BY <2>1, <2>2
<1> QED  BY <1>2, <1>3, OneMore

LEMMA RemoveCounts ==
    ASSUME IInv, NEW c \in Comments, ~IsRoot(c), RemoveReply(c)
    PROVE  /\ Shown' = Shown \ {c}
           /\ \A r \in Roots : ShownReplies(r)' = ShownReplies(r) \ {c}
           /\ Counted(c) <=> c \in Shown
           /\ Counted(c) <=> c \in ShownReplies(RootOf[c])
           /\ \A r \in Roots : r # RootOf[c] => c \notin ShownReplies(r)
           /\ \A r \in Roots : /\ comment'[r].status = comment[r].status
                               /\ comment'[r].replies = IF r = RootOf[c] /\ Counted(c)
                                                       THEN Less(comment[r].replies) ELSE comment[r].replies
<1>1. /\ \A d \in Comments : d # c => comment'[d].status = comment[d].status
      /\ comment'[c].status = "gone"
  BY DEF RemoveReply, IInv, TypeOK, Comment
<1>2. Shown' = Shown \ {c} /\ (Counted(c) <=> c \in Shown)
  BY <1>1 DEF Shown, Counted
<1>3. \A r \in Roots : ShownReplies(r)' = ShownReplies(r) \ {c}
  BY <1>1 DEF ShownReplies, Replies
<1>4. /\ Counted(c) <=> c \in ShownReplies(RootOf[c])
      /\ \A r \in Roots : r # RootOf[c] => c \notin ShownReplies(r)
  BY DEF ShownReplies, Replies, Counted, IsRoot
<1>5. \A r \in Roots : /\ comment'[r].status = comment[r].status
                       /\ comment'[r].replies = IF r = RootOf[c] /\ Counted(c)
                                               THEN Less(comment[r].replies) ELSE comment[r].replies
  <2>1. \A r \in Roots : r \in Comments /\ r # c
    BY DEF Roots
  <2> QED  BY <2>1 DEF RemoveReply, IInv, TypeOK, Comment
<1> QED  BY <1>2, <1>3, <1>4, <1>5

(* What happens to a root's counter.                                       *)
LEMMA SaveExact ==
    ASSUME IInv, NEW c \in Comments, Save(c), NEW r \in Roots, RootExact(r), Unbusy(r)' => Unbusy(r)
    PROVE  RootExact(r)'
<1>0. r \in Comments /\ RootOf[c] \in Comments
  BY ThreadAssumptions DEF Roots
<1>1. CASE c = r
  <2>1. /\ comment'[r].status = "active" /\ comment[r].status = "unborn"
        /\ comment'[r].replies = comment[r].replies
    BY <1>0, <1>1 DEF Save, IInv, TypeOK, Comment
  <2>2. ShownReplies(r)' = {}
    <3>1. ASSUME NEW d \in Replies(r) PROVE comment'[d].status # "active"
      <4>1. d \in Comments /\ d # c /\ ~Exists(d)
        BY <1>1, <2>1, <3>1 DEF IInv, RepliesHaveRoot, Replies, Exists
      <4> QED  BY <4>1 DEF Save, IInv, TypeOK, Comment, Exists
    <3> QED  BY <3>1 DEF ShownReplies
  <2> QED  BY <2>1, <2>2, FS_EmptySet DEF RootExact
<1>2. CASE c # r /\ RootOf[c] = r
  <2>1. /\ comment'[r].status = comment[r].status /\ comment[r].status = "active"
        /\ comment'[r].replies = comment[r].replies + 1
    BY <1>0, <1>2 DEF Save, OpenThread, IsRoot, IInv, TypeOK, Comment
  <2>2. Cardinality(ShownReplies(r))' = Cardinality(ShownReplies(r)) + 1
    BY <1>2, SaveCounts
  <2> QED  BY <2>1, <2>2 DEF RootExact
<1>3. CASE c # r /\ RootOf[c] # r
  <2>1. comment'[r] = comment[r]
    BY <1>0, <1>3 DEF Save
  <2>2. Cardinality(ShownReplies(r))' = Cardinality(ShownReplies(r)) + 0
    BY <1>3, SaveCounts
  <2>3. Cardinality(ShownReplies(r)) \in Nat
    BY Counts DEF ShownReplies, Replies
  <2> QED  BY <2>1, <2>2, <2>3 DEF RootExact
<1> QED  BY <1>1, <1>2, <1>3

LEMMA RemoveExact ==
    ASSUME IInv, NEW c \in Comments, ~IsRoot(c), Exists(c), RemoveReply(c),
           NEW r \in Roots, RootExact(r), Unbusy(r)' => Unbusy(r)
    PROVE  RootExact(r)'
<1>1. comment'[r].status = comment[r].status
  BY RemoveCounts
<1>2. ShownReplies(r) \in SUBSET Comments
  BY DEF ShownReplies, Replies
<1>3. CASE r = RootOf[c] /\ Counted(c)
  <2>1. /\ c \in ShownReplies(r) /\ ShownReplies(r)' = ShownReplies(r) \ {c}
        /\ comment'[r].replies = Less(comment[r].replies)
    BY <1>3, RemoveCounts
  <2>2. comment[r].status # "unborn"
    BY <1>3 DEF IInv, RepliesHaveRoot, Exists
  <2> QED  BY <1>1, <1>2, <2>1, <2>2, OneLess DEF RootExact
<1>4. CASE ~(r = RootOf[c] /\ Counted(c))
  <2>1. /\ c \notin ShownReplies(r) /\ ShownReplies(r)' = ShownReplies(r) \ {c}
        /\ comment'[r].replies = comment[r].replies
    BY <1>4, RemoveCounts
  <2>2. ShownReplies(r)' = ShownReplies(r)
    BY <2>1
  <2> QED  BY <1>1, <2>1, <2>2 DEF RootExact
<1> QED  BY <1>3, <1>4

(* A root that stands, and whose replies are neither shown nor hidden.     *)
LEMMA SameExact ==
    ASSUME NEW r \in Roots, RootExact(r), Unbusy(r)' => Unbusy(r),
           comment'[r].status = comment[r].status, comment'[r].replies = comment[r].replies,
           \A c \in Replies(r) : comment'[c].status = "active" <=> comment[c].status = "active"
    PROVE  RootExact(r)'
<1>1. ShownReplies(r)' = ShownReplies(r)
  BY DEF ShownReplies
<1> QED  BY <1>1 DEF RootExact

LEMMA GoneExact ==
    ASSUME NEW r \in Roots, comment'[r].status \in {"deleting", "gone"}
    PROVE  RootExact(r)'
BY DEF RootExact

LEMMA MarkExact ==
    ASSUME IInv, NEW q \in Roots, MarkRoot(q), NEW r \in Roots, RootExact(r), Unbusy(r)' => Unbusy(r)
    PROVE  RootExact(r)'
<1>1. CASE r = q
  <2>1. comment'[r].status = "deleting"
    BY <1>1 DEF MarkRoot, IInv, TypeOK, Comment, Roots
  <2> QED  BY <2>1, GoneExact
<1>2. CASE r # q
  <2>1. \A c \in Comments \ {q} : comment'[c] = comment[c]
    BY DEF MarkRoot, IInv, TypeOK
  <2>2. r \in Comments /\ \A c \in Replies(r) : c \in Comments \ {q}
    BY DEF Roots, Replies, IsRoot
  <2> QED  BY <1>2, <2>1, <2>2, SameExact
<1> QED  BY <1>1, <1>2

LEMMA PageExact ==
    ASSUME IInv, Shaped, NEW w \in Workers, DeletePage(w), NEW r \in Roots, RootExact(r), Unbusy(r)' => Unbusy(r)
    PROVE  RootExact(r)'
<1> DEFINE t == calls[w].target
<1>1. /\ t \in Roots /\ calls[w].page \subseteq Replies(t) /\ job[t].state # "none"
      /\ calls[w].page \cap Roots = {}
  BY DEF DeletePage, IInv, CallSound, Thread, Shaped, CallShape
<1>2. \A c \in Comments \ calls[w].page : comment'[c] = comment[c]
  BY DEF DeletePage
<1>3. r \in Comments /\ r \notin calls[w].page
  BY <1>1 DEF Roots
<1>4. CASE r = t
  <2>1. comment[t].status \in {"deleting", "gone"}
    BY <1>1 DEF IInv, Marked, TypeOK, Job
  <2> QED  BY <1>2, <1>3, <1>4, <2>1, GoneExact
<1>5. CASE r # t
  <2>1. \A c \in Replies(r) : c \in Comments \ calls[w].page
    BY <1>1, <1>5 DEF Replies
  <2> QED  BY <1>2, <1>3, <2>1, SameExact
<1> QED  BY <1>4, <1>5

LEMMA FinishExact ==
    ASSUME IInv, NEW w \in Workers, FinishThread(w), NEW r \in Roots, RootExact(r), Unbusy(r)' => Unbusy(r)
    PROVE  RootExact(r)'
<1> DEFINE t == calls[w].target
<1>0. t \in Roots /\ t \in Comments /\ r \in Comments
  BY DEF FinishThread, IInv, CallSound, Thread, Roots
<1>1. CASE ~Due(calls[w])
  <2>1. comment' = comment
    BY <1>1 DEF FinishThread
  <2> QED  BY <2>1, SameExact
<1>2. CASE Due(calls[w]) /\ r = t
  <2>1. comment'[r].status = "gone"
    BY <1>0, <1>2 DEF FinishThread, IInv, TypeOK, Comment
  <2> QED  BY <2>1, GoneExact
<1>3. CASE Due(calls[w]) /\ r # t
  <2>1. \A c \in Comments \ {t} : comment'[c] = comment[c]
    BY <1>3 DEF FinishThread, IInv, TypeOK
  <2>2. \A c \in Replies(r) : c \in Comments \ {t}
    BY <1>0 DEF Replies, Roots, IsRoot
  <2> QED  BY <1>0, <1>3, <2>1, <2>2, SameExact
<1> QED  BY <1>1, <1>2, <1>3

LEMMA ModerateExact ==
    ASSUME IInv, Shaped, NEW w \in Workers, NEW c \in Comments, NEW op \in {"hold", "restore"}, Moderate(w, c, op),
           NEW r \in Roots, RootExact(r), RootOf[c] # r => (Unbusy(r)' => Unbusy(r))
    PROVE  RootExact(r)'
<1>0. \A d \in Comments \ {c} : comment'[d] = comment[d]
  BY ModerateCalm
<1>1. CASE RootOf[c] = r
  <2>1. Busy(calls'[w]) /\ calls'[w].target = c
    BY ModerateCarries DEF Busy, Moderating, Syncing, Counting
  <2>2. ~Unbusy(r)'
    BY <1>1, <2>1 DEF Unbusy, Busy, Moderating
  <2>3. comment'[r].status = "unborn" => comment'[r] = comment[r]
    <3>1. comment'[c].status # "unborn"
      BY ModerateCalm
    <3> QED  BY <1>0, <3>1 DEF Roots
  <2> QED  BY <2>2, <2>3 DEF RootExact
<1>2. CASE RootOf[c] # r
  <2>1. r # c /\ r \in Comments /\ \A d \in Replies(r) : d \in Comments \ {c}
    BY <1>2 DEF Roots, Replies, IsRoot
  <2> QED  BY <1>0, <1>2, <2>1, SameExact
<1> QED  BY <1>1, <1>2

LEMMA WriteExact ==
    ASSUME IInv, Shaped, NEW w \in Workers, WriteReplies(w), NEW r \in Roots, RootExact(r), Unbusy(r)' => Unbusy(r)
    PROVE  RootExact(r)'
<1> DEFINE t == calls[w].target
<1>1. /\ t \in Roots /\ calls[w].page \subseteq Replies(t) /\ calls[w].page \cap Roots = {}
      /\ Moderating(calls[w])
  BY DEF WriteReplies, IInv, CallSound, Shaped, CallShape, Syncing
<1>2. \A c \in Comments \ calls[w].page : comment'[c] = comment[c]
  BY DEF WriteReplies
<1>3. r \in Comments /\ r \notin calls[w].page
  BY <1>1 DEF Roots
<1>4. CASE r = t
  <2>1. Busy(calls[w]) /\ WorkerStep(w)
    BY <1>1 DEF Busy, WriteReplies, Syncing, WorkerStep
  <2>2. ~Unbusy(r)
    BY <1>1, <1>4, <2>1 DEF Unbusy, Roots, IsRoot
  <2> QED  BY <1>2, <1>3, <2>2 DEF RootExact
<1>5. CASE r # t
  <2>1. \A c \in Replies(r) : c \in Comments \ calls[w].page
    BY <1>1, <1>5 DEF Replies
  <2> QED  BY <1>2, <1>3, <2>1, SameExact
<1> QED  BY <1>4, <1>5

(* Storing a root's count either makes it exact or leaves it in doubt.     *)
LEMMA StoreExact ==
    ASSUME IInv, NEW w \in Workers, StoreReplies(w), NEW r \in Roots, RootExact(r),
           RootOf[calls[w].target] # r => (Unbusy(r)' => Unbusy(r))
    PROVE  RootExact(r)'
<1> DEFINE t == RootOf[calls[w].target]
<1>0. t \in Roots /\ t \in Comments /\ r \in Comments
  BY RootTyped DEF IInv, TypeOK, Call, Roots
<1>1. \A c \in Comments : comment'[c].status = comment[c].status
  BY <1>0 DEF StoreReplies, IInv, TypeOK, Comment
<1>2. \A q \in Roots : ShownReplies(q)' = ShownReplies(q)
  BY <1>1 DEF ShownReplies, Replies
<1>3. CASE r = t
  <2>1. Unbusy(r)' => calls[w].counted = Cardinality(ShownReplies(r))
    BY <1>0, <1>3 DEF Unbusy, StoreReplies, IInv, TypeOK, Ghost
  <2>2. comment'[r].replies = IF Exists(r) THEN calls[w].counted ELSE comment[r].replies
    BY <1>0, <1>3 DEF StoreReplies, IInv, TypeOK, Comment
  <2> QED  BY <1>0, <1>1, <1>2, <2>1, <2>2 DEF RootExact, Exists
<1>4. CASE r # t
  <2>1. comment'[r] = comment[r]
    BY <1>0, <1>4 DEF StoreReplies, IInv, TypeOK
  <2> QED  BY <1>0, <1>1, <1>4, <2>1, SameExact DEF Replies
<1> QED  BY <1>3, <1>4

(* Whoever moderates a thread goes on doing so until it has stored both    *)
(* counts or left the root in doubt.                                       *)
LEMMA BusyGoesOn ==
    ASSUME IInv, NEW w \in Workers, Others(w), Carries(calls[w], calls'[w]),
           Busy(calls[w]) => Busy(calls'[w]), ghost'.doubtful = ghost.doubtful, NEW r \in Roots
    PROVE  Unbusy(r)' => Unbusy(r)
<1> SUFFICES ASSUME Unbusy(r)' PROVE Unbusy(r)
  OBVIOUS
<1>1. r \notin ghost.doubtful
  BY DEF Unbusy
<1>2. ASSUME NEW v \in Workers, Busy(calls[v]) PROVE RootOf[calls[v].target] # r
  <2>1. Busy(calls'[v]) /\ calls'[v].target = calls[v].target
    BY <1>2 DEF Others, Carries, Busy
  <2> QED  BY <2>1 DEF Unbusy, Busy, Moderating
<1> QED  BY <1>1, <1>2 DEF Unbusy

(* The steps that leave a root in doubt, and store its count, concern it.  *)
LEMMA EndUnbusy ==
    ASSUME IInv, NEW w \in Workers, Others(w),
           \/ StoreReplies(w)
           \/ WriteFails(w) \/ Die(w),
           NEW r \in Roots
    PROVE  \/ Unbusy(r)' => Unbusy(r)
           \/ StoreReplies(w) /\ RootOf[calls[w].target] = r
           \/ ~Unbusy(r)'
<1> SUFFICES ASSUME Unbusy(r)', ~(StoreReplies(w) /\ RootOf[calls[w].target] = r)
             PROVE  Unbusy(r)
  OBVIOUS
<1>1. /\ r \notin ghost.doubtful
      /\ Busy(calls[w]) => RootOf[calls[w].target] # r
  <2>1. CASE StoreReplies(w)
    BY <2>1 DEF StoreReplies, Unbusy, IInv, TypeOK, Ghost
  <2>2. CASE WriteFails(w) \/ Die(w)
    <3>1. ghost' = Abandoned(calls[w]) /\ r \notin ghost'.doubtful
      BY <2>2 DEF WriteFails, Die, Unbusy
    <3>2. ghost'.doubtful = IF Moderating(calls[w]) THEN ghost.doubtful \cup {RootOf[calls[w].target]}
                                                   ELSE ghost.doubtful
      BY <3>1 DEF Abandoned, Moderating, IInv, TypeOK, Ghost
    <3> QED  BY <3>1, <3>2 DEF Busy
  <2> QED  BY <2>1, <2>2
<1>2. ASSUME NEW v \in Workers \ {w}, Busy(calls[v]) PROVE RootOf[calls[v].target] # r
  <2>1. calls'[v] = calls[v]
    BY <1>2 DEF Others
  <2> QED  BY <1>2, <2>1 DEF Unbusy, Busy, Moderating
<1> QED  BY <1>1, <1>2 DEF Unbusy

LEMMA StepRoots ==
    ASSUME IInv, Shaped, NEW w \in Workers, WorkerStep(w), NEW r \in Roots, RootExact(r)
    PROVE  RootExact(r)'
<1>1. Others(w) /\ Carries(calls[w], calls'[w])
  BY StepCarries
<1>2. ASSUME comment' = comment, Unbusy(r)' => Unbusy(r) PROVE RootExact(r)'
  BY <1>2, SameExact
<1>3. CASE StoreReplies(w)
  BY <1>1, <1>3, EndUnbusy, StoreExact
<1>4. CASE WriteFails(w)
  <2>1. comment' = comment
    BY <1>4 DEF WriteFails
  <2>2. (Unbusy(r)' => Unbusy(r)) \/ ~Unbusy(r)'
    BY <1>1, <1>4, EndUnbusy DEF WriteFails, StoreReplies
  <2> QED  BY <1>2, <2>1, <2>2
<1>5. CASE ~StoreReplies(w) /\ ~WriteFails(w)
  <2>1. Busy(calls[w]) => Busy(calls'[w])
    BY <1>5, StepCarries
  <2>2. ghost'.doubtful = ghost.doubtful
    <3>1. CASE FinishThread(w) \/ StoreCount(w) \/ LeaveStore(w) \/ EndSync(w) \/ WriteReplies(w)
      BY <3>1 DEF FinishThread, StoreCount, LeaveStore, EndSync, WriteReplies, IInv, TypeOK, Ghost
    <3>2. CASE \/ ReadPage(w) \/ NotDue(w) \/ DeletePage(w) \/ TallyShown(w) \/ ReadReplies(w)
               \/ CountShown(w) \/ CountReplies(w) \/ LeaveNext(w) \/ LeaveCount(w)
      BY <3>2 DEF ReadPage, NotDue, DeletePage, TallyShown, ReadReplies, CountShown, CountReplies,
         LeaveNext, LeaveCount
    <3> QED  BY <1>5, <3>1, <3>2 DEF WorkerStep
  <2>3. Unbusy(r)' => Unbusy(r)
    BY <1>1, <2>1, <2>2, BusyGoesOn
  <2>4. CASE DeletePage(w) \/ FinishThread(w) \/ WriteReplies(w)
    BY <2>3, <2>4, PageExact, FinishExact, WriteExact
  <2>5. CASE LeaveNext(w)
    <3>1. \A c \in Following(calls[w]) : c \in Comments
      BY DEF Following, IInv, TypeOK, Call, Roots
    <3>2. PICK c \in Comments : \/ comment' = comment
                                \/ ~IsRoot(c) /\ Exists(c) /\ RemoveReply(c)
                                \/ c \in Roots /\ MarkRoot(c)
      BY <2>5, <3>1 DEF LeaveNext, Roots
    <3> QED  BY <1>2, <2>3, <3>2, RemoveExact, MarkExact
  <2>6. CASE \/ ReadPage(w) \/ NotDue(w) \/ TallyShown(w) \/ ReadReplies(w) \/ EndSync(w)
             \/ CountShown(w) \/ StoreCount(w) \/ CountReplies(w) \/ LeaveCount(w) \/ LeaveStore(w)
    <3>1. comment' = comment
      BY <2>6 DEF ReadPage, NotDue, TallyShown, ReadReplies, EndSync, CountShown, StoreCount,
         CountReplies, LeaveCount, LeaveStore
    <3> QED  BY <1>2, <2>3, <3>1
  <2> QED  BY <1>5, <2>4, <2>5, <2>6 DEF WorkerStep
<1> QED  BY <1>3, <1>4, <1>5

LEMMA NextRoots ==
    ASSUME IInv, Shaped, [Next]_vars, NEW r \in Roots, RootExact(r)
    PROVE  RootExact(r)'
<1>1. ASSUME comment' = comment, Unbusy(r)' => Unbusy(r) PROVE RootExact(r)'
  BY <1>1, SameExact
<1>2. CASE UNCHANGED vars
  BY <1>1, <1>2 DEF vars, Unbusy, Busy, Moderating
<1>3. ASSUME calls' = calls, ghost'.doubtful = ghost.doubtful PROVE Unbusy(r)' => Unbusy(r)
  BY <1>3 DEF Unbusy, Busy, Moderating
<1>4. ASSUME NEW c \in Comments, Save(c) PROVE RootExact(r)'
  <2>1. calls' = calls /\ ghost'.doubtful = ghost.doubtful
    BY <1>4 DEF Save, IInv, TypeOK, Ghost
  <2> QED  BY <1>3, <1>4, <2>1, SaveExact
<1>5. ASSUME NEW c \in Comments, DeleteReply(c) PROVE RootExact(r)'
  BY <1>3, <1>5, RemoveExact DEF DeleteReply
<1>6. ASSUME NEW w \in Workers, ghost' = ghost,
             \/ \E q \in Roots : DeleteRoot(w, q)
             \/ \E c \in Comments : ModerateRemove(w, c)
             \/ Leave(w) \/ HandleEvent(w)
      PROVE  Unbusy(r)' => Unbusy(r)
  <2>1. Others(w) /\ Carries(calls[w], calls'[w]) /\ ~Busy(calls[w])
    BY <1>6, StartCarries, IdleFacts
  <2> QED  BY <1>6, <2>1, BusyGoesOn
<1>7. ASSUME NEW w \in Workers, NEW q \in Roots, DeleteRoot(w, q) PROVE RootExact(r)'
  BY <1>6, <1>7, MarkExact DEF DeleteRoot
<1>8. ASSUME NEW w \in Workers, NEW c \in Comments, ModerateRemove(w, c) PROVE RootExact(r)'
  BY <1>6, <1>8, MarkExact, RemoveExact DEF ModerateRemove, Roots
<1>9. ASSUME NEW w \in Workers, Leave(w) \/ HandleEvent(w) PROVE RootExact(r)'
  BY <1>1, <1>6, <1>9 DEF Leave, HandleEvent
<1>10. ASSUME NEW w \in Workers, Die(w) PROVE RootExact(r)'
  <2>1. comment' = comment /\ Others(w)
    BY <1>10, DieCarries DEF Die
  <2>2. (Unbusy(r)' => Unbusy(r)) \/ ~Unbusy(r)' \/ StoreReplies(w)
    BY <1>10, <2>1, EndUnbusy
  <2>3. ~StoreReplies(w)
    BY <1>10, ThreadAssumptions DEF Die, StoreReplies, IInv, TypeOK
  <2> QED  BY <1>1, <2>1, <2>2, <2>3
<1>11. ASSUME NEW w \in Workers, NEW c \in Comments, NEW op \in {"hold", "restore"}, Moderate(w, c, op)
       PROVE  RootExact(r)'
  <2>1. ASSUME RootOf[c] # r PROVE Unbusy(r)' => Unbusy(r)
    <3>1. ghost'.doubtful = ghost.doubtful
      BY <1>11 DEF Moderate, IInv, TypeOK, Ghost
    <3>2. ASSUME NEW v \in Workers, Busy(calls[v])
          PROVE  Busy(calls'[v]) /\ calls'[v].target = calls[v].target
      <4>1. PICK k \in Call : k = calls[v]
        BY DEF IInv, TypeOK
      <4>2. v # w
        BY <1>11, <3>2, IdleFacts DEF Moderate
      <4>3. calls'[v] = IF IsRoot(c) /\ v \in ModerationOf(c) THEN [k EXCEPT !.alone = FALSE] ELSE k
        BY <1>11, <4>1, <4>2, ModerateCarries
      <4>4. calls'[v].op = k.op /\ calls'[v].at = k.at /\ calls'[v].target = k.target
        BY <4>3 DEF Call
      <4> QED  BY <3>2, <4>1, <4>4 DEF Busy, Moderating
    <3> QED  BY <3>1, <3>2 DEF Unbusy, Busy, Moderating
  <2> QED  BY <1>11, <2>1, ModerateExact
<1>12. ASSUME NEW w \in Workers, WorkerStep(w) PROVE RootExact(r)'
  BY <1>12, StepRoots
<1>13. CASE Next
  BY <1>4, <1>5, <1>7, <1>8, <1>9, <1>10, <1>11, <1>12, <1>13 DEF Next
<1> QED  BY <1>2, <1>13

(* What happens to the post's counter.                                     *)
LEMMA PostSame ==
    ASSUME PostExact, PostSettled' => PostSettled, count' = count, Shown' = Shown
    PROVE  PostExact'
BY DEF PostExact

LEMMA PostRemoves ==
    ASSUME IInv, PostExact, PostSettled' => PostSettled, NEW c \in Comments, ~IsRoot(c), RemoveReply(c)
    PROVE  PostExact'
<1>1. count' = IF Counted(c) THEN Less(count) ELSE count
  BY DEF RemoveReply
<1>2. Shown' = Shown \ {c} /\ (Counted(c) <=> c \in Shown) /\ Shown \in SUBSET Comments
  BY RemoveCounts DEF Shown
<1>3. CASE Counted(c)
  BY <1>1, <1>2, <1>3, OneLess DEF PostExact
<1>4. CASE ~Counted(c)
  <2>1. Shown' = Shown
    BY <1>2, <1>4
  <2> QED  BY <1>1, <1>4, <2>1, PostSame
<1> QED  BY <1>3, <1>4

LEMMA MarkUnsettles == ASSUME TypeOK, NEW r \in Roots, MarkRoot(r) PROVE PostExact'
<1>1. job'[r].state = "ready"
  BY MarkQueues
<1> QED  BY <1>1 DEF PostExact, PostSettled

LEMMA BusyUnsettles == ASSUME NEW w \in Workers, Unstored(calls'[w]) PROVE PostExact'
BY DEF PostExact, PostSettled, Unstored, Moderating

(* The calls that have a count to store keep it until they store it.       *)
LEMMA SettledBefore ==
    ASSUME NEW w \in Workers, Others(w), Unstored(calls[w]) => Unstored(calls'[w]),
           ghost'.doubt = ghost.doubt, job' = job
    PROVE  PostSettled' => PostSettled
<1> SUFFICES ASSUME PostSettled' PROVE PostSettled
  OBVIOUS
<1>1. ASSUME NEW v \in Workers PROVE ~Unstored(calls[v])
  <2>1. ~Unstored(calls'[v])
    BY DEF PostSettled, Unstored, Moderating
  <2> QED  BY <2>1 DEF Others
<1> QED  BY <1>1 DEF PostSettled

(* A page of a thread whose job is done holds replies that are gone.       *)
LEMMA PageOfDoneThread ==
    ASSUME IInv, Shaped, NEW w \in Workers, DeletePage(w), PostExact
    PROVE  PostExact'
<1> DEFINE t == calls[w].target
<1>0. Others(w) /\ (Unstored(calls[w]) => Unstored(calls'[w]))
  BY StepCarries DEF WorkerStep, DeletePage, StoreCount, WriteFails
<1>1. /\ t \in Roots /\ calls[w].page \subseteq Replies(t) /\ job[t].state # "none"
  BY DEF DeletePage, IInv, CallSound, Thread, Shaped, CallShape
<1>2. ghost' = ghost /\ job' = job /\ count' = count
  BY DEF DeletePage
<1>3. PostSettled' => PostSettled
  BY <1>0, <1>2, SettledBefore
<1>4. ASSUME PostSettled PROVE Shown' = Shown
  <2>1. comment[t].status = "gone"
    BY <1>1, <1>4 DEF PostSettled, IInv, Marked, TypeOK, Job
  <2>2. \A c \in Comments : RootOf[c] = t => comment[c].status # "active"
    BY <2>1 DEF IInv, RepliesHaveRoot, Exists
  <2>3. \A c \in Comments : comment'[c].status = "active" <=> comment[c].status = "active"
    BY <1>1, <2>2 DEF DeletePage, IInv, TypeOK, Comment, Replies
  <2> QED  BY <2>3 DEF Shown
<1> QED  BY <1>2, <1>3, <1>4, PostSame DEF PostExact

(* A thread that is deleted for good stores a count, which is exact or     *)
(* leaves the post in doubt.                                               *)
LEMMA FinishPost ==
    ASSUME IInv, Shaped, NEW w \in Workers, FinishThread(w), PostExact
    PROVE  PostExact'
<1>0. Others(w) /\ (Unstored(calls[w]) => Unstored(calls'[w]))
  BY StepCarries DEF WorkerStep, FinishThread, StoreCount, WriteFails
<1>1. CASE ~Due(calls[w])
  <2>1. UNCHANGED <<comment, count, job, ghost>>
    BY <1>1 DEF FinishThread
  <2> QED  BY <1>0, <2>1, SettledBefore, PostSame DEF Shown
<1>2. CASE Due(calls[w])
  <2>1. calls[w].target \in Roots
    BY DEF FinishThread, IInv, CallSound, Thread
  <2>2. comment[calls[w].target].status = "deleting"
    BY <1>2, <2>1 DEF Due, IInv, Marked
  <2>3. \A c \in Comments : comment'[c].status = "active" <=> comment[c].status = "active"
    BY <1>2, <2>1, <2>2 DEF FinishThread, IInv, TypeOK, Comment
  <2>4. Shown' = Shown
    BY <2>3 DEF Shown
  <2>5. count' = calls[w].counted /\ ghost'.doubt = (calls[w].counted # Cardinality(Shown))
    BY <1>2 DEF FinishThread, IInv, TypeOK, Ghost
  <2> QED  BY <2>4, <2>5 DEF PostExact, PostSettled
<1> QED  BY <1>1, <1>2

LEMMA StepPost ==
    ASSUME IInv, Shaped, NEW w \in Workers, WorkerStep(w), PostExact
    PROVE  PostExact'
<1>0. Others(w) /\ (StoreCount(w) \/ WriteFails(w) \/ (Unstored(calls[w]) => Unstored(calls'[w])))
  BY StepCarries
<1>1. CASE StoreCount(w) \/ LeaveStore(w)
  <2>1. comment' = comment /\ count' = calls[w].counted
    BY <1>1 DEF StoreCount, LeaveStore
  <2>2. ghost'.doubt = (calls[w].counted # Cardinality(Shown))
    BY <1>1 DEF StoreCount, LeaveStore, IInv, TypeOK, Ghost
  <2> QED  BY <2>1, <2>2 DEF PostExact, PostSettled, Shown
<1>2. CASE WriteFails(w)
  <2>1. Moderating(calls[w])
    BY <1>2 DEF WriteFails, Shaped, CallShape, Syncing
  <2>2. ghost'.doubt = TRUE
    BY <1>2, <2>1 DEF WriteFails, Abandoned, Moderating, IInv, TypeOK, Ghost
  <2> QED  BY <2>2 DEF PostExact, PostSettled
<1>3. CASE WriteReplies(w)
  <2>1. Unstored(calls[w])
    BY <1>3 DEF WriteReplies, Shaped, CallShape, Syncing, Unstored
  <2>2. ~StoreCount(w)
    BY <1>3 DEF WriteReplies, StoreCount
  <2>3. ~WriteFails(w)
    BY <1>3 DEF WriteReplies, WriteFails
  <2> QED  BY <1>0, <2>1, <2>2, <2>3, BusyUnsettles
<1>4. CASE DeletePage(w) \/ FinishThread(w)
  BY <1>4, PageOfDoneThread, FinishPost
<1>5. ASSUME ~StoreCount(w), ~WriteFails(w), ghost'.doubt = ghost.doubt, job' = job
      PROVE  PostSettled' => PostSettled
  BY <1>0, <1>5, SettledBefore
<1>6. CASE StoreReplies(w)
  <2>1. RootOf[calls[w].target] \in Comments
    BY RootTyped DEF IInv, TypeOK, Call, Roots
  <2>2. \A c \in Comments : comment'[c].status = comment[c].status
    BY <1>6, <2>1 DEF StoreReplies, IInv, TypeOK, Comment
  <2>3. ghost'.doubt = ghost.doubt /\ job' = job /\ count' = count
    BY <1>6 DEF StoreReplies, IInv, TypeOK, Ghost
  <2>4. ~StoreCount(w) /\ ~WriteFails(w)
    BY <1>6 DEF StoreReplies, StoreCount, WriteFails
  <2> QED  BY <1>5, <2>2, <2>3, <2>4, PostSame DEF Shown
<1>7. CASE LeaveNext(w)
  <2>1. \A c \in Following(calls[w]) : c \in Comments
    BY DEF Following, IInv, TypeOK, Call, Roots
  <2>2. PICK c \in Comments : \/ UNCHANGED <<comment, count, job>>
                              \/ ~IsRoot(c) /\ RemoveReply(c)
                              \/ c \in Roots /\ MarkRoot(c)
    BY <1>7, <2>1 DEF LeaveNext, Roots
  <2>3. ghost' = ghost /\ ~StoreCount(w) /\ ~WriteFails(w)
    BY <1>7 DEF LeaveNext, StoreCount, WriteFails
  <2>4. CASE UNCHANGED <<comment, count, job>>
    BY <1>5, <2>3, <2>4, PostSame DEF Shown
  <2>5. CASE ~IsRoot(c) /\ RemoveReply(c)
    BY <1>5, <2>3, <2>5, PostRemoves DEF RemoveReply
  <2>6. CASE c \in Roots /\ MarkRoot(c)
    BY <2>6, MarkUnsettles DEF IInv
  <2> QED  BY <2>2, <2>4, <2>5, <2>6
<1>8. CASE EndSync(w)
  <2>1. UNCHANGED <<comment, count, job>> /\ ghost'.doubt = ghost.doubt
    BY <1>8 DEF EndSync, IInv, TypeOK, Ghost
  <2>2. ~StoreCount(w) /\ ~WriteFails(w)
    BY <1>8 DEF EndSync, StoreCount, WriteFails
  <2> QED  BY <1>5, <2>1, <2>2, PostSame DEF Shown
<1>9. CASE \/ ReadPage(w) \/ NotDue(w) \/ TallyShown(w) \/ ReadReplies(w)
           \/ CountShown(w) \/ CountReplies(w) \/ LeaveCount(w)
  <2>1. UNCHANGED <<comment, count, job, ghost>>
    BY <1>9 DEF ReadPage, NotDue, TallyShown, ReadReplies, CountShown, CountReplies, LeaveCount
  <2>2. ~StoreCount(w) /\ ~WriteFails(w)
    BY <1>9 DEF ReadPage, NotDue, TallyShown, ReadReplies, CountShown, CountReplies, LeaveCount,
       StoreCount, WriteFails
  <2> QED  BY <1>5, <2>1, <2>2, PostSame DEF Shown
<1> QED  BY <1>1, <1>2, <1>3, <1>4, <1>6, <1>7, <1>8, <1>9 DEF WorkerStep

LEMMA NextPost == ASSUME IInv, Shaped, PostExact, [Next]_vars PROVE PostExact'
<1>1. ASSUME calls' = calls, ghost'.doubt = ghost.doubt, job' = job PROVE PostSettled' => PostSettled
  BY <1>1 DEF PostSettled, Unstored, Moderating
<1>2. CASE UNCHANGED vars
  BY <1>1, <1>2, PostSame DEF vars, Shown
<1>3. ASSUME NEW c \in Comments, Save(c) PROVE PostExact'
  <2>1. calls' = calls /\ ghost'.doubt = ghost.doubt /\ job' = job /\ count' = count + 1
    BY <1>3 DEF Save, IInv, TypeOK, Ghost
  <2> QED  BY <1>1, <1>3, <2>1, SaveCounts DEF PostExact
<1>4. ASSUME NEW c \in Comments, DeleteReply(c) PROVE PostExact'
  <2>1. PostSettled' => PostSettled
    BY <1>1, <1>4 DEF DeleteReply, RemoveReply
  <2> QED  BY <1>4, <2>1, PostRemoves DEF DeleteReply
<1>5. ASSUME NEW w \in Workers, NEW q \in Roots, DeleteRoot(w, q) PROVE PostExact'
  BY <1>5, MarkUnsettles DEF IInv, DeleteRoot
<1>6. ASSUME NEW w \in Workers, ghost' = ghost, job' = job,
             \/ \E c \in Comments : ModerateRemove(w, c)
             \/ Leave(w) \/ HandleEvent(w)
      PROVE  PostSettled' => PostSettled
  <2>1. Others(w) /\ ~Unstored(calls[w])
    BY <1>6, StartCarries, IdleFacts
  <2> QED  BY <1>6, <2>1, SettledBefore
<1>7. ASSUME NEW w \in Workers, NEW c \in Comments, ModerateRemove(w, c) PROVE PostExact'
  <2>1. CASE IsRoot(c)
    BY <1>7, <2>1, MarkUnsettles DEF IInv, ModerateRemove, Roots
  <2>2. CASE ~IsRoot(c)
    BY <1>6, <1>7, <2>2, PostRemoves DEF ModerateRemove, RemoveReply
  <2> QED  BY <2>1, <2>2
<1>8. ASSUME NEW w \in Workers, Leave(w) \/ HandleEvent(w) PROVE PostExact'
  BY <1>6, <1>8, PostSame DEF Leave, HandleEvent, Shown
<1>9. ASSUME NEW w \in Workers, Die(w) PROVE PostExact'
  <2>1. UNCHANGED <<comment, count, job>> /\ Others(w) /\ ghost' = Abandoned(calls[w])
    BY <1>9, DieCarries DEF Die
  <2>2. ghost'.doubt = (ghost.doubt \/ Moderating(calls[w]))
    BY <2>1 DEF Abandoned, Moderating, IInv, TypeOK, Ghost
  <2>3. CASE Moderating(calls[w])
    BY <2>2, <2>3 DEF PostExact, PostSettled
  <2>4. CASE ~Moderating(calls[w])
    <3>1. ghost'.doubt = ghost.doubt
      BY <2>2, <2>4 DEF IInv, TypeOK, Ghost
    <3>2. PostSettled' => PostSettled
      BY <2>1, <2>4, <3>1, SettledBefore DEF Unstored
    <3> QED  BY <2>1, <3>2, PostSame DEF Shown
  <2> QED  BY <2>3, <2>4
<1>10. ASSUME NEW w \in Workers, NEW c \in Comments, NEW op \in {"hold", "restore"}, Moderate(w, c, op)
       PROVE  PostExact'
  <2>1. Unstored(calls'[w])
    BY <1>10, ModerateCarries DEF Unstored, Moderating
  <2> QED  BY <2>1, BusyUnsettles
<1>11. CASE Next
  BY <1>3, <1>4, <1>5, <1>7, <1>8, <1>9, <1>10, <1>11, StepPost DEF Next
<1> QED  BY <1>2, <1>11

LEMMA InitCounts == Init => CountInv
<1> SUFFICES ASSUME Init PROVE CountInv
  OBVIOUS
<1>1. \A w \in Workers : calls[w] = Idle
  BY DEF Init
<1>2. PICK shape \in [Comments -> {"unborn", "active", "held", "heldByThread"}] :
        AtRest(shape) /\ comment = [c \in Comments |-> Document(shape, c)] /\ count = Cardinality(Published(shape))
  BY DEF Init
<1>3. \A c \in Comments :
        /\ comment[c].status = IF shape[c] \in {"held", "heldByThread"} THEN "hold" ELSE shape[c]
        /\ comment[c].replies = IF IsRoot(c) THEN Cardinality(Replies(c) \cap Published(shape)) ELSE 0
  BY <1>2 DEF Document
<1>4. Shown = Published(shape)
  BY <1>3 DEF Shown, Published
<1>5. ASSUME NEW r \in Roots PROVE RootExact(r)
  <2>1. r \in Comments /\ IsRoot(r)
    BY DEF Roots
  <2>2. ShownReplies(r) = Replies(r) \cap Published(shape)
    BY <1>3 DEF ShownReplies, Replies, Published
  <2>3. comment[r].replies = Cardinality(ShownReplies(r))
    BY <1>3, <2>1, <2>2
  <2>4. comment[r].status = "unborn" => ShownReplies(r) = {}
    <3>1. SUFFICES ASSUME comment[r].status = "unborn", NEW c \in Replies(r) PROVE comment[c].status # "active"
      BY DEF ShownReplies
    <3>2. shape[r] = "unborn" /\ c \in Comments /\ RootOf[c] = r
      BY <1>3, <2>1, <3>1 DEF Replies
    <3> QED  BY <1>2, <1>3, <3>2 DEF AtRest
  <2> QED  BY <2>3, <2>4, FS_EmptySet DEF RootExact
<1>6. Shaped /\ PostExact
  BY <1>1, <1>2, <1>4, IdleFacts DEF Shaped, PostExact
<1> QED  BY <1>5, <1>6, InitInv DEF CountInv

LEMMA NextCounts == CountInv /\ [Next]_vars => CountInv'
<1> SUFFICES ASSUME CountInv, [Next]_vars PROVE CountInv'
  OBVIOUS
<1>1. IInv' /\ Shaped' /\ PostExact'
  BY NextInv, NextShaped, NextPost DEF CountInv
<1>2. ASSUME NEW r \in Roots PROVE RootExact(r)'
  BY <1>2, NextRoots DEF CountInv
<1> QED  BY <1>1, <1>2 DEF CountInv

(* Both counters are right whenever nothing is under way that will set     *)
(* them, except in the doubt that the properties name                      *)
(* (socialService.js:673-707, adminService.js:529-559,                     *)
(* deletionService.js:259-271).                                            *)
THEOREM CountsSettle == Spec => []CountersSettle
<1>1. Spec => []CountInv
  BY InitCounts, NextCounts, PTL DEF Spec
<1>2. CountInv => CountersSettle
  <2> SUFFICES ASSUME CountInv PROVE CountersSettle
    OBVIOUS
  <2>1. ASSUME NothingPending, ~ghost.doubt PROVE count = Cardinality(Shown)
    <3>1. ASSUME NEW w \in Workers PROVE ~Unstored(calls[w])
      <4>1. RootOf[calls[w].target] \in Roots
        BY RootTyped DEF CountInv, IInv, TypeOK, Call
      <4> QED  BY <2>1, <4>1 DEF NothingPending, Quiet, Unstored, Syncing, Counting
    <3> QED  BY <2>1, <3>1 DEF CountInv, PostExact, PostSettled, NothingPending
  <2>2. ASSUME NEW r \in Roots, Exists(r), comment[r].status # "deleting", Quiet(r), r \notin ghost.doubtful
        PROVE  comment[r].replies = Cardinality(ShownReplies(r))
    <3>1. Unbusy(r)
      BY <2>2 DEF Unbusy, Quiet, Busy
    <3> QED  BY <2>2, <3>1 DEF CountInv, RootExact, Exists
  <2> QED  BY <2>1, <2>2 DEF CountersSettle
<1> QED  BY <1>1, <1>2, PTL
=============================================================================
