------------------------- MODULE RouteRevisionsProofs -------------------------
(***************************************************************************)
(* Theorems about RouteRevisions, for any number of calls, readers,        *)
(* revisions and deletions: it implements RouteRegister, the revisions     *)
(* agree with the route, and readers see whole routes.                     *)
(***************************************************************************)
EXTENDS RouteRevisions, TLAPS

(* The route's revision and version say whether there is a route, and a    *)
(* creation goes by the version of a route that is not there.              *)
Versions ==
    /\ route.status = "none" => route = NoRoute
    /\ \A c \in Calls : call[c].op = "create" => call[c].base = 0

Typed == TypeOK /\ Versions

LEMMA InitTyped == Init => Typed
BY RevisionAssumptions DEF Init, Typed, TypeOK, Versions, Route, NoRoute, Revision, Call, Idle,
   Reader, NotReading, Deletion, Revisions, NoRevision

(* The calls: what each step of a call does to the route and the calls.    *)
LEMMA CallTyped ==
    ASSUME Typed, NEW c \in Calls, CallStep(c) \/ \E op \in {"create", "edit"} : Begin(c, op)
    PROVE  Typed'
<1> USE DEF Typed, TypeOK, Versions, Call, Goto, Return, Idle
<1>1. Idle \in Call /\ Idle.base = 0
  BY DEF NoRevision
<1>2. ASSUME NEW op \in {"create", "edit"}, Begin(c, op) PROVE Typed'
  BY <1>2 DEF Begin, NoRevision
<1>3. CASE Look(c)
  <2>1. UNCHANGED <<route, revision, reader, deletion>> /\ route.version \in Nat
    BY <1>3 DEF Look, Route
  <2>2. CASE Return(c)
    BY <2>1, <2>2, <1>1
  <2>3. CASE ~Return(c)
    <3>1. /\ call' = [call EXCEPT ![c] = [call[c] EXCEPT !.at = "prepare", !.base = route.version]]
          /\ call[c].op = "create" => route.version = 0
      BY <1>3, <2>3 DEF Look, NoRoute
    <3> QED  BY <2>1, <3>1
  <2> QED  BY <2>2, <2>3
<1>4. CASE Prepare(c)
  <2>1. PICK r \in Revisions :
          /\ revision' = [revision EXCEPT ![r] = [state |-> "prepared", expired |-> FALSE]]
          /\ call' = [call EXCEPT ![c] = [call[c] EXCEPT !.at = "commit", !.rev = r]]
          /\ UNCHANGED <<route, reader, deletion>>
    BY <1>4 DEF Prepare
  <2> QED  BY <2>1 DEF Revision
<1>5. CASE Activate(c)
  <2>1. PICK s \in {IF call[c].op = "create" THEN "active" ELSE route.status, "hold"} :
            route' = [status |-> s, version |-> call[c].base + 1, active |-> call[c].rev]
    BY <1>5 DEF Activate
  <2>2. s \in {"active", "hold"}
    BY <1>5, <2>1 DEF Activate, NothingNewer, Editable
  <2>5. call[c].rev \in Revisions
    BY <1>5 DEF Activate, Prepared
  <2>6. call[c].rev # NoRevision
    BY <2>5 DEF Revisions, NoRevision
  <2>3. route' \in Route /\ (route'.status = "none" <=> route'.active = NoRevision)
        /\ route'.status # "none"
    BY <2>1, <2>2, <2>5, <2>6 DEF Route
  <2>4. revision' \in [Revisions -> Revision]
    BY <1>5 DEF Activate, Revision, Superseded
  <2> QED  BY <1>5, <1>1, <2>3, <2>4 DEF Activate
<1>6. CASE Replay(c)
  BY <1>6 DEF Replay, Prepared, Revision, Superseded
<1>7. CASE Refuse(c)
  BY <1>7, <1>1 DEF Refuse
<1>8. CASE Discard(c)
  BY <1>8, <1>1 DEF Discard, Revision
<1>9. CASE Fails(c)
  BY <1>9, <1>1 DEF Fails
<1> QED  BY <1>2, <1>3, <1>4, <1>5, <1>6, <1>7, <1>8, <1>9 DEF CallStep

LEMMA RouteTyped ==
    ASSUME Typed, Moderate \/ MarkDeleting \/ DeletionStep
    PROVE  Typed'
<1> USE DEF Typed, TypeOK, Versions, Route, NoRoute, Deletion
<1>1. CASE Moderate
  BY <1>1 DEF Moderate, Editable
<1>2. CASE MarkDeleting
  <2>1. deletion.done + 1 \in 0..MaxDeletions
    BY <1>2, RevisionAssumptions DEF MarkDeleting
  <2>2. deletion' \in Deletion
    BY <1>2, <2>1 DEF MarkDeleting
  <2>3. route' \in Route /\ (route'.status = "none" <=> route'.active = NoRevision)
        /\ route'.status # "none"
    BY <1>2 DEF MarkDeleting
  <2> QED  BY <1>2, <2>2, <2>3 DEF MarkDeleting
<1>3. CASE ListTree
  BY <1>3 DEF ListTree
<1>4. CASE RemoveTree
  BY <1>4 DEF RemoveTree, Revision, Dropped
<1>5. CASE RemoveRoute
  BY <1>5 DEF RemoveRoute, Erased, NoRevision
<1>6. CASE DeletionFails
  BY <1>6 DEF DeletionFails
<1> QED  BY <1>1, <1>2, <1>3, <1>4, <1>5, <1>6 DEF DeletionStep

LEMMA ReaderTyped ==
    ASSUME Typed, NEW d \in Readers, ReaderStep(d)
    PROVE  Typed'
<1> USE DEF Typed, TypeOK, Versions, Reader, NotReading, NoRevision
<1>1. CASE ReadRoute(d)
  BY <1>1 DEF ReadRoute, Route
<1>2. CASE ReadRevision(d)
  BY <1>2 DEF ReadRevision
<1>3. CASE ReadBody(d)
  BY <1>3 DEF ReadBody
<1>4. CASE Leave(d)
  BY <1>4 DEF Leave
<1> QED  BY <1>1, <1>2, <1>3, <1>4 DEF ReaderStep

LEMMA NextTyped == Typed /\ [Next]_vars => Typed'
<1> SUFFICES ASSUME Typed, [Next]_vars PROVE Typed'
  OBVIOUS
<1>1. ASSUME NEW r \in Revisions, Expires(r) \/ Sweep(r) PROVE Typed'
  BY <1>1 DEF Typed, TypeOK, Versions, Expires, Sweep, Sweepable, Dropped, Revision
<1>2. CASE UNCHANGED vars
  BY <1>2 DEF Typed, TypeOK, Versions, vars
<1> QED  BY <1>1, <1>2, CallTyped, RouteTyped, ReaderTyped DEF Next

(* Every reachable state is well typed; a route has a revision exactly     *)
(* when it is there (saveRoute, deleteContentInternal).                    *)
THEOREM RouteTypeCorrect == Spec => []TypeOK
<1>1. Typed => TypeOK
  BY DEF Typed
<1> QED  BY InitTyped, NextTyped, <1>1, PTL DEF Spec
-----------------------------------------------------------------------------
(* The refinement.  What a writer of the register has seen is the base of  *)
(* the call; a call that ends has seen nothing.                            *)
Seen == [c \in Calls |-> call[c].base]

LEMMA Forgetting ==
    ASSUME Typed, NEW c \in Calls, Return(c), UNCHANGED <<route>>
    PROVE  Register!GiveUp(c)
<1>1. Seen' = [Seen EXCEPT ![c] = 0]
  BY DEF Seen, Return, Goto, Idle, Typed, TypeOK
<1> QED  BY <1>1 DEF Seen, Register!GiveUp, Register!Forget

LEMMA SameSeen ==
    ASSUME Typed, NEW c \in Calls, NEW k \in Call, k.base = call[c].base, Goto(c, k)
    PROVE  Seen' = Seen
BY DEF Seen, Goto, Typed, TypeOK

LEMMA InitRegister == Init => Register!Init
BY DEF Init, Register!Init, NoRoute, Idle

LEMMA CallRegister ==
    ASSUME Typed, NEW c \in Calls, CallStep(c) \/ \E op \in {"create", "edit"} : Begin(c, op)
    PROVE  [Register!Next]_(Register!vars)
<1> DEFINE Stutters == UNCHANGED route /\ Seen' = Seen
<1>1. Stutters => UNCHANGED Register!vars
  BY DEF Register!vars, Seen
<1>2. call[c] \in Call
  BY DEF Typed, TypeOK
<1>3. Return(c) /\ UNCHANGED route => Register!Next
  BY Forgetting DEF Register!Next
<1>4. ASSUME NEW op \in {"create", "edit"}, Begin(c, op) PROVE Stutters
  <2>1. [Idle EXCEPT !.at = "look", !.op = op] \in Call
    BY DEF Idle, Call, NoRevision
  <2> QED  BY <1>4, <2>1, SameSeen DEF Begin, Idle
<1>5. CASE Look(c)
  <2>1. CASE Return(c)
    BY <1>5, <2>1, <1>3 DEF Look
  <2>2. CASE ~Return(c)
    <3>1. Goto(c, [call[c] EXCEPT !.at = "prepare", !.base = route.version])
      BY <1>5, <2>2 DEF Look
    <3>2. Seen' = [Seen EXCEPT ![c] = route.version]
      BY <3>1 DEF Seen, Goto, Typed, TypeOK, Call
    <3> QED  BY <3>2, <1>5 DEF Look, Seen, Register!Next, Register!Look
  <2> QED  BY <2>1, <2>2
<1>6. CASE Prepare(c)
  <2>1. PICK r \in Revisions : Goto(c, [call[c] EXCEPT !.at = "commit", !.rev = r])
    BY <1>6 DEF Prepare
  <2>2. /\ [call[c] EXCEPT !.at = "commit", !.rev = r] \in Call
        /\ [call[c] EXCEPT !.at = "commit", !.rev = r].base = call[c].base
    BY <1>2 DEF Call
  <2> QED  BY <1>6, <2>1, <2>2, <1>1, SameSeen DEF Prepare
<1>7. CASE Activate(c)
  <2>1. PICK s \in {IF call[c].op = "create" THEN "active" ELSE route.status, "hold"} :
            route' = [status |-> s, version |-> call[c].base + 1, active |-> call[c].rev]
    BY <1>7 DEF Activate
  <2>2. call[c].rev \in Revisions
    BY <1>7 DEF Activate, Prepared, Typed, TypeOK
  <2>3. Seen' = [Seen EXCEPT ![c] = 0]
    BY <1>7, <1>2 DEF Activate, Return, Goto, Idle, Seen, Typed, TypeOK
  <2>4. CASE call[c].op = "create"
    <3>1. route.status = "none" /\ call[c].base = 0
      BY <1>7, <2>4 DEF Activate, NothingNewer, Typed, Versions
    <3>2. Register!Create(c, call[c].rev)
      BY <2>1, <2>3, <2>4, <3>1 DEF Register!Create, Register!Forget, Seen
    <3> QED  BY <2>2, <3>2 DEF Register!Next
  <2>5. CASE call[c].op = "edit"
    <3>1. Editable /\ route.version = call[c].base
      BY <1>7, <2>5 DEF Activate, NothingNewer
    <3>2. Register!Replace(c, call[c].rev)
      BY <2>1, <2>3, <2>5, <3>1 DEF Editable, Register!Editable, Register!Replace,
         Register!Forget, Seen
    <3> QED  BY <2>2, <3>2 DEF Register!Next
  <2> QED  BY <1>2, <2>4, <2>5 DEF Call
<1>8. CASE Replay(c)
  <2>1. /\ [call[c] EXCEPT !.at = "discard"] \in Call
        /\ [call[c] EXCEPT !.at = "discard"].base = call[c].base
    BY <1>2 DEF Call
  <2> QED  BY <1>8, <2>1, <1>1, SameSeen DEF Replay
<1>9. CASE Refuse(c) \/ Discard(c) \/ Fails(c)
  BY <1>9, <1>3 DEF Refuse, Discard, Fails
<1> QED  BY <1>1, <1>4, <1>5, <1>6, <1>7, <1>8, <1>9 DEF CallStep

LEMMA RouteRegisterStep ==
    ASSUME Typed, Moderate \/ MarkDeleting \/ DeletionStep
    PROVE  [Register!Next]_(Register!vars)
<1>1. Seen' = Seen
  BY DEF Seen, Moderate, MarkDeleting, DeletionStep, ListTree, RemoveTree, RemoveRoute,
     DeletionFails
<1>2. UNCHANGED route => UNCHANGED Register!vars
  BY <1>1 DEF Register!vars, Seen
<1>3. route \in Route
  BY DEF Typed, TypeOK
<1>4. CASE Moderate
  <2>1. Register!Moderate
    BY <1>1, <1>3, <1>4 DEF Moderate, Editable, Register!Moderate, Register!Editable, Route, Seen
  <2> QED  BY <2>1 DEF Register!Next
<1>5. CASE MarkDeleting
  <2>1. CASE route.status = "active"
    <3>1. Register!MarkDeleting
      BY <1>1, <1>3, <1>5, <2>1 DEF MarkDeleting, Register!MarkDeleting, Route, Seen
    <3> QED  BY <3>1 DEF Register!Next
  <2> QED  BY <1>2, <1>5, <2>1 DEF MarkDeleting
<1>6. CASE RemoveRoute
  <2>1. CASE route.status = "none"
    BY <1>2, <1>6, <2>1 DEF RemoveRoute, Erased, Typed, Versions
  <2>2. CASE route.status # "none"
    <3>1. Register!Erase
      BY <1>1, <1>6, <2>2 DEF RemoveRoute, Erased, NoRoute, Register!Erase, Seen
    <3> QED  BY <3>1 DEF Register!Next
  <2> QED  BY <2>1, <2>2
<1>7. CASE ListTree \/ RemoveTree \/ DeletionFails
  BY <1>2, <1>7 DEF ListTree, RemoveTree, DeletionFails
<1> QED  BY <1>4, <1>5, <1>6, <1>7 DEF DeletionStep

LEMMA NextRegister == Typed /\ [Next]_vars => [Register!Next]_(Register!vars)
<1> SUFFICES ASSUME Typed, [Next]_vars PROVE [Register!Next]_(Register!vars)
  OBVIOUS
<1>1. ASSUME NEW d \in Readers, ReaderStep(d) PROVE UNCHANGED Register!vars
  BY <1>1 DEF ReaderStep, ReadRoute, ReadRevision, ReadBody, Leave, Register!vars
<1>2. ASSUME NEW r \in Revisions, Expires(r) \/ Sweep(r) PROVE UNCHANGED Register!vars
  BY <1>2 DEF Expires, Sweep, Register!vars
<1>3. CASE UNCHANGED vars
  BY <1>3 DEF vars, Register!vars
<1> QED  BY <1>1, <1>2, <1>3, CallRegister, RouteRegisterStep DEF Next

(* saveRoute behaves like a document that is replaced whole, by a save     *)
(* that saw what it replaces; preparing, replaying, discarding, superseding*)
(* and sweeping revisions cannot be observed (routeService.js:484-935).    *)
THEOREM RoutesImplementRegister == Spec => ImplementsRegister
<1>1. Init => Register!Init
  BY InitRegister
<1> QED  BY <1>1, InitTyped, NextTyped, NextRegister, PTL
        DEF Spec, ImplementsRegister, Register!Spec
-----------------------------------------------------------------------------
(* A deletion that found the route in sight holds it: nothing is activated *)
(* until the route is gone, and no active revision escapes the listing.    *)
Deleted ==
    ~deletion.held =>
        /\ deletion.at # "idle" => route.status = "deleting"
        /\ deletion.at = "remove" => ActiveRevisions \subseteq deletion.found
        /\ deletion.at = "erase" => ActiveRevisions = {}

(* A revision that is being discarded is none that was ever the route's.   *)
Discarded ==
    \A c \in Calls : call[c].at = "discard" =>
        revision[call[c].rev].state \in {"superseded", "gone"}

Agreement == Typed /\ OneActiveRevision /\ Deleted /\ Discarded

LEMMA InitAgreement == Init => Agreement
<1> SUFFICES ASSUME Init PROVE Agreement
  OBVIOUS
<1>1. ActiveRevisions = {}
  BY DEF Init, ActiveRevisions
<1> QED  BY <1>1, InitTyped
     DEF Init, Agreement, OneActiveRevision, Deleted, Discarded, Idle, NoRoute

(* Whatever leaves the route and the deletion alone and moves no revision  *)
(* into or out of "active" keeps the agreement.                            *)
LEMMA SameAgreement ==
    ASSUME Agreement, Typed', UNCHANGED <<route, deletion>>,
           ActiveRevisions' = ActiveRevisions, Discarded'
    PROVE  Agreement'
BY DEF Agreement, OneActiveRevision, Deleted

LEMMA CallAgreement ==
    ASSUME Agreement, Typed', NEW c \in Calls,
           CallStep(c) \/ \E op \in {"create", "edit"} : Begin(c, op)
    PROVE  Agreement'
<1> USE DEF Goto, Return
<1>1. Typed /\ Discarded /\ call \in [Calls -> Call] /\ revision \in [Revisions -> Revision]
  BY DEF Agreement, Typed, TypeOK
<1>2. ASSUME NEW op \in {"create", "edit"}, Begin(c, op) PROVE Agreement'
  BY <1>1, <1>2, SameAgreement DEF Begin, ActiveRevisions, Discarded, Idle
<1>3. CASE Look(c)
  <2>1. PICK next \in {Idle, [call[c] EXCEPT !.at = "prepare", !.base = route.version]} :
            call' = [call EXCEPT ![c] = next]
    BY <1>3 DEF Look
  <2>2. next.at # "discard"
    <3>1. Idle.at = "idle"
      BY DEF Idle
    <3>2. [call[c] EXCEPT !.at = "prepare", !.base = route.version].at = "prepare"
      BY <1>1 DEF Call
    <3> QED  BY <3>1, <3>2
  <2>3. call'[c].at # "discard" /\ \A e \in Calls : e # c => call'[e] = call[e]
    BY <1>1, <2>1, <2>2
  <2> QED  BY <2>3, <1>1, <1>3, SameAgreement DEF Look, ActiveRevisions, Discarded
<1>4. CASE Prepare(c)
  <2>1. PICK r \in Revisions :
          /\ revision[r].state = "unused"
          /\ revision' = [revision EXCEPT ![r] = [state |-> "prepared", expired |-> FALSE]]
          /\ call' = [call EXCEPT ![c] = [call[c] EXCEPT !.at = "commit", !.rev = r]]
          /\ UNCHANGED <<route, reader, deletion>>
    BY <1>4 DEF Prepare
  <2>2. ActiveRevisions' = ActiveRevisions
    BY <1>1, <2>1 DEF ActiveRevisions
  <2>3. call'[c].at = "commit" /\ \A e \in Calls : e # c => call'[e] = call[e]
    BY <1>1, <2>1 DEF Call
  <2>4. Discarded'
    BY <1>1, <2>1, <2>3 DEF Discarded, Typed, TypeOK
  <2> QED  BY <2>1, <2>2, <2>4, SameAgreement
<1>5. CASE Activate(c)
  <2> DEFINE own == call[c].rev
  <2>1. own \in Revisions /\ revision[own].state = "prepared"
    BY <1>1, <1>5 DEF Activate, Prepared, Typed, TypeOK
  <2>2. route'.active = own /\ route'.status \in {"active", "hold"}
    <3>1. PICK s \in {IF call[c].op = "create" THEN "active" ELSE route.status, "hold"} :
              route' = [status |-> s, version |-> call[c].base + 1, active |-> call[c].rev]
      BY <1>5 DEF Activate
    <3>2. s \in {"active", "hold"}
      BY <1>5, <3>1 DEF Activate, NothingNewer, Editable
    <3> QED  BY <3>1, <3>2
  <2>3. route.status \in {"none", "active", "hold"} /\ UNCHANGED deletion
    BY <1>5 DEF Activate, NothingNewer, Editable
  <2>4. \A r \in Revisions :
          revision'[r].state = IF r = own THEN "active"
                               ELSE IF r = route.active /\ revision[r].state # "gone"
                               THEN "superseded" ELSE revision[r].state
    BY <1>1, <1>5 DEF Activate, Superseded, Revision
  <2>5. ~deletion.held => deletion.at = "idle"
    BY <2>3 DEF Agreement, Deleted
  <2>6. ~deletion.held => ActiveRevisions \subseteq {route.active}
    BY <2>3 DEF Agreement, OneActiveRevision
  <2>7. ~deletion.held => ActiveRevisions' = {own}
    BY <2>1, <2>4, <2>6 DEF ActiveRevisions
  <2>8. Discarded'
    <3> SUFFICES ASSUME NEW e \in Calls, call'[e].at = "discard"
                 PROVE  revision'[call'[e].rev].state \in {"superseded", "gone"}
      BY DEF Discarded
    <3>1. e # c /\ call'[e] = call[e]
      BY <1>1, <1>5 DEF Activate, Idle
    <3>2. call[e].rev \in Revisions /\ revision[call[e].rev].state \in {"superseded", "gone"}
      BY <1>1, <3>1 DEF Discarded, Typed, TypeOK
    <3> QED  BY <2>1, <2>4, <3>1, <3>2
  <2> QED  BY <2>2, <2>3, <2>5, <2>7, <2>8 DEF Agreement, OneActiveRevision, Deleted
<1>6. CASE Replay(c)
  <2>1. call[c].rev \in Revisions /\ revision[call[c].rev].state = "prepared"
    BY <1>1, <1>6 DEF Replay, Prepared, Typed, TypeOK
  <2>2. \A r \in Revisions :
          revision'[r].state = IF r = call[c].rev THEN "superseded" ELSE revision[r].state
    BY <1>1, <1>6 DEF Replay, Superseded, Revision
  <2>3. ActiveRevisions' = ActiveRevisions
    BY <2>1, <2>2 DEF ActiveRevisions
  <2>4. \A e \in Calls : call'[e].rev = call[e].rev /\ (e # c => call'[e].at = call[e].at)
    BY <1>1, <1>6 DEF Replay, Call
  <2>5. Discarded'
    BY <1>1, <2>1, <2>2, <2>4 DEF Discarded, Typed, TypeOK
  <2> QED  BY <1>6, <2>3, <2>5, SameAgreement DEF Replay
<1>7. CASE Refuse(c) \/ Fails(c)
  BY <1>1, <1>7, SameAgreement DEF Refuse, Fails, ActiveRevisions, Discarded, Idle
<1>8. CASE Discard(c)
  <2>1. /\ call[c].rev \in Revisions
        /\ revision[call[c].rev].state \in {"superseded", "gone"}
    BY <1>1, <1>8 DEF Discard, Discarded, Typed, TypeOK
  <2>2. \A r \in Revisions : revision'[r].state = revision[r].state
                             \/ (r = call[c].rev /\ revision'[r].state = "gone")
    BY <1>1, <1>8 DEF Discard, Revision
  <2>3. ActiveRevisions' = ActiveRevisions
    BY <2>1, <2>2 DEF ActiveRevisions
  <2>4. call'[c].at = "idle" /\ \A e \in Calls : e # c => call'[e] = call[e]
    BY <1>1, <1>8 DEF Discard, Idle
  <2>5. Discarded'
    BY <1>1, <2>2, <2>4 DEF Discarded, Typed, TypeOK
  <2> QED  BY <1>8, <2>3, <2>5, SameAgreement DEF Discard
<1> QED  BY <1>2, <1>3, <1>4, <1>5, <1>6, <1>7, <1>8 DEF CallStep

LEMMA RouteAgreement ==
    ASSUME Agreement, Typed', Moderate \/ MarkDeleting \/ DeletionStep
    PROVE  Agreement'
<1>1. Typed /\ route \in Route /\ deletion \in Deletion /\ revision \in [Revisions -> Revision]
  BY DEF Agreement, Typed, TypeOK
<1>2. ASSUME UNCHANGED revision
      PROVE  ActiveRevisions' = ActiveRevisions
  BY <1>2 DEF ActiveRevisions
<1>3. ASSUME UNCHANGED <<revision, call>> PROVE Discarded'
  BY <1>3 DEF Agreement, Discarded
<1>4. CASE Moderate
  <2>1. /\ route.status \in {"active", "hold"} /\ route'.status \in {"active", "hold"}
        /\ route'.active = route.active /\ UNCHANGED deletion
    BY <1>1, <1>4 DEF Moderate, Editable, Route
  <2> QED  BY <1>2, <1>3, <1>4, <2>1 DEF Moderate, Agreement, OneActiveRevision, Deleted
<1>5. CASE MarkDeleting
  <2>1. /\ route'.active = route.active
        /\ route.status \in {"active", "hold", "deleting"}
        /\ route'.status = IF route.status = "active" THEN "deleting" ELSE route.status
        /\ deletion'.at = "list"
        /\ ~deletion'.held => ~deletion.held /\ route.status # "hold"
    BY <1>1, <1>5 DEF MarkDeleting, Route, Deletion
  <2> QED  BY <1>2, <1>3, <1>5, <2>1 DEF MarkDeleting, Agreement, OneActiveRevision, Deleted
<1>6. CASE ListTree
  <2>1. /\ deletion'.at = "remove" /\ deletion'.held = deletion.held
        /\ deletion'.found = {r \in Revisions : revision[r].state \notin {"unused", "gone"}}
    BY <1>1, <1>6 DEF ListTree, Deletion
  <2>2. ActiveRevisions \subseteq deletion'.found
    BY <2>1 DEF ActiveRevisions
  <2> QED  BY <1>2, <1>3, <1>6, <2>1, <2>2 DEF ListTree, Agreement, OneActiveRevision, Deleted
<1>7. CASE RemoveTree
  <2>1. /\ deletion.at = "remove" /\ deletion'.at = "erase"
        /\ deletion'.held = deletion.held
    BY <1>1, <1>7 DEF RemoveTree, Deletion
  <2>2. \A r \in Revisions :
          revision'[r].state = IF r \in deletion.found THEN "gone" ELSE revision[r].state
    BY <1>1, <1>7 DEF RemoveTree, Dropped, Revision
  <2>3. ~deletion.held => ActiveRevisions' = {}
    BY <2>1, <2>2 DEF Agreement, Deleted, ActiveRevisions
  <2>4. Discarded'
    BY <1>1, <1>7, <2>2 DEF RemoveTree, Agreement, Discarded, Typed, TypeOK
  <2>5. ~deletion.held => route.status = "deleting"
    BY <2>1 DEF Agreement, Deleted
  <2> QED  BY <1>7, <2>1, <2>3, <2>4, <2>5
           DEF RemoveTree, Agreement, OneActiveRevision, Deleted
<1>8. CASE RemoveRoute
  <2>1. /\ deletion.at = "erase" /\ deletion'.at = "idle" /\ deletion'.held = deletion.held
        /\ route'.status = "none"
    BY <1>1, <1>8 DEF RemoveRoute, Deletion, Erased, NoRoute
  <2>2. ~deletion.held => ActiveRevisions = {}
    BY <2>1 DEF Agreement, Deleted
  <2> QED  BY <1>2, <1>3, <1>8, <2>1, <2>2
           DEF RemoveRoute, Agreement, OneActiveRevision, Deleted
<1>9. CASE DeletionFails
  <2>1. deletion'.at = "idle" /\ deletion'.held = deletion.held
    BY <1>1, <1>9 DEF DeletionFails, Deletion
  <2> QED  BY <1>2, <1>3, <1>9, <2>1 DEF DeletionFails, Agreement, OneActiveRevision, Deleted
<1> QED  BY <1>4, <1>5, <1>6, <1>7, <1>8, <1>9 DEF DeletionStep

LEMMA NextAgreement == Agreement /\ [Next]_vars => Agreement'
<1> SUFFICES ASSUME Agreement, [Next]_vars PROVE Agreement'
  OBVIOUS
<1>1. Typed /\ Typed' /\ revision \in [Revisions -> Revision]
  BY NextTyped DEF Agreement, Typed, TypeOK
<1>2. ASSUME NEW d \in Readers, ReaderStep(d) PROVE Agreement'
  <2>1. UNCHANGED <<route, revision, call, deletion>>
    BY <1>2 DEF ReaderStep, ReadRoute, ReadRevision, ReadBody, Leave
  <2> QED  BY <2>1, <1>1, SameAgreement DEF Agreement, ActiveRevisions, Discarded
<1>3. ASSUME NEW r \in Revisions, Expires(r) \/ Sweep(r) PROVE Agreement'
  <2>1. /\ UNCHANGED <<route, call, deletion>>
        /\ \A q \in Revisions : \/ revision'[q].state = revision[q].state
                                \/ revision[q].state # "active" /\ revision'[q].state = "gone"
    BY <1>1, <1>3 DEF Expires, Sweep, Sweepable, Dropped, Revision
  <2>2. ActiveRevisions' = ActiveRevisions
    BY <2>1 DEF ActiveRevisions
  <2>3. Discarded'
    BY <1>1, <2>1 DEF Agreement, Discarded, Typed, TypeOK
  <2> QED  BY <2>1, <2>2, <2>3, <1>1, SameAgreement
<1>4. CASE UNCHANGED vars
  BY <1>4, <1>1, SameAgreement DEF vars, Agreement, ActiveRevisions, Discarded
<1> QED  BY <1>1, <1>2, <1>3, <1>4, CallAgreement, RouteAgreement DEF Next

(* The route and its revisions agree: no interleaving of saves, repeated   *)
(* creations, the sweep and a deletion of a route in sight leaves two      *)
(* active revisions, none, or one of a route that is gone.                 *)
THEOREM RevisionsAgree == Spec => []OneActiveRevision
<1>1. Agreement => OneActiveRevision
  BY DEF Agreement
<1> QED  BY InitAgreement, NextAgreement, <1>1, PTL DEF Spec
-----------------------------------------------------------------------------
(* While no deletion has begun, the revision under a reader's eyes stays:  *)
(* it is active, or superseded and not expired, and no call discards it.   *)
InSight(d) ==
    /\ revision[reader[d].rev].state \in {"active", "superseded"}
    /\ ~revision[reader[d].rev].expired
    /\ \A c \in Calls : call[c].at = "discard" => call[c].rev # reader[d].rev

Kept ==
    /\ deletion.at # "idle" => deletion.done # 0
    /\ \A r \in Revisions : revision[r].state = "active" => ~revision[r].expired
    /\ deletion.done = 0 =>
         \A d \in Readers : reader[d].whole /\ (reader[d].at = "body" => InSight(d))

Reading == Agreement /\ Kept

LEMMA InitReading == Init => Reading
BY InitAgreement DEF Init, Reading, Kept, NotReading

LEMMA CallReading ==
    ASSUME Reading, Agreement', NEW c \in Calls,
           CallStep(c) \/ \E op \in {"create", "edit"} : Begin(c, op)
    PROVE  Reading'
<1> USE DEF Goto, Return
<1>1. /\ Typed /\ call \in [Calls -> Call] /\ revision \in [Revisions -> Revision]
      /\ Discarded /\ UNCHANGED <<reader, deletion>>
      /\ \A d \in Readers : reader[d].at = "body" => reader[d].rev \in Revisions
  BY DEF Reading, Agreement, Typed, TypeOK, CallStep, Begin, Look, Prepare, Activate, Replay,
     Refuse, Discard, Fails
<1> SUFFICES /\ \A r \in Revisions : revision'[r].state = "active" => ~revision'[r].expired
             /\ \A d \in Readers : reader[d].at = "body" /\ InSight(d) => InSight(d)'
  BY <1>1 DEF Reading, Kept
<1>2. ASSUME NEW op \in {"create", "edit"}, Begin(c, op)
      PROVE  \A d \in Readers : InSight(d) => InSight(d)'
  BY <1>1, <1>2 DEF Begin, InSight, Idle
<1>3. CASE Look(c) \/ Refuse(c) \/ Fails(c)
  <2>1. PICK next \in {Idle, [call[c] EXCEPT !.at = "prepare", !.base = route.version]} :
            call' = [call EXCEPT ![c] = next]
    BY <1>3 DEF Look, Refuse, Fails
  <2>2. next.at # "discard"
    <3>1. Idle.at = "idle"
      BY DEF Idle
    <3>2. [call[c] EXCEPT !.at = "prepare", !.base = route.version].at = "prepare"
      BY <1>1 DEF Call
    <3> QED  BY <3>1, <3>2
  <2>3. call'[c].at # "discard" /\ \A e \in Calls : e # c => call'[e] = call[e]
    BY <1>1, <2>1, <2>2
  <2>4. \A d \in Readers : InSight(d) => InSight(d)'
    BY <1>1, <1>3, <2>3 DEF Look, Refuse, Fails, InSight
  <2> QED  BY <1>3, <2>4 DEF Look, Refuse, Fails, Reading, Kept
<1>4. CASE Prepare(c)
  <2>1. PICK r \in Revisions :
          /\ revision[r].state = "unused"
          /\ revision' = [revision EXCEPT ![r] = [state |-> "prepared", expired |-> FALSE]]
          /\ call' = [call EXCEPT ![c] = [call[c] EXCEPT !.at = "commit", !.rev = r]]
    BY <1>4 DEF Prepare
  <2>2. call'[c].at = "commit" /\ \A e \in Calls : e # c => call'[e] = call[e]
    BY <1>1, <2>1 DEF Call
  <2>3. \A q \in Revisions : IF q = r THEN revision'[q].state = "prepared"
                                      ELSE revision'[q] = revision[q]
    BY <1>1, <2>1
  <2> QED  BY <1>1, <2>1, <2>2, <2>3 DEF InSight, Reading, Kept
<1>5. CASE Activate(c)
  <2>1. call[c].rev \in Revisions /\ revision[call[c].rev].state = "prepared"
    BY <1>1, <1>5 DEF Activate, Prepared, Typed, TypeOK
  <2>2. \A r \in Revisions :
          IF r = call[c].rev THEN revision'[r].state = "active" /\ ~revision'[r].expired
          ELSE /\ revision'[r].expired = revision[r].expired
               /\ revision'[r].state = (IF r = route.active /\ revision[r].state # "gone"
                                        THEN "superseded" ELSE revision[r].state)
    BY <1>1, <1>5 DEF Activate, Superseded, Revision
  <2>3. \A e \in Calls : call'[e].at = "discard" => call'[e] = call[e]
    BY <1>1, <1>5 DEF Activate, Idle
  <2> QED  BY <1>1, <2>1, <2>2, <2>3 DEF InSight, Reading, Kept
<1>6. CASE Replay(c)
  <2>1. call[c].rev \in Revisions /\ revision[call[c].rev].state = "prepared"
    BY <1>1, <1>6 DEF Replay, Prepared, Typed, TypeOK
  <2>2. \A r \in Revisions : IF r = call[c].rev THEN revision'[r].state = "superseded"
                             ELSE revision'[r] = revision[r]
    BY <1>1, <1>6 DEF Replay, Superseded, Revision
  <2>3. \A e \in Calls : call'[e].rev = call[e].rev /\ (e # c => call'[e].at = call[e].at)
    BY <1>1, <1>6 DEF Replay, Call
  <2> QED  BY <1>1, <2>1, <2>2, <2>3 DEF InSight, Reading, Kept
<1>7. CASE Discard(c)
  <2>1. /\ call[c].at = "discard" /\ call[c].rev \in Revisions
        /\ revision[call[c].rev].state \in {"superseded", "gone"}
    BY <1>1, <1>7 DEF Discard, Discarded, Typed, TypeOK
  <2>2. \A r \in Revisions : \/ revision'[r] = revision[r]
                             \/ r = call[c].rev /\ revision'[r].state = "gone"
    BY <1>1, <1>7 DEF Discard, Revision
  <2>3. \A e \in Calls : call'[e].at = "discard" => call'[e] = call[e]
    BY <1>1, <1>7 DEF Discard, Idle
  <2> QED  BY <1>1, <2>1, <2>2, <2>3 DEF InSight, Reading, Kept
<1>8. ASSUME NEW op \in {"create", "edit"}, Begin(c, op) PROVE revision' = revision
  BY <1>8 DEF Begin
<1> QED  BY <1>2, <1>3, <1>4, <1>5, <1>6, <1>7, <1>8 DEF CallStep, Reading, Kept

LEMMA RouteReading ==
    ASSUME Reading, Agreement', Moderate \/ MarkDeleting \/ DeletionStep
    PROVE  Reading'
<1>1. deletion \in Deletion /\ revision \in [Revisions -> Revision]
  BY DEF Reading, Agreement, Typed, TypeOK
<1>2. CASE Moderate
  BY <1>2 DEF Moderate, Reading, Kept, InSight
<1>3. CASE MarkDeleting
  <2>1. deletion'.done = deletion.done + 1 /\ deletion.done \in Nat
    BY <1>1, <1>3, RevisionAssumptions DEF MarkDeleting, Deletion
  <2>2. deletion'.done # 0
    BY <2>1
  <2> QED  BY <1>3, <2>2 DEF MarkDeleting, Reading, Kept
<1>4. CASE DeletionStep
  <2>1. deletion'.done = deletion.done /\ deletion.done # 0
    BY <1>1, <1>4 DEF DeletionStep, ListTree, RemoveTree, RemoveRoute, DeletionFails, Deletion,
       Reading, Kept
  <2>2. \A r \in Revisions : revision'[r] = revision[r] \/ revision'[r].state = "gone"
    BY <1>1, <1>4 DEF DeletionStep, ListTree, RemoveTree, RemoveRoute, DeletionFails, Dropped,
       Revision
  <2> QED  BY <2>1, <2>2 DEF Reading, Kept
<1> QED  BY <1>2, <1>3, <1>4

LEMMA ReaderReading ==
    ASSUME Reading, Agreement', NEW d \in Readers, ReaderStep(d)
    PROVE  Reading'
<1>1. /\ reader \in [Readers -> Reader] /\ Discarded
      /\ UNCHANGED <<route, revision, call, deletion>>
      /\ reader[d].at = "revision" => reader[d].rev \in Revisions
  BY DEF Reading, Agreement, Typed, TypeOK, ReaderStep, ReadRoute, ReadRevision, ReadBody, Leave
<1> SUFFICES ASSUME deletion.done = 0, NEW e \in Readers
             PROVE  reader'[e].whole /\ (reader'[e].at = "body" => InSight(e)')
  BY <1>1 DEF Reading, Kept
<1>2. reader[e].whole /\ (reader[e].at = "body" => InSight(e))
  BY DEF Reading, Kept
<1>3. CASE e # d
  <2>1. reader'[e] = reader[e]
    BY <1>1, <1>3 DEF ReaderStep, ReadRoute, ReadRevision, ReadBody, Leave
  <2> QED  BY <1>1, <1>2, <2>1 DEF InSight
<1>4. CASE e = d
  <2>1. CASE ReadRoute(d)
    <3>1. reader'[d] = [NotReading EXCEPT !.at = "revision", !.rev = route.active]
      BY <1>1, <2>1 DEF ReadRoute
    <3>2. reader'[d].at = "revision" /\ reader'[d].whole
      BY <3>1 DEF NotReading
    <3> QED  BY <1>4, <3>2
  <2>4. CASE Leave(d)
    <3>1. reader'[d] = NotReading
      BY <1>1, <2>4 DEF Leave
    <3> QED  BY <1>4, <3>1 DEF NotReading
  <2>2. CASE ReadRevision(d)
    <3>1. CASE revision[reader[d].rev].state # "active"
      BY <1>1, <1>4, <2>2, <3>1 DEF ReadRevision, NotReading
    <3>2. CASE revision[reader[d].rev].state = "active"
      <4>1. reader'[d].rev = reader[d].rev /\ reader'[d].whole = reader[d].whole
        BY <1>1, <2>2, <3>2 DEF ReadRevision, Reader
      <4>2. ~revision[reader[d].rev].expired
        BY <1>1, <2>2, <3>2 DEF ReadRevision, Reading, Kept
      <4>3. \A c \in Calls : call[c].at = "discard" => call[c].rev # reader[d].rev
        BY <1>1, <3>2 DEF Discarded
      <4> QED  BY <1>1, <1>2, <1>4, <3>2, <4>1, <4>2, <4>3 DEF InSight
    <3> QED  BY <3>1, <3>2
  <2>3. CASE ReadBody(d)
    BY <1>1, <1>2, <1>4, <2>3 DEF ReadBody, InSight, Reader
  <2> QED  BY <2>1, <2>2, <2>3, <2>4 DEF ReaderStep
<1> QED  BY <1>3, <1>4

LEMMA NextReading == Reading /\ [Next]_vars => Reading'
<1> SUFFICES ASSUME Reading, [Next]_vars PROVE Reading'
  OBVIOUS
<1>1. Agreement' /\ revision \in [Revisions -> Revision]
      /\ \A d \in Readers : reader[d].at = "body" => reader[d].rev \in Revisions
  BY NextAgreement DEF Reading, Agreement, Typed, TypeOK
<1>2. ASSUME NEW r \in Revisions, Expires(r) \/ Sweep(r) PROVE Reading'
  <2>1. UNCHANGED <<call, reader, deletion>>
    BY <1>2 DEF Expires, Sweep
  <2>2. CASE Expires(r)
    <3>1. \A q \in Revisions : q # r => revision'[q] = revision[q]
      BY <1>1, <2>2 DEF Expires
    <3>2. revision'[r].state # "active" /\ \A d \in Readers : reader[d].rev # r
      BY <1>1, <2>2 DEF Expires, Revision
    <3> QED  BY <1>1, <2>1, <3>1, <3>2 DEF Reading, Kept, InSight
  <2>3. CASE Sweep(r)
    <3>1. \A q \in Revisions : q # r => revision'[q] = revision[q]
      BY <1>1, <2>3 DEF Sweep
    <3>2. revision[r].expired /\ revision'[r].state # "active"
      BY <1>1, <2>3 DEF Sweep, Sweepable, Dropped, Revision
    <3> QED  BY <1>1, <2>1, <3>1, <3>2 DEF Reading, Kept, InSight
  <2> QED  BY <1>2, <2>2, <2>3
<1>3. CASE UNCHANGED vars
  BY <1>1, <1>3 DEF vars, Reading, Kept, InSight
<1> QED  BY <1>1, <1>2, <1>3, CallReading, RouteReading, ReaderReading DEF Next

(* loadRouteDetails reads a route, its revision and its days one after the *)
(* other; whoever saves, repeats or sweeps in between, what it shows is    *)
(* whole while the route is not deleted.                                   *)
THEOREM RoutesReadWhole == Spec => []ReadersSeeWholeRoutes
<1>1. Reading => ReadersSeeWholeRoutes
  BY DEF Reading, Kept, ReadersSeeWholeRoutes
<1> QED  BY InitReading, NextReading, <1>1, PTL DEF Spec
=============================================================================
