---------------------------- MODULE RouteRevisions ----------------------------
(***************************************************************************)
(* A route and its revisions (functions/routeService.js): saveRoute writes *)
(* the days and stops of a new revision first and then, in a transaction,  *)
(* makes it the route's; loadRouteDetails reads the route, its revision    *)
(* and the revision's days one after the other; cleanupRouteRevisions      *)
(* removes what has expired.  Deletion is deletionService.js               *)
(* deleteContentInternal, hold and restore are ContentModeration's.        *)
(*                                                                         *)
(* One route is followed: the document that the creations of one           *)
(* publication request agree on.  Days, stops and fields are written once, *)
(* with the revision, so that its id stands for them.  Who calls is open.  *)
(***************************************************************************)
EXTENDS Naturals

CONSTANTS
    Calls,          \* calls of saveRoute that run at a time
    Readers,
    MaxRevisions,   \* bound: revisions that are ever written
    MaxDeletions    \* bound: deletions of the route

ASSUME RevisionAssumptions ==
    MaxRevisions \in Nat /\ MaxDeletions \in Nat

Revisions == 1..MaxRevisions    \* in the order in which they are written
NoRevision == 0

VARIABLES
    route,          \* the route's document
    revision,       \* [Revisions -> the revision's documents]
    call,           \* [Calls -> what a running call is doing]
    reader,         \* [Readers -> what a reader has read]
    deletion        \* the deletion that runs, if any

vars == <<route, revision, call, reader, deletion>>

Route == [status : {"none", "active", "hold", "deleting"}, version : Nat,
          active : Revisions \cup {NoRevision}]
NoRoute == [status |-> "none", version |-> 0, active |-> NoRevision]
(* expired: expireAt has passed.                                           *)
Revision == [state : {"unused", "prepared", "active", "superseded", "gone"},
             expired : BOOLEAN]
(* base: the version that a call found; rev: the revision it has prepared. *)
Call == [at : {"idle", "look", "prepare", "commit", "discard"},
         op : {"create", "edit"}, base : Nat, rev : Revisions \cup {NoRevision}]
Idle == [at |-> "idle", op |-> "create", base |-> 0, rev |-> NoRevision]
Reader == [at : {"idle", "revision", "body", "done"},
           rev : Revisions \cup {NoRevision}, whole : BOOLEAN]
NotReading == [at |-> "idle", rev |-> NoRevision, whole |-> TRUE]
(* held: a deletion began while the route was held.                        *)
Deletion == [at : {"idle", "list", "remove", "erase"}, found : SUBSET Revisions,
             held : BOOLEAN, done : 0..MaxDeletions]

TypeOK ==
    /\ route \in Route
    /\ route.status = "none" <=> route.active = NoRevision
    /\ revision \in [Revisions -> Revision]
    /\ call \in [Calls -> Call]
    /\ \A c \in Calls : call[c].at \in {"commit", "discard"} => call[c].rev \in Revisions
    /\ reader \in [Readers -> Reader]
    /\ \A d \in Readers : reader[d].at \in {"revision", "body"} => reader[d].rev \in Revisions
    /\ deletion \in Deletion

Init ==
    /\ route = NoRoute
    /\ revision = [r \in Revisions |-> [state |-> "unused", expired |-> FALSE]]
    /\ call = [c \in Calls |-> Idle]
    /\ reader = [d \in Readers |-> NotReading]
    /\ deletion = [at |-> "idle", found |-> {}, held |-> FALSE, done |-> 0]
-----------------------------------------------------------------------------
(* assertEditableRoute: held content may be edited.                        *)
Editable == route.status \in {"active", "hold"}
Goto(c, next) == call' = [call EXCEPT ![c] = next]
Return(c) == Goto(c, Idle)

(* A creation carries a publishRequestId, an edit the route's id.          *)
Begin(c, op) ==
    /\ call[c] = Idle
    /\ Goto(c, [Idle EXCEPT !.at = "look", !.op = op])
    /\ UNCHANGED <<route, revision, reader, deletion>>

(* The first read: a creation goes on if it finds nothing; it answers with *)
(* what an earlier attempt has published, or fails.                        *)
Look(c) ==
    LET k == call[c] IN
    /\ k.at = "look"
    /\ IF IF k.op = "create" THEN route.status = "none" ELSE Editable
       THEN Goto(c, [k EXCEPT !.at = "prepare", !.base = route.version])
       ELSE Return(c)
    /\ UNCHANGED <<route, revision, reader, deletion>>

(* The batch that creates the prepared revision, days and stops and all.   *)
Prepare(c) == \E r \in Revisions :
    /\ call[c].at = "prepare"
    /\ revision[r].state = "unused"
    /\ \A q \in 1..(r - 1) : revision[q].state # "unused"
    /\ revision' = [revision EXCEPT ![r] = [state |-> "prepared", expired |-> FALSE]]
    /\ Goto(c, [call[c] EXCEPT !.at = "commit", !.rev = r])
    /\ UNCHANGED <<route, reader, deletion>>

(* assertRouteRevisionVersion for an edit; for a creation, nothing there   *)
(* (variant: the version is not compared).                                 *)
AnyVersion(k) == IF k.op = "create" THEN route.status = "none" ELSE Editable
NothingNewer(k) ==
    IF k.op = "create" THEN route.status = "none" ELSE Editable /\ route.version = k.base
Replays(k) == k.op = "create" /\ route.status = "active"

(* The previous revision is kept for those who read it (variants: it is    *)
(* left as it is; it is deleted at once).                                  *)
Unmarked(v) == v
Dropped(v) == [v EXCEPT !.state = "gone"]
Superseded(v) == [v EXCEPT !.state = "superseded"]

(* The transaction, which fails if a deletion has taken the revision away. *)
Prepared(c) == call[c].at = "commit" /\ revision[call[c].rev].state = "prepared"

Activate(c) ==
    LET k == call[c] IN
    /\ Prepared(c) /\ NothingNewer(k)
    /\ \E s \in {IF k.op = "create" THEN "active" ELSE route.status, "hold"} :
        route' = [status |-> s, version |-> k.base + 1, active |-> k.rev]
    /\ revision' = [r \in Revisions |->
            IF r = k.rev THEN [revision[r] EXCEPT !.state = "active", !.expired = FALSE]
            ELSE IF r = route.active /\ revision[r].state # "gone" THEN Superseded(revision[r])
            ELSE revision[r]]
    /\ Return(c)
    /\ UNCHANGED <<reader, deletion>>

Replay(c) ==
    /\ Prepared(c) /\ Replays(call[c])
    /\ revision' = [revision EXCEPT ![call[c].rev] = Superseded(@)]
    /\ Goto(c, [call[c] EXCEPT !.at = "discard"])
    /\ UNCHANGED <<route, reader, deletion>>

Refuse(c) ==
    /\ call[c].at = "commit"
    /\ Prepared(c) => ~NothingNewer(call[c]) /\ ~Replays(call[c])
    /\ Return(c)
    /\ UNCHANGED <<route, revision, reader, deletion>>

(* The replay's own revision is removed; if that fails, the sweep does it. *)
Discard(c) ==
    /\ call[c].at = "discard"
    /\ revision' \in {revision, [revision EXCEPT ![call[c].rev].state = "gone"]}
    /\ Return(c)
    /\ UNCHANGED <<route, reader, deletion>>

(* A check, a provider or a write fails, or the instance dies.             *)
Fails(c) ==
    /\ call[c].at \in {"look", "prepare", "commit", "discard"}
    /\ Return(c)
    /\ UNCHANGED <<route, revision, reader, deletion>>
-----------------------------------------------------------------------------
Moderate ==
    /\ Editable
    /\ route' = [route EXCEPT !.status = IF @ = "active" THEN "hold" ELSE "active"]
    /\ UNCHANGED <<revision, call, reader, deletion>>

(* deleteContentInternal: markDeleting leaves the status of held content   *)
(* alone; recursiveDelete lists the tree, removes what it has listed, and  *)
(* the route's document last.  The call may fail or die before its end.    *)
MarkDeleting ==
    /\ deletion.at = "idle" /\ deletion.done < MaxDeletions /\ route.status # "none"
    /\ route' = IF route.status = "active" THEN [route EXCEPT !.status = "deleting"] ELSE route
    /\ deletion' = [deletion EXCEPT !.at = "list", !.done = @ + 1,
                                    !.held = @ \/ route.status = "hold"]
    /\ UNCHANGED <<revision, call, reader>>

ListTree ==
    /\ deletion.at = "list"
    /\ deletion' = [deletion EXCEPT !.at = "remove",
                        !.found = {r \in Revisions : revision[r].state \notin {"unused", "gone"}}]
    /\ UNCHANGED <<route, revision, call, reader>>

RemoveTree ==
    /\ deletion.at = "remove"
    /\ revision' = [r \in Revisions |->
                      IF r \in deletion.found THEN Dropped(revision[r]) ELSE revision[r]]
    /\ deletion' = [deletion EXCEPT !.at = "erase", !.found = {}]
    /\ UNCHANGED <<route, call, reader>>

Erased == NoRoute

RemoveRoute ==
    /\ deletion.at = "erase"
    /\ route' = Erased
    /\ deletion' = [deletion EXCEPT !.at = "idle"]
    /\ UNCHANGED <<revision, call, reader>>

DeletionFails ==
    /\ deletion.at # "idle"
    /\ deletion' = [deletion EXCEPT !.at = "idle", !.found = {}]
    /\ UNCHANGED <<route, revision, call, reader>>
-----------------------------------------------------------------------------
(* loadRouteDetails.                                                       *)
ReadRoute(d) ==
    /\ reader[d].at = "idle" /\ route.status = "active"
    /\ reader' = [reader EXCEPT ![d] = [NotReading EXCEPT !.at = "revision", !.rev = route.active]]
    /\ UNCHANGED <<route, revision, call, deletion>>
ReadRevision(d) ==
    /\ reader[d].at = "revision"
    /\ reader' = [reader EXCEPT ![d] = IF revision[reader[d].rev].state = "active"
                                       THEN [@ EXCEPT !.at = "body"] ELSE NotReading]
    /\ UNCHANGED <<route, revision, call, deletion>>
(* Days and stops that are gone are simply not found.                      *)
ReadBody(d) ==
    /\ reader[d].at = "body"
    /\ reader' = [reader EXCEPT ![d].at = "done",
                                ![d].whole = revision[reader[d].rev].state # "gone"]
    /\ UNCHANGED <<route, revision, call, deletion>>
Leave(d) ==
    /\ reader[d].at = "done" /\ reader' = [reader EXCEPT ![d] = NotReading]
    /\ UNCHANGED <<route, revision, call, deletion>>

(* A prepared or replayed revision expires two hours after it was written, *)
(* a superseded one after a week: no call and no reader lives that long.   *)
Expires(r) ==
    /\ revision[r].state \in {"prepared", "superseded"} /\ ~revision[r].expired
    /\ \A c \in Calls : call[c].rev # r
    /\ \A d \in Readers : reader[d].rev # r
    /\ revision' = [revision EXCEPT ![r].expired = TRUE]
    /\ UNCHANGED <<route, call, reader, deletion>>

(* cleanupRouteRevisions, once per revision it found (variant: it looks    *)
(* for superseded ones only).                                              *)
OnlySuperseded(v) == v.expired /\ v.state = "superseded"
Sweepable(v) == v.expired /\ v.state \notin {"active", "gone"}

Sweep(r) ==
    /\ Sweepable(revision[r])
    /\ revision' = [revision EXCEPT ![r] = Dropped(@)]
    /\ UNCHANGED <<route, call, reader, deletion>>
-----------------------------------------------------------------------------
CallStep(c) ==
    \/ Look(c) \/ Prepare(c)
    \/ Activate(c) \/ Replay(c) \/ Refuse(c)
    \/ Discard(c) \/ Fails(c)
DeletionStep == ListTree \/ RemoveTree \/ RemoveRoute \/ DeletionFails
ReaderStep(d) == ReadRoute(d) \/ ReadRevision(d) \/ ReadBody(d) \/ Leave(d)

Next ==
    \/ \E c \in Calls : CallStep(c) \/ \E op \in {"create", "edit"} : Begin(c, op)
    \/ Moderate \/ MarkDeleting \/ DeletionStep
    \/ \E d \in Readers : ReaderStep(d)
    \/ \E r \in Revisions : Expires(r) \/ Sweep(r)

Spec == Init /\ [][Next]_vars

(* A call ends within its time limit, a reader has its answer or gives up, *)
(* clocks move on and the sweep is scheduled every day.                    *)
FairSpec ==
    /\ Spec
    /\ \A c \in Calls : WF_vars(CallStep(c))
    /\ \A d \in Readers : WF_vars(ReaderStep(d))
    /\ \A r \in Revisions : WF_vars(Expires(r)) /\ WF_vars(Sweep(r))
-----------------------------------------------------------------------------
(* The route and its revisions agree: the revision that a route names is   *)
(* there and active and no other is, and a deleted route has left none     *)
(* (routeService.js:484-862, 909), unless a deletion found it held; one    *)
(* that died leaves the route unreadable, without some of its revisions.   *)
ActiveRevisions == {r \in Revisions : revision[r].state = "active"}
OneActiveRevision ==
    ~deletion.held =>
        /\ route.status \in {"active", "hold"} => ActiveRevisions = {route.active}
        /\ route.status = "deleting" => ActiveRevisions \subseteq {route.active}
        /\ route.status = "none" => ActiveRevisions = {}

(* What a reader is shown is whole, unless the route is deleted meanwhile. *)
ReadersSeeWholeRoutes ==
    deletion.done = 0 => \A d \in Readers : reader[d].whole

(* Every revision that is not the route's goes in the end: those of calls  *)
(* that died or lost the race, of replays, and the superseded ones.        *)
LeftoversSwept ==
    \A r \in Revisions : revision[r].state \in {"prepared", "superseded"}
        ~> revision[r].state \in {"active", "gone"}

(* The abstract register this implements: its content is the revision that *)
(* the route names.                                                        *)
Register == INSTANCE RouteRegister WITH
    Texts <- Revisions, NoText <- NoRevision, Writers <- Calls,
    content <- route.active,
    status <- route.status,
    version <- route.version,
    seen <- [c \in Calls |-> call[c].base]
ImplementsRegister == Register!Spec
=============================================================================
