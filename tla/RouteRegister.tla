----------------------------- MODULE RouteRegister -----------------------------
(***************************************************************************)
(* What saving a route promises, without revisions: one document whose     *)
(* content is replaced whole, by a writer who has seen the version that it *)
(* replaces; a creation that is repeated changes nothing.  RouteRevisions  *)
(* is shown to implement it.                                               *)
(***************************************************************************)
EXTENDS Naturals

CONSTANTS
    Texts,          \* contents of the route
    Writers,        \* saves that may be under way
    NoText

VARIABLES
    content,        \* what a reader would be shown
    status,
    version,
    seen            \* [Writers -> the version a writer goes by]

vars == <<content, status, version, seen>>

Editable == status \in {"active", "hold"}

TypeOK ==
    /\ content \in Texts \cup {NoText}
    /\ status \in {"none", "active", "hold", "deleting"}
    /\ version \in Nat
    /\ seen \in [Writers -> Nat]

Init ==
    /\ content = NoText /\ status = "none" /\ version = 0
    /\ seen = [w \in Writers |-> 0]

Forget(w) == seen' = [seen EXCEPT ![w] = 0]

Look(w) ==
    /\ seen' = [seen EXCEPT ![w] = version]
    /\ UNCHANGED <<content, status, version>>

GiveUp(w) ==
    /\ Forget(w)
    /\ UNCHANGED <<content, status, version>>

(* Unsafe text is published as held; what a moderator holds stays held.    *)
Create(w, t) ==
    /\ status = "none"
    /\ content' = t /\ version' = 1 /\ status' \in {"active", "hold"}
    /\ Forget(w)

Replace(w, t) ==
    /\ Editable /\ seen[w] = version
    /\ content' = t /\ version' = version + 1 /\ status' \in {status, "hold"}
    /\ Forget(w)

Moderate ==
    /\ Editable /\ status' \in {"active", "hold"}
    /\ UNCHANGED <<content, version, seen>>

MarkDeleting ==
    /\ status = "active" /\ status' = "deleting"
    /\ UNCHANGED <<content, version, seen>>

Erase ==
    /\ status # "none"
    /\ content' = NoText /\ status' = "none" /\ version' = 0
    /\ UNCHANGED seen

Next ==
    \/ \E w \in Writers : Look(w) \/ GiveUp(w) \/ \E t \in Texts : Create(w, t) \/ Replace(w, t)
    \/ Moderate \/ MarkDeleting \/ Erase

Spec == Init /\ [][Next]_vars
================================================================================
