------------------------------ MODULE AdminRoster ------------------------------
(***************************************************************************)
(* Who is an administrator: the custom claim of the account, the registry  *)
(* system/moderation/admins, the session token that carries the claim, and *)
(* the admin rows in an inbox (functions/adminService.js setUserAdmin,     *)
(* adminAuthorization.js, deletionService.js, and fanoutAdminNotification  *)
(* and purgeAdminNotificationsForUser of notificationService.js).          *)
(*                                                                         *)
(* The services are written one after the other, in no transaction, and a  *)
(* call may die between any two writes.  The pages of the purge and the    *)
(* unread counter are the subject of NotificationInbox.                    *)
(***************************************************************************)
EXTENDS Integers, FiniteSets

CONSTANTS
    Users,      \* accounts
    NoUser,     \* "nobody"
    Calls,      \* setUserAdmin invocations that may run at once
    Founders    \* administrators at the start

ASSUME RosterAssumptions ==
    /\ IsFiniteSet(Users) /\ NoUser \notin Users
    /\ Founders \subseteq Users /\ Founders # {}

VARIABLES
    claim,      \* accounts whose custom claims say admin
    session,    \* accounts whose current token says admin
    registry,   \* active entries of system/moderation/admins
    account,    \* [Users -> status]
    rows,       \* accounts with admin rows in the inbox
    calls,      \* [Calls -> what an invocation is doing]
    abandoned,  \* accounts whose demotion died before its purge
    disturbed   \* a call died, or ran beside another or beside a deletion

rosterVars == <<claim, session, registry, account, rows, calls, abandoned, disturbed>>

Call == [at : {"idle", "count", "claim", "registry", "purge"}, caller : Users \cup {NoUser},
         user : Users \cup {NoUser}, enabled : BOOLEAN]
Free == [at |-> "idle", caller |-> NoUser, user |-> NoUser, enabled |-> FALSE]
Leaving(u) == account[u] \in {"deleting", "emptied"}
UnderWay == {c \in Calls : calls[c].at # "idle"}

RosterTypeOK ==
    /\ claim \subseteq Users /\ session \subseteq Users /\ registry \subseteq Users
    /\ account \in [Users -> {"active", "deleting", "emptied", "gone"}]
    /\ rows \subseteq Users /\ abandoned \subseteq Users
    /\ calls \in [Calls -> Call]
    /\ \A c \in UnderWay : calls[c].user \in Users \ {calls[c].caller}
    /\ disturbed \in BOOLEAN

RosterInit ==
    /\ claim = Founders /\ session = Founders /\ registry = Founders
    /\ account = [u \in Users |-> "active"]
    /\ rows = {} /\ abandoned = {}
    /\ calls = [c \in Calls |-> Free]
    /\ disturbed = FALSE
-----------------------------------------------------------------------------
(* prepareAdmin: the token and, once, the registry; the caller may not     *)
(* name themselves.                                                        *)
MayName(m, u) == u # m

Begin(c, m, u, enabled) ==
    /\ c \notin UnderWay
    /\ m \in session \cap registry /\ account[u] # "gone" /\ MayName(m, u)
    /\ calls' = [calls EXCEPT ![c] = [at |-> IF enabled THEN "claim" ELSE "count",
                                      caller |-> m, user |-> u, enabled |-> enabled]]
    /\ disturbed' = (disturbed \/ UnderWay # {} \/ \E x \in Users : Leaving(x))
    /\ UNCHANGED <<claim, session, registry, account, rows, abandoned>>

(* The count query on the registry.                                        *)
MoreThanOne == Cardinality(registry) > 1

CountAdmins(c) ==
    /\ calls[c].at = "count"
    /\ calls' = IF MoreThanOne THEN [calls EXCEPT ![c].at = "claim"]
                ELSE [calls EXCEPT ![c] = Free]
    /\ UNCHANGED <<claim, session, registry, account, rows, abandoned, disturbed>>

(* Where a call goes after its claim and registry writes (variant: the     *)
(* rows are purged before the registry is written, which comes last).      *)
PurgeFirst(c, written) ==
    CASE written = "claim" -> IF calls[c].enabled THEN "registry" ELSE "purge"
      [] written = "registry" -> "idle"
      [] written = "purge" -> "registry"
After(c, written) ==
    CASE written = "claim" -> "registry"
      [] written = "registry" -> IF calls[c].enabled THEN "idle" ELSE "purge"
      [] written = "purge" -> "idle"

AdvanceCall(c, written) ==
    calls' = [calls EXCEPT ![c] =
        IF After(c, written) = "idle" THEN Free ELSE [@ EXCEPT !.at = After(c, written)]]

(* setCustomUserClaims and revokeRefreshTokens: the token in use stays     *)
(* valid until it expires (variant: the claims stay as they are).          *)
ClaimsKept(c) == claim
ClaimsSet(c) == IF calls[c].enabled THEN claim \cup {calls[c].user} ELSE claim \ {calls[c].user}

WriteClaim(c) ==
    /\ calls[c].at = "claim" /\ account[calls[c].user] # "gone"
    /\ claim' = ClaimsSet(c)
    /\ AdvanceCall(c, "claim")
    /\ UNCHANGED <<session, registry, account, rows, abandoned, disturbed>>

WriteRegistry(c) ==
    /\ calls[c].at = "registry"
    /\ registry' = IF calls[c].enabled THEN registry \cup {calls[c].user}
                   ELSE registry \ {calls[c].user}
    /\ AdvanceCall(c, "registry")
    /\ UNCHANGED <<claim, session, account, rows, abandoned, disturbed>>

(* purgeAdminNotificationsForUser                                          *)
PurgeRows(c) ==
    /\ calls[c].at = "purge"
    /\ rows' = rows \ {calls[c].user}
    /\ AdvanceCall(c, "purge")
    /\ UNCHANGED <<claim, session, registry, account, abandoned, disturbed>>

(* A service call fails or the instance is killed: nobody goes on.         *)
CallDies(c) ==
    /\ c \in UnderWay
    /\ calls' = [calls EXCEPT ![c] = Free]
    /\ abandoned' = IF calls[c].at = "purge" THEN abandoned \cup {calls[c].user} ELSE abandoned
    /\ disturbed' = TRUE
    /\ UNCHANGED <<claim, session, registry, account, rows>>
-----------------------------------------------------------------------------
(* A token is refreshed, or expires and the user signs in again.           *)
SignIn(u) ==
    /\ account[u] # "gone"
    /\ session' = (session \ {u}) \cup (claim \cap {u})
    /\ UNCHANGED <<claim, registry, account, rows, calls, abandoned, disturbed>>

(* upsertNotification with requireActiveAdmin: one transaction (variant:   *)
(* whoever was found when the recipients were listed).                     *)
IsListed(u) == TRUE
IsActiveAdmin(u) == u \in registry
Fanout(u) ==
    /\ IsActiveAdmin(u) /\ account[u] = "active"
    /\ rows' = rows \cup {u}
    /\ UNCHANGED <<claim, session, registry, account, calls, abandoned, disturbed>>

(* deleteAccountInternal, asked for by the account or an administrator: a  *)
(* transaction marks user and registry, the user's documents go, the       *)
(* registry entry goes, and last the account itself.                       *)
MarkAccount(u) ==
    /\ account[u] = "active"
    /\ account' = [account EXCEPT ![u] = "deleting"]
    /\ registry' = registry \ {u}
    /\ disturbed' = (disturbed \/ UnderWay # {})
    /\ UNCHANGED <<claim, session, rows, calls, abandoned>>

EmptyAccount(u) ==
    /\ account[u] = "deleting"
    /\ rows' = rows \ {u}
    /\ registry' = registry \ {u}
    /\ account' = [account EXCEPT ![u] = "emptied"]
    /\ disturbed' = (disturbed \/ UnderWay # {})
    /\ UNCHANGED <<claim, session, calls, abandoned>>

DeleteAuthUser(u) ==
    /\ account[u] = "emptied"
    /\ account' = [account EXCEPT ![u] = "gone"]
    /\ claim' = claim \ {u} /\ session' = session \ {u}
    /\ disturbed' = (disturbed \/ UnderWay # {})
    /\ UNCHANGED <<registry, rows, calls, abandoned>>
-----------------------------------------------------------------------------
CallStep(c) ==
    CountAdmins(c) \/ WriteClaim(c) \/ WriteRegistry(c) \/ PurgeRows(c) \/ CallDies(c)

RosterNext ==
    \/ \E c \in Calls, m, u \in Users, enabled \in BOOLEAN : Begin(c, m, u, enabled)
    \/ \E c \in Calls : CallStep(c)
    \/ \E u \in Users : SignIn(u) \/ Fanout(u)
    \/ \E u \in Users : MarkAccount(u) \/ EmptyAccount(u) \/ DeleteAuthUser(u)

RosterSpec == RosterInit /\ [][RosterNext]_rosterVars
-----------------------------------------------------------------------------
(* PROPERTIES *)

Active == {u \in Users : account[u] = "active"}

(* Whoever is no longer an administrator keeps no admin row once nobody is *)
(* about to purge it, however grants, demotions, fan-outs and account      *)
(* deletions interleave: the fan-out reads the registry in its             *)
(* transaction, and the purge follows the registry write.                  *)
FormerAdminSeesNothing ==
    \A u \in rows \ registry :
        \/ u \in abandoned
        \/ account[u] = "deleting"
        \/ \E c \in UnderWay : calls[c].user = u /\ calls[c].at = "purge"

(* Claim and registry agree when nothing is in flight, as long as calls    *)
(* neither died nor overlapped; with them a registry entry may outlive its *)
(* claim, or its account, and is still counted as an administrator.        *)
RosterAgrees ==
    UnderWay = {} /\ ~disturbed =>
        /\ claim \cap Active = registry \cap Active
        /\ registry \subseteq Active
=============================================================================
